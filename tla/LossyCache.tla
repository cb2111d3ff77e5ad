----------------------------- MODULE LossyCache -----------------------------
(***************************************************************************)
(* What a user of a cache may rely on: a lookup misses, or it returns the  *)
(* value that was inserted last under that key since the cache was         *)
(* cleared.  The cache may forget any other element whenever it inserts    *)
(* one, the element just inserted included.  The server's name caches are  *)
(* used under exactly this contract (see Feeder), and LRUCache, the        *)
(* container of server/lru_cache.h, implements it.                         *)
(***************************************************************************)
EXTENDS Functions

CONSTANTS
  Keys,         \* the keys of the cache
  Data          \* the values stored under them

VARIABLES
  content,      \* partial function: what a lookup of a key returns
  latest        \* partial function: what was inserted last under a key

Empty == [k \in {} |-> k]

LossyInit == content = Empty /\ latest = Empty

\* The value d is stored under k; the elements outside survivors are dropped.
LossyInsert(k, d) ==
  /\ latest' = [x \in DOMAIN latest \cup {k} |-> IF x = k THEN d ELSE latest[x]]
  /\ \E survivors \in SUBSET (DOMAIN content \cup {k}) :
       content' = [x \in survivors |-> IF x = k THEN d ELSE content[x]]

LossyForget(k) ==
  /\ content' = Restrict(content, DOMAIN content \ {k})
  /\ latest' = Restrict(latest, DOMAIN latest \ {k})

LossyClear == content' = Empty /\ latest' = Empty

LossyNext ==
  \/ \E k \in Keys, d \in Data : LossyInsert(k, d)
  \/ \E k \in Keys : LossyForget(k)
  \/ LossyClear

LossySpec == LossyInit /\ [][LossyNext]_<<content, latest>>
=============================================================================
