------------------------------ MODULE LRUCache ------------------------------
(***************************************************************************)
(* The least-recently-used cache template of server/lru_cache.h, on which  *)
(* every StorageCache of server/databasefeeder.cpp is built.               *)
(*                                                                         *)
(* _list is the linked list of elements, most recently used first (only    *)
(* the keys; the data of an element is reached through _index, a map from  *)
(* keys to list iterators, modelled as the data such an iterator points    *)
(* to).  _curr_size is a counter kept beside the two containers, and       *)
(* clear() does not reset it: after a clear the counter still pays for the *)
(* elements that are gone.                                                 *)
(***************************************************************************)
EXTENDS Naturals, Sequences, SequencesExt

CONSTANTS
  Keys,
  Data,
  MaxSize       \* _max_size, fixed by the constructor

ASSUME MaxSizeAssumption == MaxSize \in Nat

VARIABLES
  _list,        \* sequence of keys, most recently used first
  _index,       \* partial function from keys to data
  _curr_size,   \* the size counter
  recency,      \* history: every key used since clear(), latest use first
  latest        \* history: what was inserted last under each key

vars == <<_list, _index, _curr_size, recency, latest>>

LRUTypeOK ==
  /\ _list \in Seq(Keys)
  /\ DOMAIN _index \subseteq Keys
  /\ \A k \in DOMAIN _index : _index[k] \in Data
  /\ _curr_size \in 0 .. MaxSize
  /\ recency \in Seq(Keys)
  /\ DOMAIN latest \subseteq Keys /\ \A k \in DOMAIN latest : latest[k] \in Data

-----------------------------------------------------------------------------
\* The sequence s without its first element k; s itself if k is not in it.
Unlink(s, k) ==
  IF k \in ToSet(s)
    THEN RemoveAt(s, CHOOSE i \in DOMAIN s : s[i] = k)
    ELSE s

\* _list.splice(begin, ...): k becomes the most recently used key.
MoveToFront(s, k) == <<k>> \o Unlink(s, k)

Init ==
  /\ _list = <<>>
  /\ _index = [k \in {} |-> k]
  /\ _curr_size = 0
  /\ recency = <<>>
  /\ latest = [k \in {} |-> k]

\* Mutant: the hit is returned without being touched.
FetchPtrNoTouch(k) ==
  /\ k \in DOMAIN _index
  /\ recency' = MoveToFront(recency, k)
  /\ UNCHANGED <<_list, _index, _curr_size, latest>>

\* fetch_ptr: a hit is moved to the front, a miss changes nothing.
FetchPtr(k) ==
  /\ k \in DOMAIN _index
  /\ _list' = MoveToFront(_list, k)
  /\ recency' = MoveToFront(recency, k)
  /\ UNCHANGED <<_index, _curr_size, latest>>

\* Mutant: the element is taken off the counter even if there was none.
SizeWithoutUnchecked(k) == _curr_size - 1

\* The counter after _touch and _remove of an element that was there already.
SizeWithout(k) == IF k \in DOMAIN _index THEN _curr_size - 1 ELSE _curr_size

\* How often the loop "while (_curr_size > _max_size)" of insert runs.
Excess(k) == IF SizeWithout(k) + 1 > MaxSize
               THEN SizeWithout(k) + 1 - MaxSize ELSE 0

\* The list when that loop is done.
Kept(k) ==
  LET pushed == MoveToFront(_list, k)
  IN  SubSeq(pushed, 1, Len(pushed) - Excess(k))

\* What was inserted last under each key, after an insertion (history).
Inserted(k, d) ==
  [x \in DOMAIN latest \cup {k} |-> IF x = k THEN d ELSE latest[x]]

\* Mutant: eviction takes the elements off the list only.
InsertLeavesIndex(k, d) ==
  /\ _list' = Kept(k)
  /\ _index' = [x \in DOMAIN _index \cup {k} |-> IF x = k THEN d ELSE _index[x]]
  /\ _curr_size' = SizeWithout(k) + 1 - Excess(k)
  /\ recency' = MoveToFront(recency, k)
  /\ latest' = Inserted(k, d)

\* Mutant: map::insert alone, which keeps the element that is there.
InsertKeepsOld(k, d) ==
  /\ _list' = Kept(k)
  /\ _index' = [x \in ToSet(Kept(k)) |->
                  IF x \in DOMAIN _index THEN _index[x] ELSE d]
  /\ _curr_size' = SizeWithout(k) + 1 - Excess(k)
  /\ recency' = MoveToFront(recency, k)
  /\ latest' = Inserted(k, d)

\* insert: touch and remove the key if it is there, put it in front, evict.
Insert(k, d) ==
  /\ _list' = Kept(k)
  /\ _index' = [x \in ToSet(Kept(k)) |-> IF x = k THEN d ELSE _index[x]]
  /\ _curr_size' = SizeWithout(k) + 1 - Excess(k)
  /\ recency' = MoveToFront(recency, k)
  /\ latest' = Inserted(k, d)

RemoveKey(k) ==
  /\ k \in DOMAIN _index
  /\ _list' = Unlink(_list, k)
  /\ _index' = Restrict(_index, DOMAIN _index \ {k})
  /\ _curr_size' = _curr_size - 1
  /\ recency' = Unlink(recency, k)
  /\ latest' = Restrict(latest, DOMAIN latest \ {k})

\* Both containers are emptied, _curr_size keeps its value.
Clear ==
  /\ _list' = <<>>
  /\ _index' = [k \in {} |-> k]
  /\ recency' = <<>>
  /\ latest' = [k \in {} |-> k]
  /\ UNCHANGED _curr_size

Next ==
  \/ \E k \in Keys : FetchPtr(k)
  \/ \E k \in Keys, d \in Data : Insert(k, d)
  \/ \E k \in Keys : RemoveKey(k)
  \/ Clear

Spec == Init /\ [][Next]_vars

-----------------------------------------------------------------------------
\* The two containers of lru_cache.h never drift apart: _index has an iterator
\* for exactly the elements of _list, and no key is in _list twice.  A stale
\* iterator would be a use after free in fetch_ptr.
NoRepeat(s) == \A i, j \in DOMAIN s : s[i] = s[j] => i = j

IndexMatchesList ==
  /\ DOMAIN _index = ToSet(_list)
  /\ NoRepeat(_list)

\* The counter is unsigned, and _remove takes one off it per element: it must
\* never be smaller than the number of elements it will be decremented for.
CounterCoversList == Len(_list) <= _curr_size

\* What lru_cache.h keeps in step across any calls, and each part of it needs:
\* the counter bounds the loop of insert, the index says whether the counter
\* goes down, the list what the index holds.
LRUInv ==
  /\ LRUTypeOK
  /\ IndexMatchesList
  /\ CounterCoversList
  /\ NoRepeat(recency)

\* What is kept is what was used last: the list is a prefix of the keys in the
\* order of their last use, so insert only ever discards the least recent one.
KeepsMostRecent == _list = SubSeq(recency, 1, Len(_list))

Lossy == INSTANCE LossyCache WITH content <- _index

\* A lookup misses or returns the latest value inserted under the key.
ImplementsLossyCache == Lossy!LossySpec

\* lru_cache.h:72 "grows until the size specified at construction is reached
\* and then begins discard": an insert into a cache that is not full discards
\* nothing.  clear() leaves _curr_size alone, so the code breaks this.
FillsBeforeDiscarding ==
  [][\A k \in Keys, d \in Data :
       Insert(k, d) /\ Len(_list) < MaxSize
         => DOMAIN _index' = DOMAIN _index \cup {k}]_vars
=============================================================================
