--------------------------- MODULE LRUCacheProofs ---------------------------
(***************************************************************************)
(* Proofs about LRUCache for every set of keys, every set of data and      *)
(* every size: the containers stay consistent, the counter never falls     *)
(* below the number of elements, and the container implements LossyCache.  *)
(***************************************************************************)
EXTENDS LRUCache, TLAPS, SequenceTheorems

(* Membership in the set of elements of a sequence, by position.           *)
LEMMA InToSet ==
  ASSUME NEW S, NEW s \in Seq(S)
  PROVE  \A x : x \in ToSet(s) <=> \E j \in 1 .. Len(s) : s[j] = x
BY DEF ToSet

(* Unlink takes one element out of a list without repetitions.             *)
LEMMA UnlinkPositions ==
  ASSUME NEW S, NEW s \in Seq(S), NoRepeat(s), NEW i \in 1 .. Len(s)
  PROVE  LET u == Unlink(s, s[i])
         IN  /\ u \in Seq(S) /\ Len(u) = Len(s) - 1
             /\ \A j \in 1 .. Len(u) : u[j] = IF j < i THEN s[j] ELSE s[j + 1]
<1> DEFINE u == RemoveAt(s, i)
           a == SubSeq(s, 1, i - 1)
           b == SubSeq(s, i + 1, Len(s))
<1>1. i = CHOOSE j \in DOMAIN s : s[j] = s[i]
  BY DEF NoRepeat
<1>2. Unlink(s, s[i]) = u
  <2>1. s[i] \in ToSet(s)
    BY DEF ToSet
  <2> QED BY <1>1, <2>1 DEF Unlink
<1>a. /\ a \in Seq(S) /\ Len(a) = i - 1
      /\ \A j \in 1 .. i - 1 : a[j] = s[j]
  BY SubSeqProperties
<1>b. /\ b \in Seq(S) /\ Len(b) = Len(s) - i
      /\ \A j \in 1 .. Len(s) - i : b[j] = s[i + j]
  <2>1. \A j \in i + 1 .. Len(s) : s[j] \in S
    OBVIOUS
  <2>2. /\ b \in Seq(S)
        /\ Len(b) = IF i + 1 <= Len(s) THEN Len(s) - (i + 1) + 1 ELSE 0
        /\ \A j \in 1 .. Len(s) - (i + 1) + 1 : b[j] = s[i + 1 + j - 1]
    BY <2>1, SubSeqProperties
  <2> QED BY <2>2
<1>c. u = a \o b
  BY DEF RemoveAt
<1> HIDE DEF a, b, u
<1>d. /\ a \o b \in Seq(S)
      /\ Len(a \o b) = Len(a) + Len(b)
      /\ \A j \in 1 .. Len(a) + Len(b) :
           (a \o b)[j] = IF j <= Len(a) THEN a[j] ELSE b[j - Len(a)]
  BY <1>a, <1>b, ConcatProperties
<1>3. u \in Seq(S) /\ Len(u) = Len(s) - 1
  BY <1>a, <1>b, <1>c, <1>d
<1>4. \A j \in 1 .. Len(u) : u[j] = IF j < i THEN s[j] ELSE s[j + 1]
  BY <1>3, <1>a, <1>b, <1>c, <1>d
<1> QED BY <1>2, <1>3, <1>4

(* It leaves the others, and no repetition.                                *)
LEMMA UnlinkProperties ==
  ASSUME NEW S, NEW s \in Seq(S), NEW k \in ToSet(s), NoRepeat(s)
  PROVE  /\ Unlink(s, k) \in Seq(S)
         /\ Len(Unlink(s, k)) = Len(s) - 1
         /\ Len(s) > 0
         /\ ToSet(Unlink(s, k)) = ToSet(s) \ {k}
         /\ NoRepeat(Unlink(s, k))
<1> DEFINE u == Unlink(s, k)
<1>1. PICK i \in 1 .. Len(s) : s[i] = k
  BY DEF ToSet
<1>2. Len(s) > 0
  BY <1>1
<1>3. u \in Seq(S) /\ Len(u) = Len(s) - 1
  BY <1>1, UnlinkPositions
<1>4. \A j \in 1 .. Len(u) : u[j] = IF j < i THEN s[j] ELSE s[j + 1]
  BY <1>1, UnlinkPositions
<1> HIDE DEF u
<1>5. NoRepeat(u)
  <2> SUFFICES ASSUME NEW x \in 1 .. Len(u), NEW y \in 1 .. Len(u), u[x] = u[y]
               PROVE  x = y
    BY <1>3 DEF NoRepeat
  <2> DEFINE f(z) == IF z < i THEN z ELSE z + 1
  <2>1. \A z \in 1 .. Len(u) : f(z) \in 1 .. Len(s) /\ u[z] = s[f(z)]
    BY <1>1, <1>3, <1>4
  <2>2. \A z, w \in 1 .. Len(s) : s[z] = s[w] => z = w
    BY DEF NoRepeat
  <2>3. f(x) = f(y)
    BY <2>1, <2>2
  <2> QED BY <1>1, <1>3, <2>3
<1>6. ToSet(u) \subseteq ToSet(s) \ {k}
  <2> SUFFICES ASSUME NEW j \in 1 .. Len(u)
               PROVE  u[j] \in ToSet(s) /\ u[j] # k
    BY <1>3 DEF ToSet
  <2>1. CASE j < i
    <3>1. j \in 1 .. Len(s) /\ j # i /\ u[j] = s[j]
      BY <2>1, <1>1, <1>3, <1>4
    <3> QED BY <3>1, <1>1 DEF ToSet, NoRepeat
  <2>2. CASE ~(j < i)
    <3>1. j + 1 \in 1 .. Len(s) /\ j + 1 # i /\ u[j] = s[j + 1]
      BY <2>2, <1>1, <1>3, <1>4
    <3> QED BY <3>1, <1>1 DEF ToSet, NoRepeat
  <2> QED BY <2>1, <2>2
<1>7. ToSet(s) \ {k} \subseteq ToSet(u)
  <2> SUFFICES ASSUME NEW j \in 1 .. Len(s), s[j] # k
               PROVE  \E m \in 1 .. Len(u) : u[m] = s[j]
    BY <1>3 DEF ToSet
  <2>1. CASE j < i
    BY <2>1, <1>1, <1>3, <1>4
  <2>2. CASE j > i
    <3>1. j - 1 \in 1 .. Len(u) /\ u[j - 1] = s[j]
      BY <2>2, <1>1, <1>3, <1>4
    <3> QED BY <3>1
  <2> QED BY <2>1, <2>2, <1>1
<1> QED BY <1>2, <1>3, <1>5, <1>6, <1>7 DEF u

(* MoveToFront puts its key first and keeps every other element.           *)
LEMMA MoveToFrontProperties ==
  ASSUME NEW S, NEW s \in Seq(S), NEW k \in S, NoRepeat(s)
  PROVE  /\ MoveToFront(s, k) \in Seq(S)
         /\ Len(MoveToFront(s, k)) =
              IF k \in ToSet(s) THEN Len(s) ELSE Len(s) + 1
         /\ Len(MoveToFront(s, k)) > 0
         /\ ToSet(MoveToFront(s, k)) = ToSet(s) \cup {k}
         /\ NoRepeat(MoveToFront(s, k))
<1> DEFINE r == Unlink(s, k)
           m == MoveToFront(s, k)
<1>1. /\ r \in Seq(S)
      /\ Len(r) = IF k \in ToSet(s) THEN Len(s) - 1 ELSE Len(s)
      /\ ToSet(r) = ToSet(s) \ {k}
      /\ NoRepeat(r)
      /\ k \in ToSet(s) => Len(s) > 0
  <2>1. CASE k \in ToSet(s)
    BY <2>1, UnlinkProperties
  <2>2. CASE k \notin ToSet(s)
    BY <2>2 DEF Unlink
  <2> QED BY <2>1, <2>2
<1>2. m = <<k>> \o r
  BY DEF MoveToFront
<1> HIDE DEF r, m
<1>3. <<k>> \in Seq(S) /\ Len(<<k>>) = 1 /\ <<k>>[1] = k
  OBVIOUS
<1>4. /\ m \in Seq(S)
      /\ Len(m) = 1 + Len(r)
      /\ \A j \in 1 .. 1 + Len(r) : m[j] = IF j <= 1 THEN <<k>>[j] ELSE r[j - 1]
  BY <1>1, <1>2, <1>3, ConcatProperties
<1>5. m[1] = k /\ \A j \in 1 .. Len(r) : m[j + 1] = r[j]
  BY <1>1, <1>3, <1>4
<1>6. ToSet(m) = ToSet(r) \cup {k}
  <2>1. \A x : x \in ToSet(m) <=> \E j \in 1 .. Len(m) : m[j] = x
    BY <1>4, InToSet
  <2>2. \A x : x \in ToSet(r) <=> \E j \in 1 .. Len(r) : r[j] = x
    BY <1>1, InToSet
  <2>3. ASSUME NEW j \in 1 .. Len(m) PROVE m[j] \in ToSet(r) \cup {k}
    <3>1. CASE j = 1
      BY <3>1, <1>5
    <3>2. CASE j # 1
      <4>1. j - 1 \in 1 .. Len(r) /\ m[j] = r[j - 1]
        BY <3>2, <1>1, <1>4, <1>5
      <4> QED BY <4>1, <2>2
    <3> QED BY <3>1, <3>2
  <2>4. ASSUME NEW j \in 1 .. Len(r) PROVE r[j] \in ToSet(m)
    <3>1. j + 1 \in 1 .. Len(m) /\ m[j + 1] = r[j]
      BY <1>1, <1>4, <1>5
    <3> QED BY <3>1, <2>1
  <2>5. k \in ToSet(m)
    BY <1>1, <1>4, <1>5, <2>1
  <2> QED BY <2>1, <2>2, <2>3, <2>4, <2>5
<1>7. NoRepeat(m)
  <2> SUFFICES ASSUME NEW i \in 1 .. Len(m), NEW j \in 1 .. Len(m), m[i] = m[j]
               PROVE  i = j
    BY <1>4 DEF NoRepeat
  <2>1. \A x \in 1 .. Len(r) : r[x] # k
    <3>1. \A x : x \in ToSet(r) <=> \E j1 \in 1 .. Len(r) : r[j1] = x
      BY <1>1, InToSet
    <3>2. k \notin ToSet(r)
      BY <1>1
    <3> QED BY <3>1, <3>2
  <2>2. \A x \in 2 .. Len(m) : x - 1 \in 1 .. Len(r) /\ m[x] = r[x - 1]
    BY <1>1, <1>4
  <2>3. \A x \in 2 .. Len(m) : m[x] # k
    BY <2>1, <2>2
  <2>4. CASE i = 1 \/ j = 1
    BY <2>3, <2>4, <1>4, <1>5
  <2>5. CASE i # 1 /\ j # 1
    <3>1. i \in 2 .. Len(m) /\ j \in 2 .. Len(m)
      BY <2>5, <1>4
    <3>2. r[i - 1] = r[j - 1] /\ i - 1 \in 1 .. Len(r) /\ j - 1 \in 1 .. Len(r)
      BY <3>1, <2>2
    <3>3. i - 1 = j - 1
      BY <3>2, <1>1 DEF NoRepeat
    <3> QED BY <3>1, <3>3
  <2> QED BY <2>4, <2>5
<1>8. /\ Len(m) = IF k \in ToSet(s) THEN Len(s) ELSE Len(s) + 1
      /\ Len(m) > 0
  BY <1>1, <1>4
<1>9. ToSet(m) = ToSet(s) \cup {k}
  BY <1>1, <1>6
<1> QED BY <1>4, <1>7, <1>8, <1>9 DEF m

(* A prefix of a list without repetitions has none either.                 *)
LEMMA PrefixProperties ==
  ASSUME NEW S, NEW s \in Seq(S), NoRepeat(s), NEW n \in 0 .. Len(s)
  PROVE  /\ SubSeq(s, 1, n) \in Seq(S)
         /\ Len(SubSeq(s, 1, n)) = n
         /\ ToSet(SubSeq(s, 1, n)) \subseteq ToSet(s)
         /\ n = Len(s) => ToSet(SubSeq(s, 1, n)) = ToSet(s)
         /\ NoRepeat(SubSeq(s, 1, n))
<1>1. \A i \in 1 .. n : s[i] \in S
  OBVIOUS
<1>2. /\ SubSeq(s, 1, n) \in Seq(S)
      /\ Len(SubSeq(s, 1, n)) = IF 1 <= n THEN n - 1 + 1 ELSE 0
      /\ \A i \in 1 .. n - 1 + 1 : SubSeq(s, 1, n)[i] = s[1 + i - 1]
  BY <1>1, SubSeqProperties
<1>3. Len(SubSeq(s, 1, n)) = n /\ \A i \in 1 .. n : SubSeq(s, 1, n)[i] = s[i]
  BY <1>2
<1>4. NoRepeat(SubSeq(s, 1, n))
  BY <1>2, <1>3 DEF NoRepeat
<1>5. \A x : x \in ToSet(s) <=> \E j \in 1 .. Len(s) : s[j] = x
  BY InToSet
<1> DEFINE p == SubSeq(s, 1, n)
<1> HIDE DEF p
<1>6. p \in Seq(S) /\ Len(p) = n /\ \A j \in 1 .. n : p[j] = s[j]
  BY <1>2, <1>3 DEF p
<1>7. \A x : x \in ToSet(p) <=> \E j \in 1 .. Len(p) : p[j] = x
  BY <1>6, InToSet
<1>8. ToSet(p) \subseteq ToSet(s)
  BY <1>5, <1>6, <1>7
<1>9. n = Len(s) => ToSet(s) \subseteq ToSet(p)
  BY <1>5, <1>6, <1>7
<1> QED BY <1>2, <1>3, <1>4, <1>8, <1>9 DEF p

-----------------------------------------------------------------------------
(* LRUInv is inductive.  CounterCoversList alone is not: that taking an    *)
(* element out leaves the counter non-negative needs the element to be in  *)
(* the list once, which IndexMatchesList says.                             *)

(* The list an insertion leaves behind, and the counter that goes with it. *)
LEMMA KeptProperties ==
  ASSUME LRUInv, NEW k \in Keys
  PROVE  /\ Kept(k) \in Seq(Keys)
         /\ NoRepeat(Kept(k))
         /\ ToSet(Kept(k)) \subseteq DOMAIN _index \cup {k}
         /\ SizeWithout(k) + 1 - Excess(k) \in 0 .. MaxSize
         /\ Len(Kept(k)) <= SizeWithout(k) + 1 - Excess(k)
         /\ \E n \in 0 .. Len(MoveToFront(_list, k)) :
              Kept(k) = SubSeq(MoveToFront(_list, k), 1, n)
<1> DEFINE m == MoveToFront(_list, k)
<1>1. /\ _list \in Seq(Keys) /\ NoRepeat(_list)
      /\ DOMAIN _index = ToSet(_list)
      /\ _curr_size \in 0 .. MaxSize /\ MaxSize \in Nat
      /\ Len(_list) <= _curr_size
  BY MaxSizeAssumption DEF LRUInv, LRUTypeOK, IndexMatchesList, CounterCoversList
<1>2. /\ m \in Seq(Keys)
      /\ Len(m) = IF k \in DOMAIN _index THEN Len(_list) ELSE Len(_list) + 1
      /\ Len(m) > 0
      /\ ToSet(m) = DOMAIN _index \cup {k}
      /\ NoRepeat(m)
  BY <1>1, MoveToFrontProperties
<1>3. Len(_list) \in Nat /\ Len(m) \in Nat
  BY <1>1, <1>2
<1>4. k \in DOMAIN _index => _curr_size >= 1
  BY <1>1, <1>2, <1>3
<1>5. SizeWithout(k) \in 0 .. MaxSize /\ Len(m) <= SizeWithout(k) + 1
  BY <1>1, <1>2, <1>3, <1>4 DEF SizeWithout
<1>6. Excess(k) \in {0, 1} /\ SizeWithout(k) + 1 - Excess(k) \in 0 .. MaxSize
  BY <1>1, <1>5 DEF Excess
<1>7. Len(m) - Excess(k) \in 0 .. Len(m)
  BY <1>2, <1>3, <1>6
<1>8. Kept(k) = SubSeq(m, 1, Len(m) - Excess(k))
  BY DEF Kept
<1> HIDE DEF m
<1>9. /\ Kept(k) \in Seq(Keys)
      /\ Len(Kept(k)) = Len(m) - Excess(k)
      /\ ToSet(Kept(k)) \subseteq ToSet(m)
      /\ NoRepeat(Kept(k))
  BY <1>2, <1>7, <1>8, PrefixProperties
<1> QED BY <1>2, <1>3, <1>5, <1>6, <1>7, <1>8, <1>9 DEF m

LEMMA LRUInvInit == Init => LRUInv
<1> SUFFICES ASSUME Init PROVE LRUInv
  OBVIOUS
<1>1. /\ _list = <<>> /\ recency = <<>> /\ _curr_size = 0
      /\ DOMAIN _index = {} /\ DOMAIN latest = {}
  BY DEF Init
<1>2. ToSet(<<>>) = {} /\ NoRepeat(<<>>) /\ Len(<<>>) = 0
  BY DEF ToSet, NoRepeat
<1> QED BY <1>1, <1>2, MaxSizeAssumption
        DEF LRUInv, LRUTypeOK, IndexMatchesList, CounterCoversList

LEMMA LRUInvStep == LRUInv /\ [Next]_vars => LRUInv'
<1> SUFFICES ASSUME LRUInv, [Next]_vars PROVE LRUInv'
  OBVIOUS
<1>0. /\ _list \in Seq(Keys) /\ NoRepeat(_list)
      /\ recency \in Seq(Keys) /\ NoRepeat(recency)
      /\ DOMAIN _index = ToSet(_list) /\ DOMAIN _index \subseteq Keys
      /\ \A x \in DOMAIN _index : _index[x] \in Data
      /\ _curr_size \in 0 .. MaxSize /\ MaxSize \in Nat
      /\ Len(_list) <= _curr_size /\ Len(_list) \in Nat
  BY MaxSizeAssumption DEF LRUInv, LRUTypeOK, IndexMatchesList, CounterCoversList
<1> USE DEF LRUInv, LRUTypeOK, IndexMatchesList, CounterCoversList
<1>1. ASSUME NEW k \in Keys, FetchPtr(k) PROVE LRUInv'
  <2>1. k \in ToSet(_list)
    BY <1>0, <1>1 DEF FetchPtr
  <2>2. /\ _list' \in Seq(Keys) /\ NoRepeat(_list')
        /\ Len(_list') = Len(_list)
        /\ ToSet(_list') = ToSet(_list)
    <3>1. LET m == MoveToFront(_list, k)
          IN  /\ m \in Seq(Keys) /\ NoRepeat(m)
              /\ Len(m) = Len(_list)
              /\ ToSet(m) = ToSet(_list) \cup {k}
      BY ONLY <1>0, <2>1, k \in Keys, MoveToFrontProperties
    <3>2. _list' = MoveToFront(_list, k)
      BY <1>1 DEF FetchPtr
    <3> QED BY ONLY <2>1, <3>1, <3>2
  <2>3. recency' \in Seq(Keys) /\ NoRepeat(recency')
    BY <1>0, <1>1, MoveToFrontProperties DEF FetchPtr
  <2> QED BY <1>0, <1>1, <2>2, <2>3 DEF FetchPtr
<1>2. ASSUME NEW k \in Keys, NEW d \in Data, Insert(k, d) PROVE LRUInv'
  <2>1. recency' \in Seq(Keys) /\ NoRepeat(recency')
    BY <1>0, <1>2, MoveToFrontProperties DEF Insert
  <2>2. /\ _list' \in Seq(Keys) /\ NoRepeat(_list')
        /\ ToSet(_list') \subseteq DOMAIN _index \cup {k}
        /\ _curr_size' \in 0 .. MaxSize
        /\ Len(_list') <= _curr_size'
    <3>1. /\ _list' = Kept(k)
          /\ _curr_size' = SizeWithout(k) + 1 - Excess(k)
      BY <1>2 DEF Insert
    <3> QED BY ONLY LRUInv, <3>1, KeptProperties, k \in Keys
  <2>5. DOMAIN latest' \subseteq Keys /\ \A x \in DOMAIN latest' : latest'[x] \in Data
    BY <1>2 DEF Insert, Inserted
  <2>3. _index' = [x \in ToSet(_list') |-> IF x = k THEN d ELSE _index[x]]
    BY <1>2 DEF Insert
  <2>4. /\ DOMAIN _index' = ToSet(_list')
        /\ DOMAIN _index' \subseteq Keys
        /\ \A x \in DOMAIN _index' : _index'[x] \in Data
    BY <1>0, <2>2, <2>3
  <2> QED BY <2>1, <2>2, <2>4, <2>5
<1>3. ASSUME NEW k \in Keys, RemoveKey(k) PROVE LRUInv'
  <2>1. k \in ToSet(_list)
    BY <1>0, <1>3 DEF RemoveKey
  <2>2. /\ _list' \in Seq(Keys) /\ NoRepeat(_list')
        /\ Len(_list') = Len(_list) - 1 /\ Len(_list) > 0
        /\ ToSet(_list') = ToSet(_list) \ {k}
    BY <1>0, <1>3, <2>1, UnlinkProperties DEF RemoveKey
  <2>3. recency' \in Seq(Keys) /\ NoRepeat(recency')
    <3>1. CASE k \in ToSet(recency)
      BY <1>0, <1>3, <3>1, UnlinkProperties DEF RemoveKey
    <3>2. CASE k \notin ToSet(recency)
      BY <1>0, <1>3, <3>2 DEF RemoveKey, Unlink
    <3> QED BY <3>1, <3>2
  <2>4. /\ DOMAIN _index' = DOMAIN _index \ {k}
        /\ \A x \in DOMAIN _index' : _index'[x] \in Data
    BY <1>0, <1>3 DEF RemoveKey, Restrict
  <2>5. _curr_size' \in 0 .. MaxSize /\ Len(_list') <= _curr_size'
    BY <1>0, <1>3, <2>2 DEF RemoveKey
  <2>6. DOMAIN latest' \subseteq Keys /\ \A x \in DOMAIN latest' : latest'[x] \in Data
    BY <1>3 DEF RemoveKey, Restrict
  <2> QED BY <1>0, <2>2, <2>3, <2>4, <2>5, <2>6
<1>4. CASE Clear
  <2>1. ToSet(<<>>) = {} /\ NoRepeat(<<>>) /\ Len(<<>>) = 0
    BY DEF ToSet, NoRepeat
  <2>2. _list' = <<>> /\ recency' = <<>> /\ DOMAIN _index' = {} /\ DOMAIN latest' = {}
        /\ _curr_size' = _curr_size
    BY <1>4 DEF Clear
  <2> QED BY <1>0, <2>1, <2>2
<1>5. CASE UNCHANGED vars
  BY <1>5 DEF vars, NoRepeat, ToSet
<1> QED BY <1>1, <1>2, <1>3, <1>4, <1>5 DEF Next

(* For every size and every sequence of calls, lru_cache.h keeps its list, *)
(* its index and its counter consistent: no stale iterator is left in      *)
(* _index and _curr_size is never decremented below zero.                  *)
THEOREM LRUConsistent == Spec => []LRUInv
<1> QED BY LRUInvInit, LRUInvStep, PTL DEF Spec

(* The container of lru_cache.h implements the contract the server's       *)
(* caches are used under: a lookup misses or returns the latest value.     *)
THEOREM LRUImplementsLossyCache == Spec => ImplementsLossyCache
<1>1. Init => Lossy!LossyInit
  BY DEF Init, Lossy!LossyInit, Lossy!Empty
<1>2. LRUInv /\ [Next]_vars => [Lossy!LossyNext]_<<_index, latest>>
  <2> SUFFICES ASSUME LRUInv, [Next]_vars PROVE [Lossy!LossyNext]_<<_index, latest>>
    OBVIOUS
  <2>1. ASSUME NEW k \in Keys, FetchPtr(k) PROVE UNCHANGED <<_index, latest>>
    BY <2>1 DEF FetchPtr
  <2>2. ASSUME NEW k \in Keys, NEW d \in Data, Insert(k, d)
        PROVE  Lossy!LossyInsert(k, d)
    <3>1. ToSet(Kept(k)) \in SUBSET (DOMAIN _index \cup {k})
      BY KeptProperties
    <3> QED BY <2>2, <3>1 DEF Insert, Inserted, Lossy!LossyInsert
  <2>3. ASSUME NEW k \in Keys, RemoveKey(k) PROVE Lossy!LossyForget(k)
    BY <2>3 DEF RemoveKey, Lossy!LossyForget, Restrict, Lossy!Restrict
  <2>4. ASSUME Clear PROVE Lossy!LossyClear
    BY <2>4 DEF Clear, Lossy!LossyClear, Lossy!Empty
  <2>5. CASE UNCHANGED vars
    BY <2>5 DEF vars
  <2>6. ASSUME Next PROVE Lossy!LossyNext \/ UNCHANGED <<_index, latest>>
    <3>1. CASE \E k \in Keys : FetchPtr(k)
      BY <3>1, <2>1
    <3>2. CASE \E k \in Keys, d \in Data : Insert(k, d)
      BY <3>2, <2>2 DEF Lossy!LossyNext
    <3>3. CASE \E k \in Keys : RemoveKey(k)
      BY <3>3, <2>3 DEF Lossy!LossyNext
    <3>4. CASE Clear
      BY <3>4, <2>4 DEF Lossy!LossyNext
    <3> QED BY <2>6, <3>1, <3>2, <3>3, <3>4 DEF Next
  <2> QED BY <2>5, <2>6
<1> QED BY <1>1, <1>2, LRUInvInit, LRUInvStep, PTL
        DEF Spec, ImplementsLossyCache, Lossy!LossySpec

-----------------------------------------------------------------------------
(* What is discarded.                                                      *)

Prefix(s, t) == Len(s) <= Len(t) /\ \A i \in 1 .. Len(s) : s[i] = t[i]

(* The list is the part of the keys in the order of their last use that    *)
(* were used last, and taking a key out of both, or putting it in front of *)
(* both, leaves it so, whether the list has the key or has discarded it.   *)
LEMMA UnlinkKeepsPrefix ==
  ASSUME NEW S, NEW s \in Seq(S), NEW t \in Seq(S), NoRepeat(s), NoRepeat(t), Prefix(s, t),
         NEW k \in S
  PROVE  Prefix(Unlink(s, k), Unlink(t, k))
<1>1. Len(s) \in Nat /\ Len(t) \in Nat /\ Len(s) <= Len(t)
      /\ \A i \in 1 .. Len(s) : s[i] = t[i]
  BY DEF Prefix
<1>2. (\A x : x \in ToSet(s) <=> \E j \in 1 .. Len(s) : s[j] = x)
      /\ (\A x : x \in ToSet(t) <=> \E j \in 1 .. Len(t) : t[j] = x)
  BY InToSet
<1>3. CASE k \in ToSet(s)
  <2>1. PICK i \in 1 .. Len(s) : s[i] = k
    BY <1>2, <1>3
  <2>2. i \in 1 .. Len(t) /\ t[i] = k
    BY <1>1, <2>1
  <2>3. /\ Len(Unlink(s, k)) = Len(s) - 1
        /\ \A j \in 1 .. Len(s) - 1 : Unlink(s, k)[j] = IF j < i THEN s[j] ELSE s[j + 1]
    BY <2>1, UnlinkPositions
  <2>4. /\ Len(Unlink(t, k)) = Len(t) - 1
        /\ \A j \in 1 .. Len(t) - 1 : Unlink(t, k)[j] = IF j < i THEN t[j] ELSE t[j + 1]
    BY <2>2, UnlinkPositions
  <2> QED BY <1>1, <2>1, <2>3, <2>4 DEF Prefix
<1>4. CASE k \notin ToSet(s) /\ k \in ToSet(t)
  <2>1. PICK i \in 1 .. Len(t) : t[i] = k
    BY <1>2, <1>4
  <2>2. i > Len(s)
    BY <1>1, <1>2, <1>4, <2>1
  <2>3. Unlink(s, k) = s
    BY <1>4 DEF Unlink
  <2>4. /\ Len(Unlink(t, k)) = Len(t) - 1
        /\ \A j \in 1 .. Len(t) - 1 : Unlink(t, k)[j] = IF j < i THEN t[j] ELSE t[j + 1]
    BY <2>1, UnlinkPositions
  <2> QED BY <1>1, <2>1, <2>2, <2>3, <2>4 DEF Prefix
<1>5. CASE k \notin ToSet(t)
  <2>1. k \notin ToSet(s)
    BY <1>1, <1>2, <1>5
  <2>2. Unlink(s, k) = s /\ Unlink(t, k) = t
    BY <1>5, <2>1 DEF Unlink
  <2> QED BY <2>2
<1> QED BY <1>3, <1>4, <1>5

LEMMA MoveToFrontKeepsPrefix ==
  ASSUME NEW S, NEW s \in Seq(S), NEW t \in Seq(S), NoRepeat(s), NoRepeat(t), Prefix(s, t),
         NEW k \in S
  PROVE  Prefix(MoveToFront(s, k), MoveToFront(t, k))
<1> DEFINE p == Unlink(s, k)
           q == Unlink(t, k)
<1>1. p \in Seq(S) /\ q \in Seq(S)
  <2>1. \A x \in Seq(S) : NoRepeat(x) => Unlink(x, k) \in Seq(S)
    BY UnlinkProperties DEF Unlink
  <2> QED BY <2>1
<1>2. Prefix(p, q)
  BY UnlinkKeepsPrefix
<1>3. MoveToFront(s, k) = <<k>> \o p /\ MoveToFront(t, k) = <<k>> \o q
  BY DEF MoveToFront
<1> HIDE DEF p, q
<1>4. <<k>> \in Seq(S) /\ Len(<<k>>) = 1
  OBVIOUS
<1>5. \A x \in Seq(S) :
        /\ Len(<<k>> \o x) = 1 + Len(x)
        /\ \A j \in 1 .. 1 + Len(x) :
             (<<k>> \o x)[j] = IF j <= 1 THEN <<k>>[j] ELSE x[j - 1]
  BY <1>4, ConcatProperties
<1>6. \A j \in 2 .. 1 + Len(p) : j - 1 \in 1 .. Len(p) /\ p[j - 1] = q[j - 1]
  BY <1>1, <1>2 DEF Prefix
<1> QED BY <1>1, <1>2, <1>3, <1>5, <1>6 DEF Prefix

LEMMA PrefixStep == LRUInv /\ Prefix(_list, recency) /\ [Next]_vars => Prefix(_list, recency)'
<1> SUFFICES ASSUME LRUInv, Prefix(_list, recency), [Next]_vars
             PROVE  Prefix(_list', recency')
  OBVIOUS
<1>0. /\ _list \in Seq(Keys) /\ recency \in Seq(Keys)
      /\ NoRepeat(_list) /\ NoRepeat(recency)
  BY DEF LRUInv, LRUTypeOK, IndexMatchesList
<1>1. ASSUME NEW k \in Keys, FetchPtr(k) PROVE Prefix(_list', recency')
  BY <1>0, <1>1, MoveToFrontKeepsPrefix DEF FetchPtr
<1>2. ASSUME NEW k \in Keys, NEW d \in Data, Insert(k, d) PROVE Prefix(_list', recency')
  <2>1. Prefix(MoveToFront(_list, k), MoveToFront(recency, k))
        /\ MoveToFront(_list, k) \in Seq(Keys) /\ NoRepeat(MoveToFront(_list, k))
    BY <1>0, MoveToFrontKeepsPrefix, MoveToFrontProperties
  <2>2. PICK n \in 0 .. Len(MoveToFront(_list, k)) : Kept(k) = SubSeq(MoveToFront(_list, k), 1, n)
    BY <2>1, KeptProperties
  <2> DEFINE m == MoveToFront(_list, k)
  <2>3. m \in Seq(Keys) /\ Prefix(m, recency') /\ _list' = SubSeq(m, 1, n) /\ n \in 0 .. Len(m)
    BY <1>2, <2>1, <2>2 DEF Insert
  <2> HIDE DEF m
  <2>4. Len(_list') = n /\ \A i \in 1 .. n : _list'[i] = m[i]
    <3>1. \A i \in 1 .. n : m[i] \in Keys
      BY <2>3
    <3>2. /\ Len(SubSeq(m, 1, n)) = IF 1 <= n THEN n - 1 + 1 ELSE 0
          /\ \A i \in 1 .. n - 1 + 1 : SubSeq(m, 1, n)[i] = m[1 + i - 1]
      BY <2>3, <3>1, SubSeqProperties
    <3> QED BY <2>3, <3>2
  <2> QED BY <2>3, <2>4 DEF Prefix
<1>3. ASSUME NEW k \in Keys, RemoveKey(k) PROVE Prefix(_list', recency')
  BY <1>0, <1>3, UnlinkKeepsPrefix DEF RemoveKey
<1>4. CASE Clear
  BY <1>4 DEF Clear, Prefix
<1>5. CASE UNCHANGED vars
  BY <1>5 DEF vars
<1> QED BY <1>1, <1>2, <1>3, <1>4, <1>5 DEF Next

(* insert only ever discards the least recently used key: what the cache   *)
(* keeps is what was used last, whatever the sequence of calls.            *)
THEOREM LRUKeepsMostRecent == Spec => []KeepsMostRecent
<1>1. Init => Prefix(_list, recency)
  BY DEF Init, Prefix
<1>2. LRUInv /\ Prefix(_list, recency) => KeepsMostRecent
  <2> SUFFICES ASSUME LRUInv, Prefix(_list, recency) PROVE KeepsMostRecent
    OBVIOUS
  <2>1. _list \in Seq(Keys) /\ recency \in Seq(Keys)
    BY DEF LRUInv, LRUTypeOK
  <2> DEFINE n == Len(_list)
             p == SubSeq(recency, 1, n)
  <2>2. n \in 0 .. Len(recency) /\ \A i \in 1 .. n : _list[i] = recency[i]
    BY <2>1 DEF Prefix
  <2>3. \A i \in 1 .. n : recency[i] \in Keys
    BY <2>1, <2>2
  <2>4. /\ p \in Seq(Keys) /\ Len(p) = IF 1 <= n THEN n - 1 + 1 ELSE 0
        /\ \A i \in 1 .. n - 1 + 1 : p[i] = recency[1 + i - 1]
    BY <2>1, <2>2, <2>3, SubSeqProperties
  <2>5. Len(p) = n /\ \A i \in 1 .. n : p[i] = _list[i]
    BY <2>2, <2>4
  <2> HIDE DEF p
  <2>6. _list = p
    BY <2>1, <2>4, <2>5, SeqEqual
  <2> QED BY <2>6 DEF KeepsMostRecent, p
<1> QED BY <1>1, <1>2, LRUInvInit, LRUInvStep, PrefixStep, PTL DEF Spec
==============================================================================
