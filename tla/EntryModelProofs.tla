--------------------------- MODULE EntryModelProofs ---------------------------
(***************************************************************************)
(* Proofs about EntryModel for any kinds of entries, page size and bounds: *)
(* what the table, the tree and the filter form keep apart agrees at any   *)
(* moment; a frozen table is quiet; and a settled viewer shows what the    *)
(* database has.                                                           *)
(*                                                                         *)
(* TableInv is the invariant of the table, and SettledInv adds where news  *)
(* can be that the viewer has not shown: in a message, after the news of a *)
(* removal, or with a key that makes the table count again.                *)
(***************************************************************************)
EXTENDS EntryModel, FiniteSetTheorems, SequenceTheorems, TLAPS

Messages == [type : {"entry"}, entry : Entries] \cup [type : {"nuked"}]
Filters == [text : TextCriteria, pid : Pids, inactive : SUBSET Keys, withoutKey : BOOLEAN]
KeyLists == UNION {[K -> BOOLEAN] : K \in SUBSET Keys}
Forms == [keys : KeyLists, firstEntryPassed : BOOLEAN, defaults : KeyLists, edited : BOOLEAN]
Models == [numMatching : Nat, numNew : Nat, ids : Seq(Nat), top : Int,
           page : Seq(Entries), timer : BOOLEAN, suspended : BOOLEAN]
IsModel(m) ==
  /\ m \in Models
  /\ m.numMatching \in {0, Len(m.ids)}
  /\ m.top \in -1 .. Len(m.ids) - 1
  /\ Len(m.page) <= PageSize
IsTree(t) ==
  /\ t = [items |-> t.items, dirty |-> t.dirty, visible |-> t.visible, timer |-> t.timer,
          suspended |-> t.suspended]
  /\ {t.dirty, t.visible, t.timer, t.suspended} \subseteq BOOLEAN

TypeInv ==
  /\ WellFormed(db)
  /\ net \in Seq(Messages)
  /\ stored \in 0 .. MaxStored
  /\ filter \in Filters
  /\ form \in Forms
  /\ IsModel(model)
  /\ IsTree(tree)
  /\ failed \in {"no", "rowNotFound"}

\* The entries on their way are in the order of their serials; no
\* more are pending than were stored before them.
News(numNew, n, last) ==
  /\ numNew <= last
  /\ \A i \in DOMAIN n : n[i].type = "entry" =>
       /\ n[i].entry.serial <= last
       /\ numNew < n[i].entry.serial
       /\ \A j \in DOMAIN n : i < j /\ n[j].type = "entry" => n[i].entry.serial < n[j].entry.serial

NewsInv == News(model.numNew, net, stored)

Increasing(s) == \A i, j \in DOMAIN s : i < j => s[i] < s[j]
UpTo(f, d, n) == {e.id : e \in {x \in Matching(f, d) : x.id <= n}}

\* The ids of the table are those of the matching rows up to some row: the
\* last one there was when the table was counted.
Snapshot(m, f, d) ==
  /\ Increasing(Ids(m))
  /\ \E n \in 0 .. d.last : Range(Ids(m)) = UpTo(f, d, n)

RowsInv == ~Nuked => Snapshot(model, filter, db)

\* The page has the data of its rows.
PageTrue(m, d) ==
  RowCount(m) > 0 =>
    \A i \in DOMAIN m.page :
      /\ m.top + i <= Len(m.ids) => m.page[i].id = m.ids[m.top + i]
      /\ m.page[i] \in d.entries

TableInv ==
  /\ TypeInv /\ NewsInv /\ RowsInv /\ (~ Nuked => PageTrue(model, db))
  /\ RowsAreFound /\ PendingIsScheduled /\ FormMatchesFilter

\* A message after the j-th announces the entry; one brings the keys.
Announced(n, e, j) == \E i \in DOMAIN n : i > j /\ n[i] = EntryMessage(e)
WillRecount(d, n, j) == d.groups # {} /\ \E i \in DOMAIN n : i > j /\ n[i].type = "entry"

\* Every matching entry is in the table, or announced, or the next entry makes
\* the table count again, as its keys are new to the empty list of keys.
Heard(m, f, d, n, fm) ==
  m.numNew = 0 =>
    \A e \in d.entries : matches(f, e) =>
      \/ e.id \in Range(Ids(m)) \/ Announced(n, e, 0)
      \/ DOMAIN fm.keys = {} /\ WillRecount(d, n, 0)

\* What is in the database is announced after the news of a removal, or the
\* table counts again after it.
AfterNukes(d, n) ==
  \A j \in DOMAIN n : n[j].type = "nuked" =>
    \A e \in d.entries : Announced(n, e, j) \/ WillRecount(d, n, j)

TreeTells(t, f, d, n) ==
  ~ t.dirty =>
    \A e \in {x \in Watched(f, d) : matches(f, x)} :
      \/ Item(e) \in DOMAIN t.items /\ t.items[Item(e)] = e.serial
      \/ Announced(n, e, 0)

\* Where there are entries there are keys: a query that joins with the keys
\* finds the entries, and the next one to arrive makes an empty list count again.
HasKeys(d) == d.entries = {} \/ d.groups # {}

KeyedInv == HasKeys(db)
HeardInv == Heard(model, filter, db, net, form)
NukeInv == AfterNukes(db, net)
TreeInv == TreeTells(tree, filter, db, net)

SettledInv == TableInv /\ KeyedInv /\ HeardInv /\ NukeInv /\ TreeInv

-----------------------------------------------------------------------------
(* Rows in the order of their ids.                                         *)

Rows(rows) ==
  /\ rows \in SUBSET Entries /\ IsFiniteSet(rows)
  /\ \A e, x \in rows : e.id = x.id => e = x

Ascending(s) == \A i, j \in DOMAIN s : i < j => s[i].id < s[j].id

Rank(rows, e) == Cardinality({x \in rows : x.id <= e.id})

LEMMA FunctionIsSeq ==
  ASSUME NEW S, NEW n \in Nat, NEW s \in [1 .. n -> S]
  PROVE  s \in Seq(S) /\ Len(s) = n /\ DOMAIN s = 1 .. n
<1>1. s \in Seq(S)
  BY SeqDef
<1>2. QED
  BY <1>1, LenProperties

LEMMA RankType ==
  ASSUME NEW rows, Rows(rows), NEW e \in rows
  PROVE  Rank(rows, e) \in 1 .. Cardinality(rows) /\ Cardinality(rows) \in Nat
<1> DEFINE below == {x \in rows : x.id <= e.id}
<1>1. below \in SUBSET rows /\ IsFiniteSet(rows) /\ e \in below
  BY DEF Rows, Entries
<1>2. IsFiniteSet(below) /\ Cardinality(below) <= Cardinality(rows)
  <2> HIDE DEF below
  <2> QED BY <1>1, FS_Subset
<1>3. Cardinality(below) \in Nat /\ Cardinality(rows) \in Nat
  <2> HIDE DEF below
  <2> QED BY <1>1, <1>2, FS_CardinalityType
<1>4. Cardinality(below) # 0
  <2> HIDE DEF below
  <2> QED BY <1>1, <1>2, FS_EmptySet
<1>5. Rank(rows, e) = Cardinality(below)
  BY DEF Rank
<1> HIDE DEF below
<1>6. QED
  BY <1>2, <1>3, <1>4, <1>5

\* A later row has a higher rank.
LEMMA RankGrows ==
  ASSUME NEW rows, Rows(rows), NEW e \in rows, NEW x \in rows, e.id < x.id
  PROVE  Rank(rows, e) < Rank(rows, x)
<1> DEFINE Below(y) == {z \in rows : z.id <= y.id}
<1>1. /\ Below(x) \in SUBSET rows /\ Below(e) \in SUBSET Below(x)
      /\ x \in Below(x) /\ x \notin Below(e)
  BY DEF Rows, Entries
<1>2. IsFiniteSet(Below(x))
  <2> HIDE DEF Below
  <2> QED BY <1>1, FS_Subset DEF Rows
<1>3. Cardinality(Below(e)) <= Cardinality(Below(x))
      /\ Cardinality(Below(e)) # Cardinality(Below(x))
  <2> HIDE DEF Below
  <2> QED BY <1>1, <1>2, FS_Subset
<1>4. Rank(rows, e) = Cardinality(Below(e)) /\ Rank(rows, x) = Cardinality(Below(x))
  BY DEF Rank
<1> HIDE DEF Below
<1>5. QED
  BY <1>3, <1>4, RankType

LEMMA RanksAreTaken ==
  ASSUME NEW rows, Rows(rows), NEW i \in 1 .. Cardinality(rows)
  PROVE  \E e \in rows : Rank(rows, e) = i
<1> DEFINE n == Cardinality(rows)
           r == [e \in rows |-> Rank(rows, e)]
<1>1. n \in Nat
  BY FS_CardinalityType DEF Rows
<1>2. \A e \in rows : Rank(rows, e) \in 1 .. n
  BY RankType
<1>3. r \in [rows -> 1 .. n]
  BY <1>2
<1>4. ASSUME NEW e \in rows, NEW x \in rows, r[e] = r[x]
      PROVE  e = x
  <2>1. Rank(rows, e) = Rank(rows, x)
    BY <1>4
  <2>2. ~ (e.id < x.id) /\ ~ (x.id < e.id)
    BY <2>1, <1>2, RankGrows
  <2>3. e.id \in Nat /\ x.id \in Nat
    BY DEF Rows, Entries
  <2>4. QED
    BY <2>2, <2>3 DEF Rows
<1>5. r \in Injection(rows, 1 .. n)
  <2> HIDE DEF r, n
  <2>1. \A e, x \in rows : r[e] = r[x] => e = x
    BY <1>4
  <2>2. QED
    BY <2>1, <1>3 DEF Injection, IsInjective
<1>6. IsFiniteSet(1 .. n) /\ Cardinality(1 .. n) = n
  BY <1>1, FS_Interval
<1>7. r \in Surjection(rows, 1 .. n)
  <2> HIDE DEF r, n
  <2>1. Cardinality(rows) = Cardinality(1 .. n)
    BY <1>6 DEF n
  <2>2. QED
    BY <2>1, <1>5, <1>6, FS_Injection
<1>8. \E e \in rows : r[e] = i
  <2>1. i \in 1 .. n
    OBVIOUS
  <2> HIDE DEF r, n
  <2>2. QED
    BY <2>1, <1>7 DEF Surjection
<1>9. QED
  BY <1>8

\* ORDER BY: all rows, each once, ascending.
LEMMA InOrderOf ==
  ASSUME NEW rows, Rows(rows)
  PROVE  /\ Cardinality(rows) \in Nat
         /\ InOrder(rows) \in [1 .. Cardinality(rows) -> rows]
         /\ Ascending(InOrder(rows))
         /\ \A e \in rows : \E i \in 1 .. Cardinality(rows) : InOrder(rows)[i] = e
<1> DEFINE n == Cardinality(rows)
           w == [i \in 1 .. n |-> CHOOSE e \in rows : Rank(rows, e) = i]
           s == InOrder(rows)
<1>1. n \in Nat
  BY FS_CardinalityType DEF Rows
<1>2. ASSUME NEW i \in 1 .. n
      PROVE  w[i] \in rows /\ Rank(rows, w[i]) = i
  BY RanksAreTaken
<1>3. w \in [1 .. n -> rows]
  BY <1>2
<1>4. \A i, j \in DOMAIN w : i < j => w[i].id < w[j].id
  <2> SUFFICES ASSUME NEW i \in 1 .. n, NEW j \in 1 .. n, i < j
               PROVE  w[i].id < w[j].id
    OBVIOUS
  <2>1. w[i] \in rows /\ Rank(rows, w[i]) = i /\ w[j] \in rows /\ Rank(rows, w[j]) = j
    BY <1>2
  <2> HIDE DEF w
  <2>2. w[i].id \in Nat /\ w[j].id \in Nat
    BY <2>1 DEF Rows, Entries
  <2>3. w[i] # w[j]
    BY <2>1, <1>1
  <2>4. w[i].id # w[j].id
    BY <2>1, <2>3 DEF Rows
  <2>5. ~ (w[j].id < w[i].id)
    <3> SUFFICES ASSUME w[j].id < w[i].id PROVE FALSE
      OBVIOUS
    <3>1. Rank(rows, w[j]) < Rank(rows, w[i])
      BY <2>1, RankGrows
    <3>2. QED
      BY <3>1, <2>1, <1>1
  <2>6. QED
    BY <2>2, <2>4, <2>5
<1>5. \E f \in [1 .. n -> rows] : \A i, j \in DOMAIN f : i < j => f[i].id < f[j].id
  <2> HIDE DEF w, n
  <2> QED BY <1>3, <1>4
<1>6. s \in [1 .. n -> rows] /\ \A i, j \in DOMAIN s : i < j => s[i].id < s[j].id
  BY <1>5 DEF InOrder
<1>7. s \in Injection(1 .. n, rows)
  <2> SUFFICES ASSUME NEW i \in 1 .. n, NEW j \in 1 .. n, s[i] = s[j]
               PROVE  i = j
    <3>1. s \in [1 .. n -> rows]
      BY <1>6
    <3> HIDE DEF s, n
    <3>2. QED
      BY <3>1 DEF Injection, IsInjective
  <2> HIDE DEF s
  <2>1. s[i].id \in Nat /\ s[j].id \in Nat /\ ~ (s[i].id < s[j].id) /\ ~ (s[j].id < s[i].id)
    BY <1>6 DEF Rows, Entries
  <2>2. ~ (i < j) /\ ~ (j < i)
    BY <1>6, <2>1
  <2>3. QED
    BY <2>2, <1>1
<1>8. Cardinality(1 .. n) = n
  BY <1>1, FS_Interval
<1>9. s \in Surjection(1 .. n, rows)
  <2>1. IsFiniteSet(rows)
    BY DEF Rows
  <2>2. Cardinality(1 .. n) = Cardinality(rows)
    BY <1>8
  <2> HIDE DEF s, n
  <2>3. QED
    BY <2>1, <2>2, <1>7, FS_Injection
<1>10. \A e \in rows : \E i \in 1 .. n : s[i] = e
  <2> HIDE DEF s, n
  <2> QED BY <1>9 DEF Surjection
<1>11. QED
  BY <1>1, <1>6, <1>10 DEF Ascending

LEMMA LimitedOf ==
  ASSUME NEW S, NEW n \in Nat, NEW s \in [1 .. n -> S]
  PROVE  /\ Limited(s) \in Seq(S)
         /\ Len(Limited(s)) <= PageSize /\ Len(Limited(s)) <= n
         /\ n > 0 => Len(Limited(s)) > 0
         /\ \A i \in DOMAIN Limited(s) : i \in 1 .. n /\ Limited(s)[i] = s[i]
<1> DEFINE k == IF n < PageSize THEN n ELSE PageSize
<1>1. PageSize \in Nat \ {0}
  BY EntryModelAssumption
<1>2. k \in Nat /\ k <= n /\ k <= PageSize /\ (n > 0 => k > 0)
  BY <1>1
<1>3. DOMAIN s \cap 1 .. PageSize = 1 .. k
  BY <1>1
<1>4. Limited(s) = [i \in 1 .. k |-> s[i]]
  BY <1>3 DEF Limited
<1> HIDE DEF k
<1>5. Limited(s) \in [1 .. k -> S]
  BY <1>2, <1>4
<1>6. Limited(s) \in Seq(S) /\ Len(Limited(s)) = k /\ DOMAIN Limited(s) = 1 .. k
  BY <1>2, <1>5, FunctionIsSeq
<1>7. QED
  BY <1>2, <1>4, <1>6

LEMMA LeastOf ==
  ASSUME NEW S, S \subseteq Nat, S # {}
  PROVE  \E n \in S : \A i \in S : n <= i
<1> DEFINE R == {p \in Nat \X Nat : p[1] < p[2]}
<1>1. IsWellFoundedOn(R, Nat)
  BY NatLessThanWellFounded DEF OpToRel
<1>2. \A x, y \in S : x < y => <<x, y>> \in R
  OBVIOUS
<1> HIDE DEF R
<1>3. PICK n \in S : \A y \in S : ~ (<<y, n>> \in R)
  BY <1>1, WFMin
<1>4. \A y \in S : ~ (y < n)
  BY <1>2, <1>3, Zenon
<1>5. \A y \in S : n <= y
  BY <1>4
<1>6. QED
  BY <1>5

\* Two ascending lists, one of which has of the other's elements all up to some
\* element, agree as far as both go.
Begins(a, A, b, B) ==
  /\ A \in Nat /\ B \in Nat /\ a \in [1 .. A -> Nat] /\ b \in [1 .. B -> Nat]
  /\ Increasing(a) /\ Increasing(b)
  /\ \A i \in 1 .. A : \E j \in 1 .. B : b[j] = a[i]
  /\ \A j \in 1 .. B, i \in 1 .. A : b[j] <= a[i] => \E k \in 1 .. A : a[k] = b[j]

LEMMA SameStart ==
  ASSUME NEW A, NEW B, NEW a, NEW b, Begins(a, A, b, B)
  PROVE  \A i \in 1 .. A : i <= B => a[i] = b[i]
<1> USE DEF Begins
<1> DEFINE Wrong == {i \in 1 .. A : i <= B /\ a[i] # b[i]}
<1>1. SUFFICES ASSUME Wrong # {} PROVE FALSE
  OBVIOUS
<1>2. PICK i \in Wrong : \A x \in Wrong : i <= x
  <2>1. Wrong \subseteq Nat
    OBVIOUS
  <2> HIDE DEF Wrong
  <2> QED BY <1>1, <2>1, LeastOf
<1>3. i \in 1 .. A /\ i \in 1 .. B /\ a[i] \in Nat /\ b[i] \in Nat /\ a[i] # b[i]
  OBVIOUS
<1>4. \A x \in 1 .. A : x \in 1 .. B /\ x < i => a[x] = b[x]
  BY <1>2
<1> HIDE DEF Wrong
<1>5. CASE a[i] < b[i]
  <2>1. PICK j \in 1 .. B : b[j] = a[i]
    BY <1>3
  <2>2. j < i
    BY <2>1, <1>3, <1>5 DEF Increasing
  <2>3. j \in 1 .. A /\ a[j] = a[i]
    BY <2>1, <2>2, <1>3, <1>4
  <2>4. a[j] < a[i]
    BY <2>2, <2>3, <1>3 DEF Increasing
  <2> QED BY <2>3, <2>4, <1>3
<1>6. CASE b[i] < a[i]
  <2>a. b[i] <= a[i]
    BY <1>3, <1>6
  <2>1. PICK j \in 1 .. A : a[j] = b[i]
    BY <1>3, <2>a
  <2>2. j < i
    BY <2>1, <1>3, <1>6 DEF Increasing
  <2>3. j \in 1 .. B /\ b[j] = b[i]
    BY <2>1, <2>2, <1>3, <1>4
  <2>4. b[j] < b[i]
    BY <2>2, <2>3, <1>3 DEF Increasing
  <2> QED BY <2>3, <2>4, <1>3
<1>7. QED
  BY <1>3, <1>5, <1>6

-----------------------------------------------------------------------------
(* The queries of the table.                                               *)

AnyModels == [numMatching : Int, numNew : Nat, ids : Seq(Nat), top : Int,
              page : Seq(Entries), timer : BOOLEAN, suspended : BOOLEAN]

Complete(m, f, d) == Increasing(Ids(m)) /\ Range(Ids(m)) = UpTo(f, d, d.last)

SameNews(q, m) == q.numNew = m.numNew /\ q.timer = m.timer /\ q.suspended = m.suspended

Table(numMatching, numNew, ids, top, page, timer, suspended) ==
  [numMatching |-> numMatching, numNew |-> numNew, ids |-> ids, top |-> top, page |-> page,
   timer |-> timer, suspended |-> suspended]

WithRows(m, n, ids, top, page) ==
  [m EXCEPT !.numMatching = n, !.ids = ids, !.top = top, !.page = page]
WithPage(m, top, page) == [m EXCEPT !.top = top, !.page = page]
WithNews(m, n, timer) == [m EXCEPT !.numNew = n, !.timer = timer]
WithNoRows(m) == [m EXCEPT !.numNew = 0, !.numMatching = 0]

LEMMA TableAssignedSeveral ==
  ASSUME NEW r, NEW v, NEW w, NEW x, NEW y
  PROVE  /\ [r EXCEPT !.numMatching = v, !.ids = w, !.top = x, !.page = y]
              = [[[[r EXCEPT !.numMatching = v] EXCEPT !.ids = w] EXCEPT !.top = x]
                  EXCEPT !.page = y]
         /\ [r EXCEPT !.top = x, !.page = y] = [[r EXCEPT !.top = x] EXCEPT !.page = y]
         /\ [r EXCEPT !.numNew = x, !.timer = y] = [[r EXCEPT !.numNew = x] EXCEPT !.timer = y]
         /\ [r EXCEPT !.numNew = x, !.numMatching = y]
              = [[r EXCEPT !.numNew = x] EXCEPT !.numMatching = y]
OBVIOUS

LEMMA TableIs ==
  ASSUME NEW m \in AnyModels
  PROVE  m = Table(m.numMatching, m.numNew, m.ids, m.top, m.page, m.timer, m.suspended)
BY DEF Table, AnyModels

LEMMA WithRowsIs ==
  ASSUME NEW m \in AnyModels, NEW n, NEW ids, NEW top, NEW page
  PROVE  WithRows(m, n, ids, top, page) = Table(n, m.numNew, ids, top, page, m.timer, m.suspended)
<1> DEFINE b == m.numNew
           h == m.timer
           k == m.suspended
           r == Table(m.numMatching, b, m.ids, m.top, m.page, h, k)
           r1 == [r EXCEPT !.numMatching = n]
           r2 == [r1 EXCEPT !.ids = ids]
           r3 == [r2 EXCEPT !.top = top]
           r4 == [r3 EXCEPT !.page = page]
<1>1. WithRows(m, n, ids, top, page) = r4
  BY TableIs, TableAssignedSeveral DEF WithRows
<1> HIDE DEF b, h, k
<1>2. r1 = Table(n, b, m.ids, m.top, m.page, h, k)
  BY DEF Table
<1> HIDE DEF r1
<1>3. r2 = Table(n, b, ids, m.top, m.page, h, k)
  BY <1>2 DEF Table
<1> HIDE DEF r2
<1>4. r3 = Table(n, b, ids, top, m.page, h, k)
  BY <1>3 DEF Table
<1> HIDE DEF r3
<1>5. r4 = Table(n, b, ids, top, page, h, k)
  BY <1>4 DEF Table
<1> HIDE DEF r4
<1>6. QED
  BY <1>1, <1>5 DEF b, h, k

LEMMA WithTwoIs ==
  ASSUME NEW m \in AnyModels, NEW x, NEW y
  PROVE  /\ WithPage(m, x, y) = Table(m.numMatching, m.numNew, m.ids, x, y, m.timer, m.suspended)
         /\ WithNews(m, x, y) = Table(m.numMatching, x, m.ids, m.top, m.page, y, m.suspended)
         /\ WithNoRows(m) = Table(0, 0, m.ids, m.top, m.page, m.timer, m.suspended)
<1> DEFINE a == m.numMatching
           b == m.numNew
           c == m.ids
           e == m.top
           g == m.page
           h == m.timer
           k == m.suspended
           r == Table(a, b, c, e, g, h, k)
           r1 == [r EXCEPT !.top = x]
           r2 == [r EXCEPT !.numNew = x]
           r3 == [r EXCEPT !.numNew = 0]
           s1 == [r1 EXCEPT !.page = y]
           s2 == [r2 EXCEPT !.timer = y]
           s3 == [r3 EXCEPT !.numMatching = 0]
<1>1. WithPage(m, x, y) = s1 /\ WithNews(m, x, y) = s2 /\ WithNoRows(m) = s3
  BY TableIs, TableAssignedSeveral DEF WithPage, WithNews, WithNoRows
<1> HIDE DEF a, b, c, e, g, h, k
<1>2. /\ r1 = Table(a, b, c, x, g, h, k)
      /\ r2 = Table(a, x, c, e, g, h, k)
      /\ r3 = Table(a, 0, c, e, g, h, k)
  BY DEF Table
<1> HIDE DEF r1, r2, r3
<1>3. s1 = Table(a, b, c, x, y, h, k)
  BY <1>2 DEF Table
<1>4. s2 = Table(a, x, c, e, g, y, k)
  BY <1>2 DEF Table
<1>5. s3 = Table(0, 0, c, e, g, h, k)
  BY <1>2 DEF Table
<1> HIDE DEF s1, s2, s3
<1>6. QED
  BY <1>1, <1>3, <1>4, <1>5 DEF a, b, c, e, g, h, k

LEMMA WithOneIs ==
  ASSUME NEW m \in AnyModels, NEW x
  PROVE  /\ [m EXCEPT !.numMatching = x]
              = Table(x, m.numNew, m.ids, m.top, m.page, m.timer, m.suspended)
         /\ [m EXCEPT !.numNew = x]
              = Table(m.numMatching, x, m.ids, m.top, m.page, m.timer, m.suspended)
         /\ [m EXCEPT !.timer = x]
              = Table(m.numMatching, m.numNew, m.ids, m.top, m.page, x, m.suspended)
         /\ [m EXCEPT !.suspended = x]
              = Table(m.numMatching, m.numNew, m.ids, m.top, m.page, m.timer, x)
<1> DEFINE a == m.numMatching
           b == m.numNew
           c == m.ids
           e == m.top
           g == m.page
           h == m.timer
           k == m.suspended
<1>1. m = Table(a, b, c, e, g, h, k)
  BY TableIs
<1> HIDE DEF a, b, c, e, g, h, k
<1>2. [m EXCEPT !.numMatching = x] = Table(x, b, c, e, g, h, k)
  BY <1>1 DEF Table
<1>3. [m EXCEPT !.numNew = x] = Table(a, x, c, e, g, h, k)
  BY <1>1 DEF Table
<1>4. [m EXCEPT !.timer = x] = Table(a, b, c, e, g, x, k)
  BY <1>1 DEF Table
<1>5. [m EXCEPT !.suspended = x] = Table(a, b, c, e, g, h, x)
  BY <1>1 DEF Table
<1> QED
  BY <1>2, <1>3, <1>4, <1>5 DEF a, b, c, e, g, h, k

LEMMA MatchingRows ==
  ASSUME NEW d, WellFormed(d), NEW f, NEW R \in SUBSET Matching(f, d)
  PROVE  Rows(R) /\ R \subseteq d.entries /\ d.last \in Nat /\ \A e \in R : e.id \in 1 .. d.last
<1>1. R \in SUBSET d.entries
  BY DEF Matching
<1>2. IsFiniteSet(R)
  BY <1>1, FS_Subset DEF WellFormed
<1>3. QED
  BY <1>1, <1>2 DEF Rows, WellFormed, Entries

LEMMA TableFields ==
  ASSUME NEW a, NEW b, NEW c, NEW e, NEW g, NEW h, NEW k
  PROVE  LET m == Table(a, b, c, e, g, h, k)
         IN  /\ m.numMatching = a /\ m.numNew = b /\ m.ids = c /\ m.top = e
             /\ m.page = g /\ m.timer = h /\ m.suspended = k
BY DEF Table

LEMMA TableType ==
  ASSUME NEW a \in Nat, NEW b \in Nat, NEW c \in Seq(Nat), NEW e \in Int,
         NEW g \in Seq(Entries), NEW h \in BOOLEAN, NEW k \in BOOLEAN
  PROVE  Table(a, b, c, e, g, h, k) \in Models
BY DEF Table, Models

\* Without rows there is nothing to be said.
LEMMA NoRowsAre ==
  ASSUME NEW m, m.numMatching = 0
  PROVE  /\ RowCount(m) = 0 /\ Ids(m) = <<>> /\ Range(Ids(m)) = {}
         /\ Increasing(Ids(m)) /\ \A d : PageTrue(m, d)
<1>1. RowCount(m) = 0
  BY DEF RowCount
<1>2. Ids(m) = [row \in 1 .. 0 |-> m.ids[row]]
  BY <1>1 DEF Ids
<1>3. DOMAIN Ids(m) = {}
  BY <1>2
<1>4. Ids(m) = <<>>
  BY <1>2
<1>5. QED
  BY <1>1, <1>3, <1>4 DEF Range, Increasing, PageTrue

\* The first query of a table: its ids are those of all matching entries.
LEMMA QueryCounts ==
  ASSUME NEW m \in AnyModels, m.numMatching = -1, NEW d, WellFormed(d), NEW f,
         NEW q, q = queryForEntries(m, f, d, 0)
  PROVE  IsModel(q) /\ Complete(q, f, d) /\ PageTrue(q, d) /\ SameNews(q, m)
<1> DEFINE rows == Matching(f, d)
           found == InOrder(rows)
           n == Cardinality(rows)
           ids == [i \in DOMAIN found |-> found[i].id]
           page == Page(f, d, found[1].id)
<1>1. Rows(rows) /\ rows \subseteq d.entries /\ \A e \in rows : e.id <= d.last
  BY MatchingRows
<1>2. /\ n \in Nat /\ found \in [1 .. n -> rows] /\ Ascending(found)
      /\ \A e \in rows : \E i \in 1 .. n : found[i] = e
  BY <1>1, InOrderOf
<1>3. DOMAIN found = 1 .. n /\ Len(found) = n /\ found \in Seq(rows)
  <2> HIDE DEF found, n, rows
  <2> QED BY <1>2, FunctionIsSeq
<1>4. q = IF found = <<>> THEN WithRows(m, 0, <<>>, -1, <<>>) ELSE WithRows(m, n, ids, 0, page)
  BY <1>3 DEF queryForEntries, WithRows
<1>5. UpTo(f, d, d.last) = {e.id : e \in rows}
  BY <1>1 DEF UpTo
<1>6. CASE found = <<>>
  <2>1. q = Table(0, m.numNew, <<>>, -1, <<>>, m.timer, m.suspended)
    BY <1>4, <1>6, WithRowsIs
  <2>2. rows = {}
    BY <1>2, <1>3, <1>6
  <2>3. /\ q.numMatching = 0 /\ q.ids = <<>> /\ q.top = -1 /\ q.page = <<>>
        /\ q.numNew = m.numNew /\ q.timer = m.timer /\ q.suspended = m.suspended
    BY <2>1, TableFields
  <2>4. IsModel(q)
    <3>1. <<>> \in Seq(Nat) /\ <<>> \in Seq(Entries) /\ 0 \in Nat /\ -1 \in Int
      OBVIOUS
    <3>b. m.numNew \in Nat /\ m.timer \in BOOLEAN /\ m.suspended \in BOOLEAN
      BY DEF AnyModels
    <3> DEFINE minus == -1
               none == <<>>
    <3> HIDE DEF minus, none
    <3>c. Table(0, m.numNew, none, minus, none, m.timer, m.suspended) \in Models
      <4>1. none \in Seq(Nat) /\ none \in Seq(Entries) /\ minus \in Int
        BY DEF none, minus
      <4>2. QED
        BY <3>1, <3>b, <4>1, TableType
    <3>a. q \in Models
      BY <2>1, <3>c DEF none, minus
    <3>2. QED
      BY <2>3, <3>a, EntryModelAssumption DEF IsModel
  <2>5. Complete(q, f, d)
    BY <2>2, <2>3, <1>5, NoRowsAre DEF Complete
  <2>6. QED
    BY <2>3, <2>4, <2>5, NoRowsAre DEF SameNews
<1>7. CASE found # <<>>
  <2>1. n > 0
    BY <1>2, <1>3, <1>7
  <2>2. ids \in [1 .. n -> Nat]
    BY <1>1, <1>2, <1>3 DEF Rows, Entries
  <2>3. ids \in Seq(Nat) /\ Len(ids) = n /\ DOMAIN ids = 1 .. n
    <3> HIDE DEF ids, n
    <3> QED BY <1>2, <2>2, FunctionIsSeq
  <2>4. {e \in rows : e.id >= found[1].id} = rows
    <3> SUFFICES ASSUME NEW e \in rows PROVE e.id >= found[1].id
      OBVIOUS
    <3>1. PICK i \in 1 .. n : found[i] = e
      BY <1>2
    <3>2. found[1] \in rows /\ found[1].id \in Nat /\ e.id \in Nat
      <4>1. found[1] \in rows /\ e \in rows
        BY <1>2, <2>1
      <4> HIDE DEF rows, found, n
      <4>2. QED
        BY <4>1, <1>1 DEF Rows, Entries
    <3>3. i = 1 \/ found[1].id < found[i].id
      BY <1>2, <1>3, <2>1 DEF Ascending
    <3> HIDE DEF found
    <3> QED BY <3>1, <3>2, <3>3
  <2>5. page = Limited(found)
    BY <2>4 DEF Page
  <2>6. /\ page \in Seq(rows) /\ Len(page) <= PageSize
        /\ \A i \in DOMAIN page : i \in 1 .. n /\ page[i] = found[i]
    <3> HIDE DEF found, n, rows, page
    <3>1. n \in Nat /\ found \in [1 .. n -> rows]
      BY <1>2
    <3>2. /\ Limited(found) \in Seq(rows) /\ Len(Limited(found)) <= PageSize
          /\ \A i \in DOMAIN Limited(found) : i \in 1 .. n /\ Limited(found)[i] = found[i]
      BY <3>1, LimitedOf
    <3> QED BY <2>5, <3>2
  <2>7. q = Table(n, m.numNew, ids, 0, page, m.timer, m.suspended)
    <3> HIDE DEF found, n, rows, page, ids
    <3> QED BY <1>4, <1>7, WithRowsIs
  <2>8. /\ q.numMatching = n /\ q.ids = ids /\ q.top = 0 /\ q.page = page
        /\ q.numNew = m.numNew /\ q.timer = m.timer /\ q.suspended = m.suspended
    <3> HIDE DEF found, n, rows, page, ids
    <3> QED BY <2>7, TableFields
  <2>9. IsModel(q)
    <3>1. page \in Seq(Entries)
      <4>1. rows \subseteq Entries
        BY <1>1 DEF Rows
      <4> HIDE DEF rows, page
      <4> QED BY <2>6, <4>1
    <3> HIDE DEF found, n, rows, page, ids
    <3>2. q \in Models
      BY <1>2, <2>3, <2>7, <3>1 DEF Table, Models, AnyModels
    <3>3. QED
      BY <1>2, <2>1, <2>3, <2>6, <2>8, <3>2 DEF IsModel
  <2>10. RowCount(q) = n /\ Ids(q) = ids
    <3>1. RowCount(q) = n
      BY <2>1, <2>8 DEF RowCount
    <3>2. Ids(q) = [row \in 1 .. n |-> ids[row]]
      BY <2>8, <3>1 DEF Ids
    <3> HIDE DEF ids, n
    <3>3. QED
      BY <2>2, <3>1, <3>2
  <2>11. Complete(q, f, d)
    <3>1. \A i \in 1 .. n : ids[i] = found[i].id
      BY <1>3
    <3>2. Increasing(ids)
      <4> HIDE DEF ids, found, n, rows
      <4> QED BY <1>2, <1>3, <2>3, <3>1 DEF Increasing, Ascending
    <3>3. Range(ids) = {e.id : e \in rows}
      <4> HIDE DEF ids, found, n, rows
      <4>1. ASSUME NEW i \in 1 .. n PROVE ids[i] \in {e.id : e \in rows}
        BY <1>2, <3>1
      <4>2. ASSUME NEW e \in rows PROVE \E i \in 1 .. n : ids[i] = e.id
        BY <1>2, <3>1
      <4>3. QED
        BY <2>3, <4>1, <4>2 DEF Range
    <3>4. QED
      BY <1>5, <2>10, <3>2, <3>3 DEF Complete
  <2>12. PageTrue(q, d)
    <3> HIDE DEF page, found
    <3>1. ASSUME NEW i \in DOMAIN page
          PROVE  page[i].id = ids[i] /\ page[i] \in rows /\ 0 + i = i
      BY <1>2, <1>3, <2>6
    <3> HIDE DEF ids, rows
    <3>2. QED
      BY <1>1, <2>8, <3>1 DEF PageTrue
  <2>13. QED
    BY <2>8, <2>9, <2>11, <2>12 DEF SameNews
<1>8. QED
  BY <1>6, <1>7

\* A later query, of a page: the ids that are older still begin the ids that match
\* now, from any row on.
LEMMA RowsFrom ==
  ASSUME NEW m, IsModel(m), NEW d, WellFormed(d), NEW f, Snapshot(m, f, d),
         NEW row \in Nat, row < RowCount(m),
         NEW rest, rest = {e \in Matching(f, d) : e.id >= m.ids[row + 1]},
         NEW p, p = InOrder(rest), NEW c, c = Cardinality(rest)
  PROVE  /\ c \in Nat \ {0} /\ p \in [1 .. c -> rest]
         /\ \A i \in 1 .. c : row + i <= Len(m.ids) => p[i].id = m.ids[row + i]
<1> DEFINE L == Len(m.ids)
           A == L - row
           a == [i \in 1 .. A |-> m.ids[row + i]]
           b == [j \in 1 .. c |-> p[j].id]
<1>1. /\ m.ids \in Seq(Nat) /\ L \in Nat /\ m.numMatching = L /\ RowCount(m) = L
      /\ row + 1 \in 1 .. L
  BY DEF IsModel, Models, RowCount
<1>2. m.ids \in [1 .. L -> Nat]
  BY <1>1
<1>3. Ids(m) = m.ids
  <2>1. Ids(m) = [r \in 1 .. L |-> m.ids[r]]
    BY <1>1 DEF Ids
  <2> HIDE DEF L
  <2> QED BY <1>2, <2>1
<1>4. PICK n \in 0 .. d.last : Range(m.ids) = UpTo(f, d, n)
  BY <1>3 DEF Snapshot
<1>5. Increasing(m.ids)
  BY <1>3 DEF Snapshot
<1>6. /\ Rows(rest) /\ rest \subseteq d.entries /\ d.last \in Nat
      /\ \A e \in rest : e.id \in Nat
  <2>1. rest \in SUBSET Matching(f, d)
    OBVIOUS
  <2>2. Rows(rest) /\ rest \subseteq d.entries /\ d.last \in Nat
    BY <2>1, MatchingRows
  <2>3. QED
    BY <2>2 DEF Rows, Entries
<1>7. /\ c \in Nat /\ p \in [1 .. c -> rest] /\ Ascending(p)
      /\ \A e \in rest : \E i \in 1 .. c : p[i] = e
  BY <1>6, InOrderOf
<1>8. A \in Nat /\ 1 \in 1 .. A /\ \A i \in 1 .. A : row + i \in 1 .. L
  BY <1>1
<1>9. \A i \in 1 .. A : a[i] = m.ids[row + i] /\ a[i] \in Nat
  BY <1>2, <1>8
<1>10. a \in [1 .. A -> Nat] /\ b \in [1 .. c -> Nat]
  BY <1>2, <1>6, <1>7, <1>8
<1>a. \A j \in 1 .. c : b[j] = p[j].id
  OBVIOUS
<1>11. Increasing(a)
  <2> SUFFICES ASSUME NEW i \in 1 .. A, NEW j \in 1 .. A, i < j PROVE a[i] < a[j]
    BY DEF Increasing
  <2>1. row + i \in 1 .. L /\ row + j \in 1 .. L /\ row + i < row + j
    BY <1>8
  <2> HIDE DEF a, A, L
  <2> QED BY <1>2, <1>5, <1>9, <2>1 DEF Increasing
<1>12. Increasing(b)
  BY <1>7 DEF Increasing, Ascending
<1> HIDE DEF a, b
<1>13. ASSUME NEW r \in 1 .. L
       PROVE  \E x \in Matching(f, d) : x.id <= n /\ x.id = m.ids[r]
  <2>1. m.ids[r] \in Range(m.ids)
    <3> HIDE DEF L
    <3> QED BY <1>2 DEF Range
  <2>2. QED
    BY <1>4, <2>1 DEF UpTo
<1>14. ASSUME NEW x \in Matching(f, d), x.id <= n
       PROVE  \E r \in 1 .. L : m.ids[r] = x.id
  <2>1. x.id \in Range(m.ids)
    BY <1>4, <1>14 DEF UpTo
  <2> HIDE DEF L
  <2> QED BY <1>2, <2>1 DEF Range
<1>15. ASSUME NEW i \in 1 .. A PROVE \E j \in 1 .. c : b[j] = a[i]
  <2>1. PICK x \in Matching(f, d) : x.id = m.ids[row + i]
    BY <1>8, <1>13
  <2>2. m.ids[row + i] >= m.ids[row + 1]
    <3>1. row + i \in 1 .. L /\ row + 1 \in 1 .. L /\ (i = 1 \/ row + 1 < row + i)
      BY <1>8
    <3> HIDE DEF L, A
    <3>2. m.ids[row + i] \in Nat /\ m.ids[row + 1] \in Nat
      BY <1>2, <3>1
    <3>3. CASE i = 1
      <4>1. m.ids[row + i] = m.ids[row + 1]
        BY <3>3
      <4> QED BY <3>2, <4>1
    <3>4. CASE row + 1 < row + i
      <4>1. m.ids[row + 1] < m.ids[row + i]
        BY <1>2, <1>5, <3>1, <3>4 DEF Increasing
      <4> QED BY <3>2, <4>1
    <3> QED BY <3>1, <3>3, <3>4
  <2>3. x \in rest
    BY <2>1, <2>2
  <2>4. QED
    <3>1. PICK j \in 1 .. c : p[j] = x
      BY <1>7, <2>3
    <3>2. QED
      BY <1>9, <1>a, <2>1, <3>1
<1>16. ASSUME NEW j \in 1 .. c, NEW i \in 1 .. A, b[j] <= a[i]
       PROVE  \E k \in 1 .. A : a[k] = b[j]
  <2>1. p[j] \in Matching(f, d) /\ p[j].id >= m.ids[row + 1] /\ p[j].id \in Nat
    BY <1>6, <1>7
  <2>2. PICK x \in Matching(f, d) : x.id <= n /\ x.id = a[i]
    BY <1>8, <1>9, <1>13
  <2>3. p[j].id <= n
    BY <1>16, <1>9, <1>a, <2>1, <2>2, <1>6
  <2>4. PICK r \in 1 .. L : m.ids[r] = p[j].id
    BY <1>14, <2>1, <2>3
  <2>5. ~ (r < row + 1)
    <3> SUFFICES ASSUME r < row + 1 PROVE FALSE
      OBVIOUS
    <3>1. m.ids[r] < m.ids[row + 1]
      <4> HIDE DEF L
      <4> QED BY <1>1, <1>2, <1>5 DEF Increasing
    <3>2. m.ids[row + 1] \in Nat
      <4> HIDE DEF L
      <4> QED BY <1>1, <1>2
    <3> QED BY <2>1, <2>4, <3>1, <3>2
  <2>6. r - row \in 1 .. A /\ row + (r - row) = r
    BY <1>1, <2>5
  <2>7. a[r - row] = m.ids[r]
    BY <1>9, <2>6
  <2>8. QED
    BY <1>a, <2>1, <2>4, <2>6, <2>7
<1>17. \A i \in 1 .. A : i <= c => a[i] = b[i]
  <2> HIDE DEF a, b, A
  <2>1. \A i \in 1 .. A : \E j \in 1 .. c : b[j] = a[i]
    BY <1>15
  <2>2. \A j \in 1 .. c, i \in 1 .. A : b[j] <= a[i] => \E k \in 1 .. A : a[k] = b[j]
    BY <1>16
  <2>3. A \in Nat /\ c \in Nat
    BY <1>7, <1>8
  <2>4. QED
    <3>1. Begins(a, A, b, c)
      BY <1>10, <1>11, <1>12, <2>1, <2>2, <2>3 DEF Begins
    <3>2. QED
      BY <3>1, SameStart
<1>18. c # 0
  BY <1>7, <1>8, <1>15
<1>19. ASSUME NEW i \in 1 .. c, row + i <= L
       PROVE  p[i].id = m.ids[row + i]
  <2>1. i \in 1 .. A
    BY <1>1, <1>7, <1>19
  <2>2. QED
    BY <1>9, <1>17, <1>a, <2>1
<1>20. QED
  BY <1>7, <1>18, <1>19

\* A later query reads the page that begins at the row.
LEMMA QueryPages ==
  ASSUME NEW m, IsModel(m), NEW d, WellFormed(d), NEW f, Snapshot(m, f, d),
         NEW row \in Nat, row < RowCount(m), NEW q, q = queryForEntries(m, f, d, row)
  PROVE  /\ IsModel(q) /\ PageTrue(q, d) /\ SameNews(q, m)
         /\ q.ids = m.ids /\ q.numMatching = m.numMatching /\ Ids(q) = Ids(m)
         /\ InPage(q, row)
<1> DEFINE rest == {e \in Matching(f, d) : e.id >= m.ids[row + 1]}
           p == InOrder(rest)
           c == Cardinality(rest)
           page == Limited(p)
<1>1. /\ c \in Nat \ {0} /\ p \in [1 .. c -> rest]
      /\ \A i \in 1 .. c : row + i <= Len(m.ids) => p[i].id = m.ids[row + i]
  BY RowsFrom
<1>2. rest \subseteq Entries /\ rest \subseteq d.entries
  BY DEF Matching, WellFormed
<1>3. m \in AnyModels /\ m.numMatching # -1 /\ m.numMatching = Len(m.ids) /\ row < Len(m.ids)
  BY DEF IsModel, Models, AnyModels, RowCount
<1>4. q = WithPage(m, row, page)
  BY <1>3 DEF queryForEntries, WithPage, Page
<1> HIDE DEF rest
<1>5. /\ page \in Seq(rest) /\ Len(page) <= PageSize /\ Len(page) > 0
      /\ \A i \in DOMAIN page : i \in 1 .. c /\ page[i] = p[i]
  <2> HIDE DEF p, c
  <2>1. c \in Nat /\ c > 0 /\ p \in [1 .. c -> rest]
    BY <1>1
  <2>2. QED
    BY <2>1, LimitedOf
<1> HIDE DEF page, p, c
<1>6. q = Table(m.numMatching, m.numNew, m.ids, row, page, m.timer, m.suspended)
  BY <1>3, <1>4, WithTwoIs
<1>7. /\ q.numMatching = m.numMatching /\ q.ids = m.ids /\ q.top = row /\ q.page = page
      /\ q.numNew = m.numNew /\ q.timer = m.timer /\ q.suspended = m.suspended
  BY <1>6, TableFields
<1>8. RowCount(q) = RowCount(m) /\ Ids(q) = Ids(m)
  BY <1>7 DEF RowCount, Ids
<1>9. IsModel(q)
  <2>1. page \in Seq(Entries)
    BY <1>2, <1>5
  <2>2. /\ m.numMatching \in Nat /\ m.numNew \in Nat /\ m.ids \in Seq(Nat) /\ row \in Int
        /\ m.timer \in BOOLEAN /\ m.suspended \in BOOLEAN
    BY DEF IsModel, Models
  <2>3. q \in Models
    BY <1>6, <2>1, <2>2, TableType
  <2>4. Len(m.ids) \in Nat /\ row \in -1 .. Len(m.ids) - 1
    BY <1>3, <2>2
  <2>5. QED
    BY <1>3, <1>5, <1>7, <2>3, <2>4 DEF IsModel
<1>10. PageTrue(q, d)
  <2> SUFFICES ASSUME NEW i \in DOMAIN page
               PROVE  /\ row + i <= Len(m.ids) => page[i].id = m.ids[row + i]
                      /\ page[i] \in d.entries
    BY <1>7 DEF PageTrue
  <2>1. i \in 1 .. c /\ page[i] = p[i] /\ p[i] \in rest
    BY <1>1, <1>5
  <2>2. QED
    BY <1>1, <1>2, <2>1
<1>11. InPage(q, row)
  BY <1>5, <1>7 DEF InPage
<1>12. QED
  BY <1>7, <1>8, <1>9, <1>10, <1>11 DEF SameNews

\* A later query returns a table, whatever the ids are.
LEMMA QueryType ==
  ASSUME NEW m, IsModel(m), NEW d, WellFormed(d), NEW f,
         NEW row \in Nat, row < RowCount(m), NEW q, q = queryForEntries(m, f, d, row)
  PROVE  IsModel(q) /\ SameNews(q, m) /\ q.ids = m.ids /\ q.numMatching = m.numMatching
<1> DEFINE rest == {e \in Matching(f, d) : e.id >= m.ids[row + 1]}
           p == InOrder(rest)
           c == Cardinality(rest)
           page == Limited(p)
<1>1. m \in AnyModels /\ m.numMatching # -1 /\ m.numMatching = Len(m.ids) /\ row < Len(m.ids)
  BY DEF IsModel, Models, AnyModels, RowCount
<1>2. q = WithPage(m, row, page)
  BY <1>1 DEF queryForEntries, WithPage, Page
<1>3. Rows(rest) /\ rest \subseteq Entries
  <2>1. rest \in SUBSET Matching(f, d)
    OBVIOUS
  <2> HIDE DEF rest
  <2>2. QED
    BY <2>1, MatchingRows DEF Rows
<1> HIDE DEF rest
<1>4. c \in Nat /\ p \in [1 .. c -> rest]
  BY <1>3, InOrderOf
<1> HIDE DEF p, c
<1>5. page \in Seq(rest) /\ Len(page) <= PageSize
  BY <1>4, LimitedOf
<1> HIDE DEF page
<1>6. q = Table(m.numMatching, m.numNew, m.ids, row, page, m.timer, m.suspended)
  BY <1>1, <1>2, WithTwoIs
<1>7. /\ q.numMatching = m.numMatching /\ q.ids = m.ids /\ q.top = row /\ q.page = page
      /\ q.numNew = m.numNew /\ q.timer = m.timer /\ q.suspended = m.suspended
  BY <1>6, TableFields
<1>8. IsModel(q)
  <2>1. page \in Seq(Entries)
    BY <1>3, <1>5
  <2>2. /\ m.numMatching \in Nat /\ m.numNew \in Nat /\ m.ids \in Seq(Nat) /\ row \in Int
        /\ m.timer \in BOOLEAN /\ m.suspended \in BOOLEAN
    BY DEF IsModel, Models
  <2>3. q \in Models
    BY <1>6, <2>1, <2>2, TableType
  <2>4. Len(m.ids) \in Nat /\ row \in -1 .. Len(m.ids) - 1
    BY <1>1, <2>2
  <2>5. QED
    BY <1>1, <1>5, <1>7, <2>3, <2>4 DEF IsModel
<1>9. QED
  BY <1>7, <1>8 DEF SameNews

-----------------------------------------------------------------------------
(* What the table's operations do to it.                                   *)

SameRows(q, m) ==
  q.numMatching = m.numMatching /\ q.ids = m.ids /\ q.top = m.top /\ q.page = m.page

LEMMA SameRowsShow ==
  ASSUME NEW m, NEW q, SameRows(q, m)
  PROVE  /\ RowCount(q) = RowCount(m) /\ Ids(q) = Ids(m)
         /\ \A d : PageTrue(m, d) => PageTrue(q, d)
         /\ \A f, d : Snapshot(m, f, d) => Snapshot(q, f, d)
         /\ \A f, d : Complete(m, f, d) => Complete(q, f, d)
<1>1. RowCount(q) = RowCount(m)
  BY DEF SameRows, RowCount
<1>2. Ids(q) = Ids(m)
  BY <1>1 DEF SameRows, Ids
<1>3. \A d : PageTrue(m, d) => PageTrue(q, d)
  BY <1>1 DEF SameRows, PageTrue
<1>4. QED
  BY <1>1, <1>2, <1>3 DEF Snapshot, Complete

LEMMA NewsOfTable ==
  ASSUME NEW m, IsModel(m), NEW n \in Nat, NEW timer \in BOOLEAN, NEW suspended \in BOOLEAN,
         NEW q, q = Table(m.numMatching, n, m.ids, m.top, m.page, timer, suspended)
  PROVE  /\ IsModel(q) /\ SameRows(q, m)
         /\ q.numNew = n /\ q.timer = timer /\ q.suspended = suspended
<1>1. /\ q.numMatching = m.numMatching /\ q.ids = m.ids /\ q.top = m.top /\ q.page = m.page
      /\ q.numNew = n /\ q.timer = timer /\ q.suspended = suspended
  BY TableFields
<1>2. q \in Models
  <2>1. /\ m.numMatching \in Nat /\ m.ids \in Seq(Nat) /\ m.top \in Int /\ m.page \in Seq(Entries)
    BY DEF IsModel, Models
  <2>2. QED
    BY <2>1, TableType
<1>3. QED
  BY <1>1, <1>2 DEF IsModel, SameRows

LEMMA ModelsAreAny == \A m : IsModel(m) => m \in AnyModels
BY DEF IsModel, Models, AnyModels

LEMMA TimerSet ==
  ASSUME NEW m, IsModel(m), NEW x \in BOOLEAN, NEW q, q = [m EXCEPT !.timer = x]
  PROVE  /\ IsModel(q) /\ SameRows(q, m)
         /\ q.numNew = m.numNew /\ q.timer = x /\ q.suspended = m.suspended
<1>1. q = Table(m.numMatching, m.numNew, m.ids, m.top, m.page, x, m.suspended)
  BY ModelsAreAny, WithOneIs
<1>2. m.numNew \in Nat /\ m.suspended \in BOOLEAN
  BY DEF IsModel, Models
<1>3. QED
  BY <1>1, <1>2, NewsOfTable

LEMMA SuspendedSet ==
  ASSUME NEW m, IsModel(m), NEW x \in BOOLEAN, NEW q, q = [m EXCEPT !.suspended = x]
  PROVE  /\ IsModel(q) /\ SameRows(q, m)
         /\ q.numNew = m.numNew /\ q.timer = m.timer /\ q.suspended = x
<1>1. q = Table(m.numMatching, m.numNew, m.ids, m.top, m.page, m.timer, x)
  BY ModelsAreAny, WithOneIs
<1>2. m.numNew \in Nat /\ m.timer \in BOOLEAN
  BY DEF IsModel, Models
<1>3. QED
  BY <1>1, <1>2, NewsOfTable

LEMMA NumNewCleared ==
  ASSUME NEW m, IsModel(m), NEW q, q = [m EXCEPT !.numNew = 0]
  PROVE  /\ IsModel(q) /\ SameRows(q, m)
         /\ q.numNew = 0 /\ q.timer = m.timer /\ q.suspended = m.suspended
<1> DEFINE zero == 0
<1>1. m.suspended \in BOOLEAN /\ m.timer \in BOOLEAN /\ zero \in Nat
  BY DEF IsModel, Models
<1> HIDE DEF zero
<1>2. q = Table(m.numMatching, zero, m.ids, m.top, m.page, m.timer, m.suspended)
  BY ModelsAreAny, WithOneIs DEF zero
<1>3. QED
  BY <1>1, <1>2, NewsOfTable DEF zero

LEMMA RecountedIs ==
  ASSUME NEW m, IsModel(m), NEW d, WellFormed(d), NEW f, NEW q, q = Recounted(m, f, d)
  PROVE  IsModel(q) /\ Complete(q, f, d) /\ PageTrue(q, d) /\ SameNews(q, m)
<1> DEFINE minus == -1
           w == [m EXCEPT !.numMatching = minus]
<1>1. w = Table(minus, m.numNew, m.ids, m.top, m.page, m.timer, m.suspended)
  <2> HIDE DEF minus
  <2> QED BY ModelsAreAny, WithOneIs
<1>2. w.numMatching = minus /\ w.numNew = m.numNew /\ w.timer = m.timer /\ w.suspended = m.suspended
  <2> HIDE DEF minus, w
  <2> QED BY <1>1, TableFields
<1>3. w \in AnyModels
  <2>1. m.ids \in Seq(Nat) /\ m.top \in Int /\ m.page \in Seq(Entries) /\ m.numNew \in Nat
        /\ m.timer \in BOOLEAN /\ m.suspended \in BOOLEAN /\ minus \in Int
    BY DEF IsModel, Models
  <2> HIDE DEF minus, w
  <2>2. QED
    BY <1>1, <2>1 DEF Table, AnyModels
<1>4. q = queryForEntries(w, f, d, 0)
  BY DEF Recounted
<1>5. w.numMatching = -1
  BY <1>2
<1> HIDE DEF w, minus
<1>6. IsModel(q) /\ Complete(q, f, d) /\ PageTrue(q, d) /\ SameNews(q, w)
  BY <1>3, <1>4, <1>5, QueryCounts
<1>7. QED
  BY <1>2, <1>6 DEF SameNews

LEMMA InsertedIs ==
  ASSUME NEW m, IsModel(m), NEW d, WellFormed(d), NEW f, NEW q, q = insertNewTraceEntries(m, f, d)
  PROVE  /\ IsModel(q) /\ q.numNew = 0 /\ q.timer = m.timer /\ q.suspended = m.suspended
         /\ m.numNew = 0 => q = m
         /\ m.numNew # 0 => Complete(q, f, d) /\ PageTrue(q, d)
<1>1. CASE m.numNew = 0
  BY <1>1 DEF insertNewTraceEntries
<1>2. CASE m.numNew # 0
  <2> DEFINE w == Recounted(m, f, d)
  <2>1. IsModel(w) /\ Complete(w, f, d) /\ PageTrue(w, d) /\ SameNews(w, m)
    BY RecountedIs
  <2>2. q = [w EXCEPT !.numNew = 0]
    BY <1>2 DEF insertNewTraceEntries
  <2> HIDE DEF w
  <2>3. IsModel(q) /\ SameRows(q, w) /\ q.numNew = 0 /\ q.timer = w.timer
        /\ q.suspended = w.suspended
    BY <2>1, <2>2, NumNewCleared
  <2>4. QED
    BY <1>2, <2>1, <2>3, SameRowsShow DEF SameNews
<1>3. QED
  BY <1>1, <1>2

LEMMA ArrivesIs ==
  ASSUME NEW m, IsModel(m), NEW f, NEW e, NEW q, q = Arrives(m, f, e)
  PROVE  /\ IsModel(q) /\ SameRows(q, m) /\ q.suspended = m.suspended
         /\ matches(f, e) => q.numNew = m.numNew + 1 /\ q.timer = (m.timer \/ ~ m.suspended)
         /\ ~ matches(f, e) => q = m
<1>1. CASE matches(f, e)
  <2> DEFINE n == m.numNew + 1
             timer == m.timer \/ ~ m.suspended
  <2>1. n \in Nat /\ timer \in BOOLEAN /\ m.suspended \in BOOLEAN
    BY DEF IsModel, Models
  <2>2. q = WithNews(m, n, timer)
    BY <1>1 DEF Arrives, WithNews
  <2> HIDE DEF n, timer
  <2>3. q = Table(m.numMatching, n, m.ids, m.top, m.page, timer, m.suspended)
    BY <2>2, ModelsAreAny, WithTwoIs
  <2>4. IsModel(q) /\ SameRows(q, m) /\ q.numNew = n /\ q.timer = timer /\ q.suspended = m.suspended
    BY <2>1, <2>3, NewsOfTable
  <2>5. QED
    BY <1>1, <2>4 DEF n, timer
<1>2. CASE ~ matches(f, e)
  <2>1. q = m
    BY <1>2 DEF Arrives
  <2>2. QED
    BY <1>2, <2>1 DEF SameRows
<1>3. QED
  BY <1>1, <1>2

LEMMA ClearedIs ==
  ASSUME NEW m, IsModel(m), NEW q, q = Cleared(m)
  PROVE  /\ IsModel(q) /\ q.numMatching = 0 /\ q.numNew = 0
         /\ q.timer = m.timer /\ q.suspended = m.suspended
<1>1. q = Table(0, 0, m.ids, m.top, m.page, m.timer, m.suspended)
  BY ModelsAreAny, WithTwoIs DEF Cleared, WithNoRows
<1>2. /\ q.numMatching = 0 /\ q.ids = m.ids /\ q.top = m.top /\ q.page = m.page
      /\ q.numNew = 0 /\ q.timer = m.timer /\ q.suspended = m.suspended
  BY <1>1, TableFields
<1>3. q \in Models
  <2>1. /\ m.ids \in Seq(Nat) /\ m.top \in Int /\ m.page \in Seq(Entries) /\ 0 \in Nat
        /\ m.timer \in BOOLEAN /\ m.suspended \in BOOLEAN
    BY DEF IsModel, Models
  <2>2. QED
    BY <1>1, <2>1, TableType
<1>4. QED
  BY <1>2, <1>3 DEF IsModel

-----------------------------------------------------------------------------
(* The operations of the tree.                                             *)

Branches(items, dirty, visible, timer, suspended) ==
  [items |-> items, dirty |-> dirty, visible |-> visible, timer |-> timer, suspended |-> suspended]

WithItems(t, items) == [t EXCEPT !.dirty = FALSE, !.items = items]

Shows(t, f, d) ==
  \A e \in Watched(f, d) : Item(e) \in DOMAIN t.items /\ t.items[Item(e)] = e.serial

LEMMA BranchesFields ==
  ASSUME NEW a, NEW b, NEW c, NEW h, NEW k
  PROVE  LET t == Branches(a, b, c, h, k)
         IN  t.items = a /\ t.dirty = b /\ t.visible = c /\ t.timer = h /\ t.suspended = k
BY DEF Branches

LEMMA TreeType ==
  ASSUME NEW a, NEW b \in BOOLEAN, NEW c \in BOOLEAN, NEW h \in BOOLEAN, NEW k \in BOOLEAN
  PROVE  IsTree(Branches(a, b, c, h, k))
BY DEF Branches, IsTree

LEMMA TreeIs ==
  ASSUME NEW t, IsTree(t)
  PROVE  /\ t = Branches(t.items, t.dirty, t.visible, t.timer, t.suspended)
         /\ t.dirty \in BOOLEAN /\ t.visible \in BOOLEAN
         /\ t.timer \in BOOLEAN /\ t.suspended \in BOOLEAN
BY DEF Branches, IsTree

LEMMA TreeAssignedSeveral ==
  ASSUME NEW t, NEW x, NEW y
  PROVE  /\ [t EXCEPT !.dirty = x, !.items = y] = [[t EXCEPT !.dirty = x] EXCEPT !.items = y]
         /\ [t EXCEPT !.dirty = x, !.timer = y] = [[t EXCEPT !.dirty = x] EXCEPT !.timer = y]
OBVIOUS

LEMMA TreeWith ==
  ASSUME NEW t, IsTree(t), NEW x
  PROVE  /\ [t EXCEPT !.dirty = x] = Branches(t.items, x, t.visible, t.timer, t.suspended)
         /\ [t EXCEPT !.visible = x] = Branches(t.items, t.dirty, x, t.timer, t.suspended)
         /\ [t EXCEPT !.timer = x] = Branches(t.items, t.dirty, t.visible, x, t.suspended)
         /\ [t EXCEPT !.suspended = x] = Branches(t.items, t.dirty, t.visible, t.timer, x)
<1> DEFINE a == t.items
           b == t.dirty
           c == t.visible
           h == t.timer
           k == t.suspended
<1>1. t = Branches(a, b, c, h, k)
  BY TreeIs
<1> HIDE DEF a, b, c, h, k
<1>2. [t EXCEPT !.dirty = x] = Branches(a, x, c, h, k)
  BY <1>1 DEF Branches
<1>3. [t EXCEPT !.visible = x] = Branches(a, b, x, h, k)
  BY <1>1 DEF Branches
<1>4. [t EXCEPT !.timer = x] = Branches(a, b, c, x, k)
  BY <1>1 DEF Branches
<1>5. [t EXCEPT !.suspended = x] = Branches(a, b, c, h, x)
  BY <1>1 DEF Branches
<1>6. QED
  BY <1>2, <1>3, <1>4, <1>5 DEF a, b, c, h, k

LEMMA TreeWithItems ==
  ASSUME NEW t, IsTree(t), NEW x, NEW y
  PROVE  [t EXCEPT !.dirty = x, !.items = y] = Branches(y, x, t.visible, t.timer, t.suspended)
<1> DEFINE a == t.items
           b == t.dirty
           c == t.visible
           h == t.timer
           k == t.suspended
           r == [t EXCEPT !.dirty = x]
           w == [r EXCEPT !.items = y]
<1>1. t = Branches(a, b, c, h, k)
  BY TreeIs
<1>2. [t EXCEPT !.dirty = x, !.items = y] = w
  BY TreeAssignedSeveral
<1> HIDE DEF a, b, c, h, k
<1>3. r = Branches(a, x, c, h, k)
  BY <1>1 DEF Branches
<1> HIDE DEF r
<1>4. w = Branches(y, x, c, h, k)
  BY <1>3 DEF Branches
<1> HIDE DEF w
<1>5. QED
  BY <1>2, <1>4 DEF a, b, c, h, k

LEMMA TreeWithTimer ==
  ASSUME NEW t, IsTree(t), NEW x, NEW y
  PROVE  [t EXCEPT !.dirty = x, !.timer = y] = Branches(t.items, x, t.visible, y, t.suspended)
<1> DEFINE a == t.items
           b == t.dirty
           c == t.visible
           h == t.timer
           k == t.suspended
           r == [t EXCEPT !.dirty = x]
           w == [r EXCEPT !.timer = y]
<1>1. t = Branches(a, b, c, h, k)
  BY TreeIs
<1>2. [t EXCEPT !.dirty = x, !.timer = y] = w
  BY TreeAssignedSeveral
<1> HIDE DEF a, b, c, h, k
<1>3. r = Branches(a, x, c, h, k)
  BY <1>1 DEF Branches
<1> HIDE DEF r
<1>4. w = Branches(a, x, c, y, k)
  BY <1>3 DEF Branches
<1> HIDE DEF w
<1>5. QED
  BY <1>2, <1>4 DEF a, b, c, h, k

\* The query of the tree: an item for each watched entry, with its value.
LEMMA ShownIs ==
  ASSUME NEW t, IsTree(t), NEW d, WellFormed(d), NEW f, NEW q, q = showNewTraceEntries(t, f, d)
  PROVE  /\ IsTree(q)
         /\ q.visible = t.visible /\ q.timer = t.timer /\ q.suspended = t.suspended
         /\ t.dirty /\ t.visible => ~ q.dirty /\ Shows(q, f, d)
         /\ ~ (t.dirty /\ t.visible) => q = t
<1>1. CASE ~ (t.dirty /\ t.visible)
  BY <1>1 DEF showNewTraceEntries
<1>2. CASE t.dirty /\ t.visible
  <2> DEFINE new == Watched(f, d)
             D == DOMAIN t.items \cup {Item(e) : e \in new}
             items == [i \in D |->
                         IF \E e \in new : Item(e) = i
                         THEN (CHOOSE e \in new : Item(e) = i).serial ELSE t.items[i]]
  <2>1. q = [t EXCEPT !.dirty = FALSE, !.items = items]
    BY <1>2 DEF showNewTraceEntries
  <2>2. ASSUME NEW e \in new
        PROVE  Item(e) \in DOMAIN items /\ items[Item(e)] = e.serial
    <3>1. ASSUME NEW x \in new, Item(x) = Item(e)
          PROVE  x = e
      <4>1. x \in d.entries /\ e \in d.entries /\ x.id <= e.id /\ e.id <= x.id
        BY <3>1 DEF Watched, Latest, Item
      <4>2. x.id \in Nat /\ e.id \in Nat
        BY <4>1 DEF WellFormed, Entries
      <4>3. x.id = e.id
        BY <4>1, <4>2
      <4>4. QED
        BY <4>1, <4>3 DEF WellFormed
    <3>2. Item(e) \in D
      OBVIOUS
    <3> HIDE DEF new, D
    <3>3. \A x \in new : Item(x) = Item(e) => x = e
      BY <3>1
    <3>4. (CHOOSE x \in new : Item(x) = Item(e)) = e
      BY <3>3, Zenon
    <3>5. items[Item(e)] = (CHOOSE x \in new : Item(x) = Item(e)).serial
      BY <3>2
    <3>6. QED
      BY <3>2, <3>4, <3>5
  <2> HIDE DEF items
  <2> DEFINE no == FALSE
  <2>a. no \in BOOLEAN
    OBVIOUS
  <2> HIDE DEF no
  <2>3. q = Branches(items, no, t.visible, t.timer, t.suspended)
    BY <2>1, TreeWithItems DEF no
  <2>b. /\ q.items = items /\ q.dirty = no /\ q.visible = t.visible
        /\ q.timer = t.timer /\ q.suspended = t.suspended
    BY <2>3, BranchesFields
  <2>4. /\ q.items = items /\ q.dirty = FALSE /\ q.visible = t.visible
        /\ q.timer = t.timer /\ q.suspended = t.suspended
    BY <2>b DEF no
  <2>5. IsTree(q)
    BY <2>a, <2>3, TreeIs, TreeType
  <2>6. Shows(q, f, d)
    BY <2>2, <2>4 DEF Shows
  <2>7. QED
    BY <1>2, <2>4, <2>5, <2>6
<1>3. QED
  BY <1>1, <1>2

LEMMA ReAppliedIs ==
  ASSUME NEW t, IsTree(t), NEW d, WellFormed(d), NEW f, NEW q, q = TreeReApplied(t, f, d)
  PROVE  /\ IsTree(q)
         /\ q.visible = t.visible /\ q.timer = t.timer /\ q.suspended = t.suspended
         /\ t.visible => ~ q.dirty /\ Shows(q, f, d)
         /\ ~ t.visible => q.dirty
<1> DEFINE none == [i \in {} |-> 0]
           yes == TRUE
           w == [t EXCEPT !.dirty = yes, !.items = none]
<1>1. q = showNewTraceEntries(w, f, d)
  BY DEF TreeReApplied
<1>2. yes \in BOOLEAN
  OBVIOUS
<1> HIDE DEF none, yes
<1>3. w = Branches(none, yes, t.visible, t.timer, t.suspended)
  BY TreeWithItems
<1> HIDE DEF w
<1>4. w.dirty = yes /\ w.visible = t.visible /\ w.timer = t.timer /\ w.suspended = t.suspended
  BY <1>3, BranchesFields
<1>5. IsTree(w)
  BY <1>2, <1>3, TreeIs, TreeType
<1>6. /\ IsTree(q)
      /\ q.visible = w.visible /\ q.timer = w.timer /\ q.suspended = w.suspended
      /\ w.dirty /\ w.visible => ~ q.dirty /\ Shows(q, f, d)
      /\ ~ (w.dirty /\ w.visible) => q = w
  BY <1>1, <1>5, ShownIs
<1>7. QED
  BY <1>4, <1>6, TreeIs DEF yes

LEMMA TreeArrivesIs ==
  ASSUME NEW t, IsTree(t), NEW f, NEW e, NEW q, q = TreeArrives(t, f, e)
  PROVE  /\ IsTree(q)
         /\ q.items = t.items /\ q.visible = t.visible /\ q.suspended = t.suspended
         /\ matches(f, e) /\ e.kind.watched => q.dirty /\ (~ q.suspended => q.timer)
         /\ ~ (matches(f, e) /\ e.kind.watched) => q = t
<1>1. CASE matches(f, e) /\ e.kind.watched
  <2> DEFINE yes == TRUE
             timer == t.timer \/ ~ t.suspended
  <2>1. yes \in BOOLEAN /\ timer \in BOOLEAN
    BY TreeIs
  <2>2. q = [t EXCEPT !.dirty = yes, !.timer = timer]
    BY <1>1 DEF TreeArrives
  <2> HIDE DEF yes, timer
  <2>3. q = Branches(t.items, yes, t.visible, timer, t.suspended)
    BY <2>2, TreeWithTimer
  <2>4. /\ q.items = t.items /\ q.dirty = yes /\ q.visible = t.visible
        /\ q.timer = timer /\ q.suspended = t.suspended
    BY <2>3, BranchesFields
  <2>5. IsTree(q)
    BY <2>1, <2>3, TreeIs, TreeType
  <2>6. QED
    BY <1>1, <2>4, <2>5 DEF yes, timer
<1>2. CASE ~ (matches(f, e) /\ e.kind.watched)
  BY <1>2 DEF TreeArrives
<1>3. QED
  BY <1>1, <1>2

\* The fields that an operation of the viewer assigns alone.
LEMMA TreeFieldSet ==
  ASSUME NEW t, IsTree(t), NEW x \in BOOLEAN
  PROVE  /\ LET q == [t EXCEPT !.dirty = x]
            IN  /\ IsTree(q) /\ q.items = t.items /\ q.dirty = x
                /\ q.visible = t.visible /\ q.timer = t.timer /\ q.suspended = t.suspended
         /\ LET q == [t EXCEPT !.visible = x]
            IN  /\ IsTree(q) /\ q.items = t.items /\ q.dirty = t.dirty
                /\ q.visible = x /\ q.timer = t.timer /\ q.suspended = t.suspended
         /\ LET q == [t EXCEPT !.timer = x]
            IN  /\ IsTree(q) /\ q.items = t.items /\ q.dirty = t.dirty
                /\ q.visible = t.visible /\ q.timer = x /\ q.suspended = t.suspended
         /\ LET q == [t EXCEPT !.suspended = x]
            IN  /\ IsTree(q) /\ q.items = t.items /\ q.dirty = t.dirty
                /\ q.visible = t.visible /\ q.timer = t.timer /\ q.suspended = x
<1> DEFINE q1 == [t EXCEPT !.dirty = x]
           q2 == [t EXCEPT !.visible = x]
           q3 == [t EXCEPT !.timer = x]
           q4 == [t EXCEPT !.suspended = x]
<1>1. /\ q1 = Branches(t.items, x, t.visible, t.timer, t.suspended)
      /\ q2 = Branches(t.items, t.dirty, x, t.timer, t.suspended)
      /\ q3 = Branches(t.items, t.dirty, t.visible, x, t.suspended)
      /\ q4 = Branches(t.items, t.dirty, t.visible, t.timer, x)
  BY TreeWith
<1> HIDE DEF q1, q2, q3, q4
<1>2. IsTree(q1) /\ IsTree(q2) /\ IsTree(q3) /\ IsTree(q4)
  BY <1>1, TreeIs, TreeType
<1>3. /\ q1.items = t.items /\ q1.dirty = x
      /\ q1.visible = t.visible /\ q1.timer = t.timer /\ q1.suspended = t.suspended
  BY <1>1, BranchesFields
<1>4. /\ q2.items = t.items /\ q2.dirty = t.dirty
      /\ q2.visible = x /\ q2.timer = t.timer /\ q2.suspended = t.suspended
  BY <1>1, BranchesFields
<1>5. /\ q3.items = t.items /\ q3.dirty = t.dirty
      /\ q3.visible = t.visible /\ q3.timer = x /\ q3.suspended = t.suspended
  BY <1>1, BranchesFields
<1>6. /\ q4.items = t.items /\ q4.dirty = t.dirty
      /\ q4.visible = t.visible /\ q4.timer = t.timer /\ q4.suspended = x
  BY <1>1, BranchesFields
<1>7. QED
  BY <1>2, <1>3, <1>4, <1>5, <1>6 DEF q1, q2, q3, q4

-----------------------------------------------------------------------------
(* The filter and its form.                                                *)

LEMMA FilterOfNewKeysIs ==
  ASSUME NEW f \in Filters, NEW fm, NEW new \in SUBSET Keys, NEW q, q = FilterOfNewKeys(f, fm, new)
  PROVE  /\ q \in Filters
         /\ q.text = f.text /\ q.pid = f.pid /\ q.withoutKey = f.withoutKey
         /\ q.inactive = {k \in f.inactive \cup new : k \in new => ~ KeyActive(fm.defaults, k)}
         /\ new = {} => q = f
<1> DEFINE S == {k \in f.inactive \cup new : k \in new => ~ KeyActive(fm.defaults, k)}
<1>1. q = [f EXCEPT !.inactive = S]
  BY DEF FilterOfNewKeys
<1>2. S \in SUBSET Keys
  BY DEF Filters
<1>3. new = {} => S = f.inactive
  OBVIOUS
<1> HIDE DEF S
<1>4. q \in Filters /\ q.text = f.text /\ q.pid = f.pid /\ q.withoutKey = f.withoutKey
      /\ q.inactive = S
  BY <1>1, <1>2 DEF Filters
<1>5. new = {} => q = f
  BY <1>1, <1>3 DEF Filters
<1>6. QED
  BY <1>4, <1>5 DEF S

LEMMA KeyListType ==
  ASSUME NEW K \in SUBSET Keys, NEW l, l \in [K -> BOOLEAN]
  PROVE  l \in KeyLists
BY DEF KeyLists

LEMMA KeyListIs ==
  ASSUME NEW l \in KeyLists
  PROVE  DOMAIN l \in SUBSET Keys /\ l \in [DOMAIN l -> BOOLEAN]
BY DEF KeyLists

LEMMA KeyActiveType ==
  ASSUME NEW defaults \in KeyLists, NEW k
  PROVE  KeyActive(defaults, k) \in BOOLEAN
BY KeyListIs DEF KeyActive

LEMMA SetTraceKeysIs ==
  ASSUME NEW fm \in Forms, NEW keys \in SUBSET Keys, NEW q, q = SetTraceKeys(fm, keys)
  PROVE  /\ q \in Forms /\ DOMAIN q.keys = keys
         /\ q.firstEntryPassed = fm.firstEntryPassed /\ q.defaults = fm.defaults
         /\ q.edited = fm.edited
         /\ \A k \in keys : q.keys[k] = KeyActive(fm.defaults, k)
<1> DEFINE l == [k \in keys |-> KeyActive(fm.defaults, k)]
<1>1. l \in [keys -> BOOLEAN]
  BY KeyActiveType DEF Forms
<1>2. DOMAIN l = keys /\ \A k \in keys : l[k] = KeyActive(fm.defaults, k)
  OBVIOUS
<1>3. q = [fm EXCEPT !.keys = l]
  BY DEF SetTraceKeys
<1> HIDE DEF l
<1>4. l \in KeyLists
  BY <1>1, KeyListType
<1>5. /\ q \in Forms /\ q.keys = l
      /\ q.firstEntryPassed = fm.firstEntryPassed /\ q.defaults = fm.defaults
      /\ q.edited = fm.edited
  BY <1>3, <1>4 DEF Forms
<1>6. QED
  BY <1>2, <1>5

LEMMA AddTraceKeysIs ==
  ASSUME NEW fm \in Forms, NEW keys \in SUBSET Keys, NEW q, q = AddTraceKeys(fm, keys)
  PROVE  /\ q \in Forms /\ DOMAIN q.keys = keys \cup DOMAIN fm.keys
         /\ q.firstEntryPassed = fm.firstEntryPassed /\ q.defaults = fm.defaults
         /\ q.edited = fm.edited
         /\ \A k \in DOMAIN fm.keys : q.keys[k] = fm.keys[k]
         /\ \A k \in NewKeys(fm, keys) : q.keys[k] = KeyActive(fm.defaults, k)
<1> DEFINE D == keys \cup DOMAIN fm.keys
           l == [k \in D |-> IF k \in DOMAIN fm.keys THEN fm.keys[k]
                             ELSE KeyActive(fm.defaults, k)]
<1>1. fm.keys \in KeyLists /\ fm.defaults \in KeyLists
  BY DEF Forms
<1>2. DOMAIN fm.keys \in SUBSET Keys /\ fm.keys \in [DOMAIN fm.keys -> BOOLEAN]
  BY <1>1, KeyListIs
<1>3. D \in SUBSET Keys
  BY <1>2
<1>4. \A k : KeyActive(fm.defaults, k) \in BOOLEAN
  BY <1>1, KeyActiveType
<1>5. l \in [D -> BOOLEAN]
  BY <1>2, <1>4
<1>6. /\ DOMAIN l = D
      /\ \A k \in DOMAIN fm.keys : l[k] = fm.keys[k]
      /\ \A k \in NewKeys(fm, keys) : l[k] = KeyActive(fm.defaults, k)
  BY DEF NewKeys
<1>7. q = [fm EXCEPT !.keys = l]
  BY DEF AddTraceKeys
<1> HIDE DEF l, D
<1>8. l \in KeyLists
  BY <1>3, <1>5, KeyListType
<1>9. /\ q \in Forms /\ q.keys = l
      /\ q.firstEntryPassed = fm.firstEntryPassed /\ q.defaults = fm.defaults
      /\ q.edited = fm.edited
  BY <1>7, <1>8 DEF Forms
<1>10. QED
  BY <1>6, <1>9 DEF D

LEMMA NoNewKeys ==
  ASSUME NEW fm, NEW keys, NewKeys(fm, keys) = {}
  PROVE  keys \subseteq DOMAIN fm.keys
BY DEF NewKeys

LEMMA EditedSet ==
  ASSUME NEW fm \in Forms, NEW b \in BOOLEAN, NEW q, q = [fm EXCEPT !.edited = b]
  PROVE  /\ q \in Forms /\ q.keys = fm.keys /\ q.edited = b
BY DEF Forms

LEMMA EnabledByDefault ==
  ASSUME NEW defaults \in KeyLists, NEW keys \in KeyLists
  PROVE  EnableByDefault(defaults, keys) \in KeyLists
<1> DEFINE K == DOMAIN defaults \cup DOMAIN keys
           l == EnableByDefault(defaults, keys)
<1>1. /\ DOMAIN defaults \in SUBSET Keys /\ defaults \in [DOMAIN defaults -> BOOLEAN]
      /\ DOMAIN keys \in SUBSET Keys /\ keys \in [DOMAIN keys -> BOOLEAN]
  BY KeyListIs
<1>2. K \in SUBSET Keys
  BY <1>1
<1>3. l \in [K -> BOOLEAN]
  BY <1>1 DEF EnableByDefault
<1> HIDE DEF K, l
<1>4. QED
  BY <1>2, <1>3, KeyListType DEF l

\* What an entry does to the form before the keys of the database are added.
Passed(fm, keys) == [fm EXCEPT !.defaults = EnableByDefault(@, keys), !.firstEntryPassed = TRUE]

LEMMA PassedIs ==
  ASSUME NEW fm \in Forms, NEW keys \in KeyLists, NEW q, q = Passed(fm, keys)
  PROVE  /\ q \in Forms /\ q.keys = fm.keys /\ q.edited = fm.edited /\ q.firstEntryPassed = TRUE
<1> DEFINE l == EnableByDefault(fm.defaults, keys)
           w == [fm EXCEPT !.defaults = l]
<1>1. fm.defaults \in KeyLists
  BY DEF Forms
<1>2. q = [w EXCEPT !.firstEntryPassed = TRUE]
  BY DEF Passed
<1>3. l \in KeyLists
  BY <1>1, EnabledByDefault
<1> HIDE DEF l
<1>4. w \in Forms /\ w.keys = fm.keys /\ w.edited = fm.edited
  BY <1>3 DEF Forms
<1> HIDE DEF w
<1>5. QED
  BY <1>2, <1>4 DEF Forms

\* A check box that the user clicks.
Clicked(fm, key) == [fm EXCEPT !.keys[key] = ~ @, !.edited = TRUE]

LEMMA KeyChecked ==
  ASSUME NEW fm \in Forms, NEW key \in DOMAIN fm.keys, NEW q, q = Clicked(fm, key)
  PROVE  q \in Forms /\ q.edited = TRUE /\ DOMAIN q.keys = DOMAIN fm.keys
<1> DEFINE l == [fm.keys EXCEPT ![key] = ~ fm.keys[key]]
           w == [fm EXCEPT !.keys = l]
<1>1. fm.keys \in KeyLists
  BY DEF Forms
<1>2. DOMAIN fm.keys \in SUBSET Keys /\ fm.keys \in [DOMAIN fm.keys -> BOOLEAN]
  BY <1>1, KeyListIs
<1>3. l \in [DOMAIN fm.keys -> BOOLEAN] /\ DOMAIN l = DOMAIN fm.keys
  BY <1>2
<1>4. q = [w EXCEPT !.edited = TRUE]
  BY DEF Clicked
<1> HIDE DEF l
<1>5. l \in KeyLists
  BY <1>2, <1>3, KeyListType
<1>6. w \in Forms /\ w.keys = l
  BY <1>5 DEF Forms
<1> HIDE DEF w
<1>7. QED
  BY <1>3, <1>4, <1>6 DEF Forms

-----------------------------------------------------------------------------
(* The database that the daemon writes.                                    *)

LEMMA DatabaseIs ==
  ASSUME NEW d, WellFormed(d)
  PROVE  /\ d.entries \in SUBSET Entries /\ d.last \in Nat /\ d.groups \in SUBSET Keys
         /\ \A e \in d.entries : e.id \in 1 .. d.last
BY DEF WellFormed, Entries

IsStored(d, kind, serial, e, q) ==
  /\ WellFormed(d) /\ kind \in Kinds /\ serial \in Nat
  /\ e = NewEntry(d, kind, serial) /\ q = With(d, e)

LEMMA KeysAreKnown ==
  ASSUME NEW kind \in Kinds
  PROVE  KeysOf(kind) \in SUBSET Keys /\ kind.traceKeys \in KeyLists
<1>1. kind.traceKeys \in [DOMAIN kind.traceKeys \ {NoKey} -> BOOLEAN]
  BY EntryModelAssumption
<1>2. DOMAIN kind.traceKeys = DOMAIN kind.traceKeys \ {NoKey}
  BY <1>1
<1>3. DOMAIN kind.traceKeys \in SUBSET Keys
  BY <1>2 DEF Keys
<1>4. kind.traceKeys \in [DOMAIN kind.traceKeys -> BOOLEAN]
  BY <1>1, <1>2
<1> DEFINE l == kind.traceKeys
           K == DOMAIN l
<1>5. K \in SUBSET Keys /\ l \in [K -> BOOLEAN]
  BY <1>3, <1>4
<1> HIDE DEF K, l
<1>6. l \in KeyLists
  BY <1>5, KeyListType
<1>7. KeysOf(kind) \in SUBSET Keys
  BY <1>3 DEF KeysOf, Keys
<1>8. QED
  BY <1>6, <1>7 DEF l

LEMMA WithIs ==
  ASSUME NEW d, NEW kind, NEW serial, NEW e, NEW q, IsStored(d, kind, serial, e, q)
  PROVE  /\ e \in Entries /\ e.id = d.last + 1 /\ e.serial = serial /\ e.kind = kind
         /\ WellFormed(q)
         /\ q.entries = d.entries \cup {e} /\ q.last = d.last + 1
         /\ q.groups = d.groups \cup KeysOf(kind)
<1> USE DEF IsStored
<1> DEFINE G == d.groups \cup KeysOf(kind)
           R == d.entries \cup {e}
           n == d.last + 1
           q1 == [d EXCEPT !.last = n]
           q2 == [q1 EXCEPT !.groups = G]
           q3 == [q2 EXCEPT !.entries = R]
<1>1. /\ d.entries \in SUBSET Entries /\ d.last \in Nat /\ d.groups \in SUBSET Keys
      /\ \A x \in d.entries : x.id \in 1 .. d.last
  BY DatabaseIs
<1>2. e \in Entries /\ e.id = n /\ e.serial = serial /\ e.kind = kind
  BY <1>1 DEF NewEntry, Entries
<1>3. KeysOf(kind) \in SUBSET Keys
  BY KeysAreKnown
<1>4. q = q3
  BY <1>2 DEF With
<1>5. R \in SUBSET Entries /\ n \in Nat /\ G \in SUBSET Keys
  BY <1>1, <1>2, <1>3
<1>6. IsFiniteSet(R)
  BY FS_AddElement DEF WellFormed
<1>7. (\A x \in R : x.id <= n) /\ \A x, y \in R : x.id = y.id => x = y
  <2>1. \A x \in d.entries : x.id <= n /\ x.id # e.id
    BY <1>1, <1>2
  <2>2. \A x, y \in d.entries : x.id = y.id => x = y
    BY DEF WellFormed
  <2> QED BY <1>1, <1>2, <2>1, <2>2
<1> HIDE DEF G, R, n
<1>8. q1 \in [entries : SUBSET Entries, last : Nat, groups : SUBSET Keys] /\ q1.last = n
  BY <1>5 DEF WellFormed
<1> HIDE DEF q1
<1>9. q2 \in [entries : SUBSET Entries, last : Nat, groups : SUBSET Keys] /\ q2.last = n
           /\ q2.groups = G
  BY <1>5, <1>8
<1> HIDE DEF q2
<1>10. /\ q3 \in [entries : SUBSET Entries, last : Nat, groups : SUBSET Keys]
       /\ q3.last = n /\ q3.groups = G /\ q3.entries = R
  BY <1>5, <1>9
<1> HIDE DEF q3
<1>11. QED
  BY <1>2, <1>4, <1>6, <1>7, <1>10 DEF WellFormed, G, R, n

IsKept(d, keep, q) == WellFormed(d) /\ keep \in Nat /\ q = Archived(d, keep)

LEMMA KeptIs ==
  ASSUME NEW d, NEW keep, NEW q, IsKept(d, keep, q)
  PROVE  /\ WellFormed(q)
         /\ q.entries \subseteq d.entries /\ q.last = d.last
         /\ \A x \in q.entries, y \in d.entries : x.id <= y.id => y \in q.entries
<1> USE DEF IsKept
<1> DEFINE Later(e) == {x \in d.entries : x.id > e.id}
           R == Kept(d.entries, keep)
           G == {g \in d.groups : \E e \in R : e.kind.key = g}
           w == [d EXCEPT !.entries = R]
<1>1. /\ d.entries \in SUBSET Entries /\ IsFiniteSet(d.entries)
      /\ \A x \in d.entries : x.id \in Nat
  BY DatabaseIs DEF WellFormed
<1>2. \A e : IsFiniteSet(Later(e)) /\ Cardinality(Later(e)) \in Nat
  <2>1. \A e : Later(e) \in SUBSET d.entries
    OBVIOUS
  <2> HIDE DEF Later
  <2> QED BY <1>1, <2>1, FS_Subset, FS_CardinalityType
<1>3. R = {e \in d.entries : Cardinality(Later(e)) < keep}
  BY DEF Kept
<1>4. R \subseteq d.entries
  <2> HIDE DEF Later
  <2> QED BY <1>2, <1>3
<1>5. ASSUME NEW x \in R, NEW y \in d.entries, x.id <= y.id
      PROVE  y \in R
  <2>1. Later(y) \subseteq Later(x)
    BY <1>1, <1>4, <1>5
  <2> HIDE DEF Later
  <2>2. Cardinality(Later(y)) <= Cardinality(Later(x))
    BY <1>2, <2>1, FS_Subset
  <2>3. Cardinality(Later(x)) < keep
    BY <1>3
  <2>4. Cardinality(Later(y)) < keep
    BY <1>2, <2>2, <2>3
  <2> QED BY <1>3, <2>4
<1>6. q = [w EXCEPT !.groups = G] /\ G \subseteq d.groups
  BY DEF Archived
<1> HIDE DEF R, G
<1>7. /\ w \in [entries : SUBSET Entries, last : Nat, groups : SUBSET Keys]
       /\ w.entries = R /\ w.last = d.last /\ w.groups = d.groups
  BY <1>1, <1>4 DEF WellFormed
<1> HIDE DEF w
<1>8. /\ q \in [entries : SUBSET Entries, last : Nat, groups : SUBSET Keys]
      /\ q.entries = R /\ q.last = d.last
  BY <1>6, <1>7
<1>9. IsFiniteSet(R)
  BY <1>1, <1>4, FS_Subset
<1>10. WellFormed(q)
  BY <1>4, <1>8, <1>9 DEF WellFormed
<1>11. QED
  BY <1>4, <1>5, <1>8, <1>10

LEMMA TrimmedIs ==
  ASSUME NEW d, WellFormed(d), NEW q, q = [d EXCEPT !.entries = {}, !.last = 0]
  PROVE  WellFormed(q) /\ q.entries = {} /\ q.groups = d.groups
<1> DEFINE w == [d EXCEPT !.entries = {}]
<1>1. q = [w EXCEPT !.last = 0]
  OBVIOUS
<1>2. /\ w \in [entries : SUBSET Entries, last : Nat, groups : SUBSET Keys]
      /\ w.entries = {} /\ w.groups = d.groups
  BY DEF WellFormed
<1> HIDE DEF w
<1>3. /\ q \in [entries : SUBSET Entries, last : Nat, groups : SUBSET Keys]
      /\ q.entries = {} /\ q.groups = d.groups
  BY <1>1, <1>2
<1>4. IsFiniteSet({})
  BY FS_EmptySet
<1>5. QED
  BY <1>3, <1>4 DEF WellFormed

LEMMA CompleteIsSnapshot ==
  ASSUME NEW m, NEW f, NEW d, WellFormed(d), Complete(m, f, d)
  PROVE  Snapshot(m, f, d)
<1>1. d.last \in 0 .. d.last
  BY DatabaseIs
<1>2. QED
  BY <1>1 DEF Complete, Snapshot

\* The ids of a table without rows.
LEMMA EmptySnapshot ==
  ASSUME NEW m, m.numMatching = 0, NEW f, NEW d, WellFormed(d)
  PROVE  Snapshot(m, f, d)
<1>1. UpTo(f, d, 0) = {} /\ 0 \in 0 .. d.last
  BY DatabaseIs DEF UpTo, Matching
<1>2. Range(Ids(m)) = {} /\ Increasing(Ids(m))
  BY NoRowsAre
<1>3. QED
  BY <1>1, <1>2 DEF Snapshot

\* An entry that is stored leaves the ids the entries that matched once.
LEMMA SnapshotLasts ==
  ASSUME NEW m, NEW f, NEW d, WellFormed(d), Snapshot(m, f, d), NEW q, WellFormed(q),
         NEW e, e.id = d.last + 1, q.entries = d.entries \cup {e}, q.last = d.last + 1,
         d.groups \subseteq q.groups
  PROVE  Snapshot(m, f, q)
<1>1. PICK n \in 0 .. d.last : Range(Ids(m)) = UpTo(f, d, n)
  BY DEF Snapshot
<1>2. d.last \in Nat /\ \A x \in q.entries : x.id \in 1 .. q.last
  BY DatabaseIs
<1>3. CASE Range(Ids(m)) = {}
  <2>1. UpTo(f, q, 0) = {} /\ 0 \in 0 .. q.last
    BY <1>2 DEF UpTo, Matching
  <2>2. QED
    BY <1>3, <2>1 DEF Snapshot
<1>4. CASE Range(Ids(m)) # {}
  <2>1. Joined(f, d)
    BY <1>1, <1>4 DEF UpTo, Matching, Selects
  <2>2. Joined(f, q)
    BY <2>1 DEF Joined
  <2>3. \A x : Selects(f, d, x) <=> Selects(f, q, x)
    BY <2>1, <2>2 DEF Selects
  <2>4. \A x : x \in q.entries /\ x.id <= n <=> x \in d.entries /\ x.id <= n
    BY <1>2
  <2>5. UpTo(f, q, n) = UpTo(f, d, n)
    BY <2>3, <2>4 DEF UpTo, Matching
  <2>6. n \in 0 .. q.last
    BY <1>2
  <2>7. QED
    BY <1>1, <2>5, <2>6 DEF Snapshot
<1>5. QED
  BY <1>3, <1>4

LEMMA PageLasts ==
  ASSUME NEW m, NEW d, PageTrue(m, d), NEW q, d.entries \subseteq q.entries
  PROVE  PageTrue(m, q)
BY DEF PageTrue

-----------------------------------------------------------------------------
(* What is on its way.                                                     *)

LEMMA MessagesAre ==
  /\ \A e \in Entries : EntryMessage(e) \in Messages /\ EntryMessage(e).type = "entry"
                        /\ EntryMessage(e).entry = e
  /\ NukedMessage \in Messages /\ NukedMessage.type = "nuked"
  /\ \A m \in Messages : /\ m.type = "entry" => m.entry \in Entries /\ m = EntryMessage(m.entry)
                         /\ m.type \in {"entry", "nuked"}
BY DEF Messages, EntryMessage, NukedMessage

LEMMA Sent ==
  ASSUME NEW n \in Seq(Messages), NEW m \in Messages, NEW q, q = Append(n, m)
  PROVE  /\ q \in Seq(Messages) /\ DOMAIN q = 1 .. Len(n) + 1 /\ Len(q) = Len(n) + 1
         /\ DOMAIN n = 1 .. Len(n) /\ Len(n) \in Nat
         /\ \A i \in DOMAIN n : q[i] = n[i]
         /\ q[Len(n) + 1] = m
OBVIOUS

LEMMA SentTwo ==
  ASSUME NEW n \in Seq(Messages), NEW l \in Messages, NEW m \in Messages,
         NEW q, q = n \o <<l, m>>
  PROVE  q = Append(Append(n, l), m)
<1>1. /\ <<l, m>> \in Seq(Messages) /\ Len(<<l, m>>) = 2
      /\ <<l, m>>[1] = l /\ <<l, m>>[2] = m
  OBVIOUS
<1> DEFINE w == Append(n, l)
           r == Append(w, m)
<1>2. /\ w \in Seq(Messages) /\ Len(w) = Len(n) + 1 /\ w[Len(n) + 1] = l
      /\ \A i \in 1 .. Len(n) : w[i] = n[i]
  BY Sent
<1>3. /\ r \in Seq(Messages) /\ Len(r) = Len(n) + 2 /\ r[Len(n) + 2] = m
      /\ \A i \in 1 .. Len(n) + 1 : r[i] = w[i]
  <2> HIDE DEF w
  <2> QED BY <1>2, Sent
<1> DEFINE two == <<l, m>>
<1>4. /\ q \in Seq(Messages) /\ Len(q) = Len(n) + 2
      /\ \A i \in 1 .. Len(n) + 2 : q[i] = IF i <= Len(n) THEN n[i] ELSE two[i - Len(n)]
  <2>1. two \in Seq(Messages) /\ Len(two) = 2
    BY <1>1
  <2>2. q = n \o two
    OBVIOUS
  <2> HIDE DEF two
  <2>3. QED
    BY <2>1, <2>2
<1>5. two[1] = l /\ two[2] = m
  BY <1>1
<1> HIDE DEF w, r, two
<1>6. \A i \in 1 .. Len(n) + 2 : q[i] = r[i]
  <2> SUFFICES ASSUME NEW i \in 1 .. Len(n) + 2 PROVE q[i] = r[i]
    OBVIOUS
  <2>1. Len(n) \in Nat
    OBVIOUS
  <2>2. CASE i \in 1 .. Len(n)
    BY <1>2, <1>3, <1>4, <2>1, <2>2
  <2>3. CASE i = Len(n) + 1
    BY <1>2, <1>3, <1>4, <1>5, <2>1, <2>3
  <2>4. CASE i = Len(n) + 2
    BY <1>2, <1>3, <1>4, <1>5, <2>1, <2>4
  <2>5. QED
    BY <2>1, <2>2, <2>3, <2>4
<1>7. q = r
  BY <1>3, <1>4, <1>6, SeqEqual
<1>8. QED
  BY <1>7 DEF r, w

LEMMA HandledOne ==
  ASSUME NEW n \in Seq(Messages), n # <<>>, NEW q, q = Tail(n)
  PROVE  /\ q \in Seq(Messages) /\ Len(n) \in Nat \ {0} /\ Len(q) = Len(n) - 1
         /\ Head(n) = n[1] /\ n[1] \in Messages
         /\ DOMAIN n = 1 .. Len(n) /\ DOMAIN q = 1 .. Len(n) - 1
         /\ \A i \in DOMAIN q : q[i] = n[i + 1] /\ i + 1 \in DOMAIN n
OBVIOUS

HasNuked(n) == \E i \in DOMAIN n : n[i].type = "nuked"

LEMMA NewsOfEntry ==
  ASSUME NEW k \in Nat, NEW last \in Nat, NEW n \in Seq(Messages), News(k, n, last),
         NEW e \in Entries, e.serial = last + 1, NEW q, q = Append(n, EntryMessage(e))
  PROVE  News(k, q, last + 1) /\ (HasNuked(n) <=> HasNuked(q))
<1> DEFINE m == EntryMessage(e)
           L == Len(n) + 1
<1>1. m \in Messages /\ m.type = "entry" /\ m.entry = e
  BY MessagesAre
<1> HIDE DEF m
<1>2. /\ q \in Seq(Messages) /\ DOMAIN q = 1 .. L /\ Len(n) \in Nat /\ DOMAIN n = 1 .. Len(n)
      /\ (\A i \in DOMAIN n : q[i] = n[i]) /\ q[L] = m
  BY <1>1, Sent DEF m
<1>3. \A i \in DOMAIN q : i \in DOMAIN n \/ i = L
  BY <1>2
<1>4. \A i \in DOMAIN n : n[i] \in Messages /\ i < L /\ i \in DOMAIN q
  BY <1>2
<1>5. \A i \in DOMAIN n : n[i].type = "entry" => n[i].entry.serial \in Nat
  BY <1>4, MessagesAre DEF Entries
<1>6. HasNuked(n) <=> HasNuked(q)
  BY <1>1, <1>2, <1>3, <1>4 DEF HasNuked
<1>7. ASSUME NEW i \in DOMAIN q, q[i].type = "entry"
      PROVE  /\ q[i].entry.serial <= last + 1 /\ k < q[i].entry.serial
             /\ \A j \in DOMAIN q : i < j /\ q[j].type = "entry"
                  => q[i].entry.serial < q[j].entry.serial
  <2>1. CASE i = L
    <3>1. q[i].entry.serial = last + 1 /\ k <= last
      BY <1>1, <1>2, <2>1 DEF News
    <3>2. \A j \in DOMAIN q : ~ (i < j)
      BY <1>2, <2>1
    <3>3. QED
      BY <3>1, <3>2
  <2>2. CASE i \in DOMAIN n
    <3>1. q[i] = n[i] /\ n[i].entry.serial \in Nat
      BY <1>2, <1>5, <1>7, <2>2
    <3>2. n[i].entry.serial <= last /\ k < n[i].entry.serial
      BY <1>7, <2>2, <3>1 DEF News
    <3>3. ASSUME NEW j \in DOMAIN q, i < j, q[j].type = "entry"
          PROVE  q[i].entry.serial < q[j].entry.serial
      <4>1. CASE j = L
        BY <1>1, <1>2, <3>1, <3>2, <4>1
      <4>2. CASE j \in DOMAIN n
        BY <1>2, <1>7, <2>2, <3>1, <3>3, <4>2 DEF News
      <4>3. QED
        BY <1>3, <4>1, <4>2
    <3>4. QED
      BY <3>1, <3>2, <3>3
  <2>3. QED
    BY <1>3, <2>1, <2>2
<1>8. k <= last + 1
  BY DEF News
<1>9. QED
  BY <1>6, <1>7, <1>8 DEF News

LEMMA NewsOfNuked ==
  ASSUME NEW k \in Nat, NEW last \in Nat, NEW n \in Seq(Messages), News(k, n, last),
         NEW q, q = Append(n, NukedMessage)
  PROVE  News(k, q, last) /\ HasNuked(q)
<1> DEFINE m == NukedMessage
           L == Len(n) + 1
<1>1. m \in Messages /\ m.type = "nuked"
  BY MessagesAre
<1> HIDE DEF m
<1>2. /\ q \in Seq(Messages) /\ DOMAIN q = 1 .. L /\ Len(n) \in Nat /\ DOMAIN n = 1 .. Len(n)
      /\ (\A i \in DOMAIN n : q[i] = n[i]) /\ q[L] = m
  BY <1>1, Sent DEF m
<1>3. \A i \in DOMAIN q : q[i].type = "entry" => i \in DOMAIN n /\ q[i] = n[i]
  BY <1>1, <1>2
<1>4. HasNuked(q)
  BY <1>1, <1>2 DEF HasNuked
<1>5. News(k, q, last)
  BY <1>3 DEF News
<1>6. QED
  BY <1>4, <1>5

LEMMA NewsOfHandled ==
  ASSUME NEW k \in Nat, NEW last \in Nat, NEW n \in Seq(Messages), News(k, n, last), n # <<>>
  PROVE  /\ News(k, Tail(n), last) /\ News(0, Tail(n), last)
         /\ Head(n).type = "entry" => News(k + 1, Tail(n), last)
         /\ HasNuked(Tail(n)) => HasNuked(n)
         /\ Head(n).type = "entry" /\ HasNuked(n) => HasNuked(Tail(n))
<1> DEFINE q == Tail(n)
<1>1. /\ q \in Seq(Messages) /\ Len(n) \in Nat \ {0} /\ Len(q) = Len(n) - 1
      /\ Head(n) = n[1] /\ n[1] \in Messages
      /\ DOMAIN n = 1 .. Len(n) /\ DOMAIN q = 1 .. Len(n) - 1
      /\ \A i \in DOMAIN q : q[i] = n[i + 1] /\ i + 1 \in DOMAIN n
  BY HandledOne
<1> HIDE DEF q
<1>2. \A i \in DOMAIN n : n[i] \in Messages /\ i \in Nat
  BY <1>1
<1>3. \A i \in DOMAIN n : n[i].type = "entry" => n[i].entry.serial \in Nat
  BY <1>2, MessagesAre DEF Entries
<1>4. ASSUME NEW i \in DOMAIN q, q[i].type = "entry"
      PROVE  /\ q[i].entry.serial \in Nat /\ q[i].entry.serial <= last /\ k < q[i].entry.serial
             /\ n[1].type = "entry" => n[1].entry.serial \in Nat /\ k < n[1].entry.serial
                  /\ n[1].entry.serial < q[i].entry.serial
             /\ \A j \in DOMAIN q : i < j /\ q[j].type = "entry"
                  => q[i].entry.serial < q[j].entry.serial
  <2>1. i + 1 \in DOMAIN n /\ q[i] = n[i + 1] /\ 1 \in DOMAIN n /\ 1 < i + 1
    BY <1>1
  <2>2. q[i].entry.serial \in Nat /\ q[i].entry.serial <= last /\ k < q[i].entry.serial
    BY <1>3, <1>4, <2>1 DEF News
  <2>3. n[1].type = "entry" => n[1].entry.serial \in Nat /\ k < n[1].entry.serial
             /\ n[1].entry.serial < q[i].entry.serial
    BY <1>3, <1>4, <2>1 DEF News
  <2>4. ASSUME NEW j \in DOMAIN q, i < j, q[j].type = "entry"
        PROVE  q[i].entry.serial < q[j].entry.serial
    <3>1. j + 1 \in DOMAIN n /\ q[j] = n[j + 1] /\ i + 1 < j + 1
      BY <1>1, <2>4
    <3>2. QED
      BY <1>4, <2>1, <2>4, <3>1 DEF News
  <2>5. QED
    BY <2>2, <2>3, <2>4
<1>5. n[1].type = "entry" => n[1].entry.serial \in Nat /\ k < n[1].entry.serial
           /\ n[1].entry.serial <= last
  BY <1>1, <1>3 DEF News
<1>6. k <= last /\ 0 <= last
  BY DEF News
<1>7. News(k, q, last)
  BY <1>4, <1>6 DEF News
<1>8. News(0, q, last)
  BY <1>4, <1>6 DEF News
<1>9. Head(n).type = "entry" => News(k + 1, q, last)
  BY <1>1, <1>4, <1>5, <1>6 DEF News
<1>10. HasNuked(q) => HasNuked(n)
  BY <1>1 DEF HasNuked
<1>11. ASSUME Head(n).type = "entry", HasNuked(n)
       PROVE  HasNuked(q)
  <2>1. PICK i \in DOMAIN n : n[i].type = "nuked"
    BY <1>11 DEF HasNuked
  <2>2. i # 1
    BY <1>1, <1>11, <2>1
  <2>3. i - 1 \in DOMAIN q /\ q[i - 1] = n[i - 1 + 1] /\ i - 1 + 1 = i
    BY <1>1, <2>2
  <2>4. QED
    BY <2>1, <2>3 DEF HasNuked
<1>12. QED
  BY <1>7, <1>8, <1>9, <1>10, <1>11 DEF q

LEMMA NukedIs == Nuked <=> HasNuked(net)
BY DEF Nuked, HasNuked

-----------------------------------------------------------------------------
(* The daemon's steps.                                                     *)

viewerVars == <<opened, filter, form, model, tree, frozen, failed>>

LEMMA BoundsAre ==
  ASSUME TypeInv
  PROVE  /\ stored \in Nat /\ stored <= MaxStored /\ MaxStored \in Nat
         /\ model.numNew \in Nat /\ net \in Seq(Messages) /\ WellFormed(db)
<1>1. MaxStored \in Nat
  BY EntryModelAssumption
<1>2. IsModel(model) /\ stored \in 0 .. MaxStored /\ net \in Seq(Messages) /\ WellFormed(db)
  BY DEF TypeInv
<1>3. model.numNew \in Nat
  BY <1>2 DEF IsModel, Models
<1>4. QED
  BY <1>1, <1>2, <1>3

LEMMA StoresKeepsTable ==
  ASSUME TableInv, NEW kind \in Kinds, Stores(kind), UNCHANGED viewerVars
  PROVE  TableInv'
<1> DEFINE e == NewEntry(db, kind, stored + 1)
<1>1. /\ stored \in Nat /\ model.numNew \in Nat /\ net \in Seq(Messages) /\ WellFormed(db)
      /\ stored' = stored + 1 /\ stored' \in 0 .. MaxStored
  <2>1. stored < MaxStored /\ stored' = stored + 1 /\ TypeInv
    BY DEF TableInv, Stores
  <2>2. QED
    BY <2>1, BoundsAre
<1>2. db' = With(db, e) /\ net' = Append(net, EntryMessage(e))
  BY DEF Stores
<1>3. /\ e \in Entries /\ e.id = db.last + 1 /\ e.serial = stored + 1
      /\ WellFormed(db')
      /\ db'.entries = db.entries \cup {e} /\ db'.last = db.last + 1
      /\ db.groups \subseteq db'.groups
  <2> DEFINE serial == stored + 1
  <2>1. serial \in Nat /\ e = NewEntry(db, kind, serial)
    BY <1>1
  <2> HIDE DEF serial, e
  <2>2. /\ e \in Entries /\ e.id = db.last + 1 /\ e.serial = serial
        /\ WellFormed(db')
        /\ db'.entries = db.entries \cup {e} /\ db'.last = db.last + 1
        /\ db'.groups = db.groups \cup KeysOf(kind)
    BY <1>1, <1>2, <2>1, WithIs DEF IsStored
  <2>3. QED
    BY <2>2 DEF serial
<1> HIDE DEF e
<1>4. net' \in Seq(Messages) /\ News(model.numNew, net', stored') /\ (Nuked' <=> Nuked)
  <2>1. EntryMessage(e) \in Messages
    BY <1>3, MessagesAre
  <2>2. News(model.numNew, net, stored)
    BY DEF TableInv, NewsInv
  <2>3. News(model.numNew, net', stored + 1) /\ (HasNuked(net) <=> HasNuked(net'))
    BY <1>1, <1>2, <1>3, <2>2, NewsOfEntry
  <2>4. QED
    BY <1>1, <1>2, <2>1, <2>3 DEF Nuked, HasNuked
<1>5. TypeInv'
  BY <1>1, <1>3, <1>4 DEF TableInv, TypeInv, viewerVars
<1>6. NewsInv'
  BY <1>4 DEF NewsInv, viewerVars
<1>7. RowsInv'
  <2>1. Snapshot(model, filter, db) => Snapshot(model, filter, db')
    BY <1>1, <1>3, SnapshotLasts
  <2>2. QED
    BY <1>4, <2>1 DEF TableInv, RowsInv, viewerVars
<1>8. (~ Nuked => PageTrue(model, db))'
  <2>1. PageTrue(model, db) => PageTrue(model, db')
    BY <1>3, PageLasts
  <2>2. QED
    BY <1>4, <2>1 DEF TableInv, viewerVars
<1>9. RowsAreFound' /\ PendingIsScheduled' /\ FormMatchesFilter'
  BY <1>4 DEF TableInv, RowsAreFound, PendingIsScheduled, FormMatchesFilter, viewerVars
<1>10. QED
  BY <1>5, <1>6, <1>7, <1>8, <1>9 DEF TableInv

LEMMA ArchivesKeepsTable ==
  ASSUME TableInv, NEW kind \in Kinds, NEW keep \in Keeps, Archives(kind, keep),
         UNCHANGED viewerVars
  PROVE  TableInv'
<1> DEFINE e == NewEntry(db, kind, stored + 1)
           d == Archived(db, keep)
           n == Append(net, NukedMessage)
<1>1. /\ stored \in Nat /\ model.numNew \in Nat /\ net \in Seq(Messages) /\ WellFormed(db)
      /\ stored' = stored + 1 /\ stored' \in 0 .. MaxStored /\ keep \in Nat
  <2>1. stored < MaxStored /\ stored' = stored + 1 /\ TypeInv
    BY DEF TableInv, Archives
  <2>2. Keeps \subseteq Nat
    BY EntryModelAssumption
  <2>3. QED
    BY <2>1, <2>2, BoundsAre
<1>2. WellFormed(d) /\ d.last = db.last
  BY <1>1, KeptIs DEF IsKept
<1>3. db' = With(d, e) /\ net' = net \o <<NukedMessage, EntryMessage(e)>>
  BY DEF Archives
<1>4. e = NewEntry(d, kind, stored + 1)
  BY <1>2 DEF NewEntry
<1> HIDE DEF d, e
<1>5. e \in Entries /\ e.serial = stored + 1 /\ WellFormed(db')
  <2> DEFINE serial == stored + 1
  <2>1. serial \in Nat /\ e = NewEntry(d, kind, serial)
    BY <1>1, <1>4
  <2> HIDE DEF serial
  <2>2. e \in Entries /\ e.serial = serial /\ WellFormed(db')
    BY <1>2, <1>3, <2>1, WithIs DEF IsStored
  <2>3. QED
    BY <2>2 DEF serial
<1>6. net' = Append(n, EntryMessage(e)) /\ NukedMessage \in Messages /\ EntryMessage(e) \in Messages
  BY <1>1, <1>3, <1>5, MessagesAre, SentTwo
<1>7. n \in Seq(Messages) /\ News(model.numNew, n, stored) /\ HasNuked(n)
  <2>1. News(model.numNew, net, stored)
    BY DEF TableInv, NewsInv
  <2>2. n \in Seq(Messages)
    BY <1>1, <1>6
  <2> DEFINE k == model.numNew
  <2>3. k \in Nat /\ News(k, net, stored)
    BY <1>1, <2>1
  <2> HIDE DEF k, n
  <2>4. News(k, n, stored) /\ HasNuked(n)
    BY <1>1, <2>3, NewsOfNuked DEF n
  <2>5. QED
    BY <2>2, <2>4 DEF k
<1> HIDE DEF n
<1>8. News(model.numNew, net', stored + 1) /\ HasNuked(net') /\ net' \in Seq(Messages)
  <2> DEFINE k == model.numNew
  <2>1. k \in Nat /\ News(k, n, stored)
    BY <1>1, <1>7
  <2> HIDE DEF k
  <2>2. News(k, net', stored + 1) /\ (HasNuked(n) <=> HasNuked(net'))
    BY <1>1, <1>5, <1>6, <1>7, <2>1, NewsOfEntry
  <2>3. net' \in Seq(Messages)
    BY <1>6, <1>7
  <2>4. QED
    BY <1>7, <2>2, <2>3 DEF k
<1>9. Nuked'
  BY <1>8 DEF Nuked, HasNuked
<1>10. TypeInv'
  BY <1>1, <1>5, <1>8 DEF TableInv, TypeInv, viewerVars
<1>11. NewsInv'
  BY <1>1, <1>8 DEF NewsInv, viewerVars
<1>12. PendingIsScheduled' /\ FormMatchesFilter'
  BY DEF TableInv, PendingIsScheduled, FormMatchesFilter, viewerVars
<1>13. QED
  BY <1>9, <1>10, <1>11, <1>12 DEF TableInv, RowsInv, RowsAreFound

LEMMA NukesKeepsTable ==
  ASSUME TableInv, Nukes, UNCHANGED viewerVars
  PROVE  TableInv'
<1>1. /\ stored \in Nat /\ model.numNew \in Nat /\ net \in Seq(Messages) /\ WellFormed(db)
      /\ stored' = stored /\ stored' \in 0 .. MaxStored
  <2>1. stored' = stored /\ TypeInv
    BY DEF TableInv, Nukes
  <2>2. QED
    BY <2>1, BoundsAre
<1>2. db' = [db EXCEPT !.entries = {}, !.last = 0] /\ net' = Append(net, NukedMessage)
  BY DEF Nukes
<1>3. WellFormed(db')
  BY <1>1, <1>2, TrimmedIs
<1>4. News(model.numNew, net', stored) /\ HasNuked(net') /\ net' \in Seq(Messages)
  <2> DEFINE k == model.numNew
  <2>1. k \in Nat /\ News(k, net, stored)
    BY <1>1 DEF TableInv, NewsInv
  <2> HIDE DEF k
  <2>2. News(k, net', stored) /\ HasNuked(net')
    BY <1>1, <1>2, <2>1, NewsOfNuked
  <2>3. net' \in Seq(Messages)
    BY <1>1, <1>2, MessagesAre
  <2>4. QED
    BY <2>2, <2>3 DEF k
<1>5. Nuked'
  BY <1>4 DEF Nuked, HasNuked
<1>6. TypeInv'
  BY <1>1, <1>3, <1>4 DEF TableInv, TypeInv, viewerVars
<1>7. NewsInv'
  BY <1>1, <1>4 DEF NewsInv, viewerVars
<1>8. PendingIsScheduled' /\ FormMatchesFilter'
  BY DEF TableInv, PendingIsScheduled, FormMatchesFilter, viewerVars
<1>9. QED
  BY <1>5, <1>6, <1>7, <1>8 DEF TableInv, RowsInv, RowsAreFound

-----------------------------------------------------------------------------
(* The viewer's steps that handle no message.                              *)

TableScheduled(m) == m.numNew > 0 /\ ~ m.suspended => m.timer
TreeScheduled(t) == t.dirty /\ t.visible /\ ~ t.suspended => t.timer
FormMatches(fm, f) == fm.edited \/ \A k \in DOMAIN fm.keys : fm.keys[k] <=> k \notin f.inactive

LEMMA InvIs ==
  ASSUME TableInv
  PROVE  /\ IsModel(model) /\ IsTree(tree) /\ WellFormed(db) /\ filter \in Filters /\ form \in Forms
         /\ net \in Seq(Messages) /\ News(model.numNew, net, stored)
         /\ stored \in Nat /\ model.numNew \in Nat /\ stored \in 0 .. MaxStored
         /\ ~ Nuked => Snapshot(model, filter, db) /\ PageTrue(model, db)
         /\ failed # "no" => Nuked
         /\ failed \in {"no", "rowNotFound"}
         /\ TableScheduled(model) /\ TreeScheduled(tree) /\ FormMatches(form, filter)
<1>1. TypeInv
  BY DEF TableInv
<1>2. stored \in Nat /\ model.numNew \in Nat
  BY <1>1, BoundsAre
<1>3. TableScheduled(model) /\ TreeScheduled(tree) /\ FormMatches(form, filter)
  BY DEF TableInv, PendingIsScheduled, FormMatchesFilter, TableScheduled, TreeScheduled, FormMatches
<1>4. (~ Nuked => Snapshot(model, filter, db) /\ PageTrue(model, db)) /\ (failed # "no" => Nuked)
  BY DEF TableInv, RowsInv, RowsAreFound
<1>5. News(model.numNew, net, stored)
  BY DEF TableInv, NewsInv
<1>6. QED
  BY <1>1, <1>2, <1>3, <1>4, <1>5 DEF TypeInv

LEMMA FewerNews ==
  ASSUME NEW k \in Nat, NEW j \in Nat, j <= k, NEW n \in Seq(Messages), NEW last \in Nat,
         News(k, n, last)
  PROVE  News(j, n, last)
<1>1. \A i \in DOMAIN n : n[i].type = "entry" => n[i].entry.serial \in Nat
  BY MessagesAre DEF Entries
<1>2. QED
  BY <1>1 DEF News

LEMMA ViewerKeepsTable ==
  ASSUME TableInv, UNCHANGED daemonVars,
         filter' \in Filters, form' \in Forms, IsModel(model'), IsTree(tree'),
         failed' \in {"no", "rowNotFound"}, failed' # "no" => Nuked,
         model'.numNew \in Nat, model'.numNew <= model.numNew,
         ~ Nuked => Snapshot(model', filter', db) /\ PageTrue(model', db),
         TableScheduled(model'), TreeScheduled(tree'), FormMatches(form', filter')
  PROVE  TableInv'
<1>1. db' = db /\ net' = net /\ stored' = stored /\ (Nuked' <=> Nuked)
  BY DEF daemonVars, Nuked
<1>2. /\ WellFormed(db) /\ net \in Seq(Messages) /\ News(model.numNew, net, stored)
      /\ stored \in Nat /\ model.numNew \in Nat /\ stored \in 0 .. MaxStored
  BY InvIs
<1>3. TypeInv'
  BY <1>1, <1>2 DEF TypeInv
<1>4. NewsInv'
  <2> DEFINE k == model.numNew
             j == model'.numNew
  <2>1. k \in Nat /\ j \in Nat /\ j <= k /\ News(k, net, stored)
    BY <1>2
  <2> HIDE DEF k, j
  <2>2. News(j, net, stored)
    BY <1>2, <2>1, FewerNews
  <2>3. QED
    BY <1>1, <2>2 DEF NewsInv, j
<1>5. RowsInv' /\ (~ Nuked => PageTrue(model, db))' /\ RowsAreFound'
  BY <1>1 DEF RowsInv, RowsAreFound
<1>6. PendingIsScheduled' /\ FormMatchesFilter'
  BY DEF PendingIsScheduled, FormMatchesFilter, TableScheduled, TreeScheduled, FormMatches
<1>7. QED
  BY <1>3, <1>4, <1>5, <1>6 DEF TableInv

LEMMA Unscheduled ==
  /\ \A m : m.numNew = 0 => TableScheduled(m)
  /\ \A m : m.suspended = TRUE => TableScheduled(m)
  /\ \A t : ~ (t.dirty /\ t.visible) => TreeScheduled(t)
  /\ \A t : t.suspended = TRUE => TreeScheduled(t)
BY DEF TableScheduled, TreeScheduled

LEMMA ModelTimeoutKeepsTable ==
  ASSUME TableInv, ModelTimeout
  PROVE  TableInv'
<1> DEFINE w == [model EXCEPT !.timer = FALSE]
<1>1. /\ UNCHANGED daemonVars /\ model' = insertNewTraceEntries(w, filter, db)
      /\ filter' = filter /\ form' = form /\ tree' = tree /\ failed' = failed
  BY DEF ModelTimeout, Viewer
<1>2. /\ IsModel(model) /\ IsTree(tree) /\ WellFormed(db) /\ filter \in Filters /\ form \in Forms
      /\ model.numNew \in Nat
      /\ ~ Nuked => Snapshot(model, filter, db) /\ PageTrue(model, db)
      /\ (failed # "no" => Nuked) /\ failed \in {"no", "rowNotFound"}
      /\ TreeScheduled(tree) /\ FormMatches(form, filter)
  BY InvIs
<1>3. IsModel(w) /\ SameRows(w, model) /\ w.numNew = model.numNew
  BY <1>2, TimerSet
<1> HIDE DEF w
<1> DEFINE q == insertNewTraceEntries(w, filter, db)
<1>a. /\ IsModel(q) /\ q.numNew = 0
      /\ w.numNew = 0 => q = w
      /\ w.numNew # 0 => Complete(q, filter, db) /\ PageTrue(q, db)
  BY <1>2, <1>3, InsertedIs
<1>b. model' = q
  BY <1>1
<1> HIDE DEF q
<1>4. /\ IsModel(model') /\ model'.numNew = 0
      /\ w.numNew = 0 => model' = w
      /\ w.numNew # 0 => Complete(model', filter, db) /\ PageTrue(model', db)
  BY <1>a, <1>b
<1>5. ~ Nuked => Snapshot(model', filter', db) /\ PageTrue(model', db)
  BY <1>1, <1>2, <1>3, <1>4, SameRowsShow, CompleteIsSnapshot
<1>6. TableScheduled(model') /\ model'.numNew \in Nat /\ model'.numNew <= model.numNew
  BY <1>2, <1>4, Unscheduled
<1>7. QED
  BY <1>1, <1>2, <1>4, <1>5, <1>6, ViewerKeepsTable

LEMMA TreeTimeoutKeepsTable ==
  ASSUME TableInv, TreeTimeout
  PROVE  TableInv'
<1> DEFINE w == [tree EXCEPT !.timer = FALSE]
<1>1. /\ UNCHANGED daemonVars /\ tree' = showNewTraceEntries(w, filter, db)
      /\ filter' = filter /\ form' = form /\ model' = model /\ failed' = failed
  BY DEF TreeTimeout, Viewer
<1>2. /\ IsModel(model) /\ IsTree(tree) /\ WellFormed(db) /\ filter \in Filters /\ form \in Forms
      /\ model.numNew \in Nat
      /\ ~ Nuked => Snapshot(model, filter, db) /\ PageTrue(model, db)
      /\ (failed # "no" => Nuked) /\ failed \in {"no", "rowNotFound"}
      /\ TableScheduled(model) /\ FormMatches(form, filter)
  BY InvIs
<1>3. IsTree(w) /\ w.dirty = tree.dirty /\ w.visible = tree.visible /\ w.suspended = tree.suspended
  BY <1>2, TreeFieldSet
<1> HIDE DEF w
<1> DEFINE q == showNewTraceEntries(w, filter, db)
<1>a. /\ IsTree(q) /\ (w.dirty /\ w.visible => ~ q.dirty)
      /\ (~ (w.dirty /\ w.visible) => q = w)
  BY <1>2, <1>3, ShownIs
<1>b. tree' = q
  BY <1>1
<1> HIDE DEF q
<1>4. IsTree(tree') /\ ~ (tree'.dirty /\ tree'.visible)
  BY <1>a, <1>b
<1>5. TreeScheduled(tree')
  BY <1>4, Unscheduled
<1>6. model'.numNew \in Nat /\ model'.numNew <= model.numNew
  BY <1>1, <1>2
<1>7. ~ Nuked => Snapshot(model', filter', db) /\ PageTrue(model', db)
  BY <1>1, <1>2
<1>8. QED
  BY <1>1, <1>2, <1>4, <1>5, <1>6, <1>7, ViewerKeepsTable

LEMMA FreezeKeepsTable ==
  ASSUME TableInv, Freeze
  PROVE  TableInv'
<1>1. /\ UNCHANGED daemonVars
      /\ model' = [model EXCEPT !.suspended = TRUE] /\ tree' = [tree EXCEPT !.suspended = TRUE]
      /\ filter' = filter /\ form' = form /\ failed' = failed
  BY DEF Freeze, Viewer
<1>2. /\ IsModel(model) /\ IsTree(tree) /\ WellFormed(db) /\ filter \in Filters /\ form \in Forms
      /\ model.numNew \in Nat
      /\ ~ Nuked => Snapshot(model, filter, db) /\ PageTrue(model, db)
      /\ (failed # "no" => Nuked) /\ failed \in {"no", "rowNotFound"}
      /\ FormMatches(form, filter)
  BY InvIs
<1>3. IsModel(model') /\ SameRows(model', model) /\ model'.numNew = model.numNew
      /\ model'.suspended = TRUE
  BY <1>1, <1>2, SuspendedSet
<1>4. IsTree(tree') /\ tree'.suspended = TRUE
  BY <1>1, <1>2, TreeFieldSet
<1>5. TableScheduled(model') /\ TreeScheduled(tree') /\ model'.numNew \in Nat
      /\ model'.numNew <= model.numNew
  BY <1>2, <1>3, <1>4, Unscheduled
<1>6. ~ Nuked => Snapshot(model', filter', db) /\ PageTrue(model', db)
  BY <1>1, <1>2, <1>3, SameRowsShow
<1>7. QED
  BY <1>1, <1>2, <1>3, <1>4, <1>5, <1>6, ViewerKeepsTable

LEMMA ResumeKeepsTable ==
  ASSUME TableInv, Resume
  PROVE  TableInv'
<1> DEFINE w == [model EXCEPT !.suspended = FALSE]
           v == [tree EXCEPT !.suspended = FALSE]
<1>1. /\ UNCHANGED daemonVars
      /\ model' = insertNewTraceEntries(w, filter, db) /\ tree' = showNewTraceEntries(v, filter, db)
      /\ filter' = filter /\ form' = form /\ failed' = failed
  BY DEF Resume, Viewer, Resumed
<1>2. /\ IsModel(model) /\ IsTree(tree) /\ WellFormed(db) /\ filter \in Filters /\ form \in Forms
      /\ model.numNew \in Nat
      /\ ~ Nuked => Snapshot(model, filter, db) /\ PageTrue(model, db)
      /\ (failed # "no" => Nuked) /\ failed \in {"no", "rowNotFound"}
      /\ FormMatches(form, filter)
  BY InvIs
<1>3. IsModel(w) /\ SameRows(w, model) /\ w.numNew = model.numNew
  BY <1>2, SuspendedSet
<1>4. IsTree(v)
  BY <1>2, TreeFieldSet
<1> HIDE DEF w, v
<1> DEFINE q == insertNewTraceEntries(w, filter, db)
           r == showNewTraceEntries(v, filter, db)
<1>a. /\ IsModel(q) /\ q.numNew = 0
      /\ w.numNew = 0 => q = w
      /\ w.numNew # 0 => Complete(q, filter, db) /\ PageTrue(q, db)
  BY <1>2, <1>3, InsertedIs
<1>b. /\ IsTree(r) /\ (v.dirty /\ v.visible => ~ r.dirty)
      /\ (~ (v.dirty /\ v.visible) => r = v)
  BY <1>2, <1>4, ShownIs
<1>c. model' = q /\ tree' = r
  BY <1>1
<1> HIDE DEF q, r
<1>5. /\ IsModel(model') /\ model'.numNew = 0
      /\ w.numNew = 0 => model' = w
      /\ w.numNew # 0 => Complete(model', filter, db) /\ PageTrue(model', db)
  BY <1>a, <1>c
<1>6. IsTree(tree') /\ ~ (tree'.dirty /\ tree'.visible)
  BY <1>b, <1>c
<1>7. TableScheduled(model') /\ TreeScheduled(tree') /\ model'.numNew \in Nat
      /\ model'.numNew <= model.numNew
  BY <1>2, <1>5, <1>6, Unscheduled
<1>8. ~ Nuked => Snapshot(model', filter', db) /\ PageTrue(model', db)
  BY <1>1, <1>2, <1>3, <1>5, SameRowsShow, CompleteIsSnapshot
<1>9. QED
  BY <1>1, <1>2, <1>5, <1>6, <1>7, <1>8, ViewerKeepsTable

LEMMA PaintKeepsTable ==
  ASSUME TableInv, NEW row \in Nat, Paint(row)
  PROVE  TableInv'
<1> DEFINE q == queryForEntries(model, filter, db, row)
           m == IF InPage(model, row) THEN model ELSE q
<1>1. /\ UNCHANGED daemonVars /\ failed = "no" /\ row < RowCount(model)
      /\ model' = m /\ failed' = IF InPage(m, row) THEN "no" ELSE "rowNotFound"
      /\ filter' = filter /\ form' = form /\ tree' = tree
  BY DEF Paint, Viewer
<1>2. /\ IsModel(model) /\ IsTree(tree) /\ WellFormed(db) /\ filter \in Filters /\ form \in Forms
      /\ model.numNew \in Nat
      /\ ~ Nuked => Snapshot(model, filter, db) /\ PageTrue(model, db)
      /\ TableScheduled(model) /\ TreeScheduled(tree) /\ FormMatches(form, filter)
  BY InvIs
<1>3. q = queryForEntries(model, filter, db, row)
  OBVIOUS
<1> HIDE DEF q
<1>4. IsModel(q) /\ SameNews(q, model)
  BY <1>1, <1>2, <1>3, QueryType
<1>5. ~ Nuked => PageTrue(q, db) /\ InPage(q, row) /\ Ids(q) = Ids(model)
  BY <1>1, <1>2, <1>3, QueryPages
<1>6. /\ IsModel(m) /\ m.numNew = model.numNew /\ TableScheduled(m)
      /\ ~ Nuked => PageTrue(m, db) /\ InPage(m, row) /\ Ids(m) = Ids(model)
  BY <1>2, <1>4, <1>5 DEF SameNews, TableScheduled
<1> HIDE DEF m
<1>7. ~ Nuked => Snapshot(m, filter, db)
  BY <1>2, <1>6 DEF Snapshot
<1>8. failed' \in {"no", "rowNotFound"} /\ (failed' # "no" => Nuked)
  BY <1>1, <1>6
<1>9. model'.numNew \in Nat /\ model'.numNew <= model.numNew
  BY <1>1, <1>2, <1>6
<1>10. /\ ~ Nuked => Snapshot(model', filter', db) /\ PageTrue(model', db)
       /\ TableScheduled(model') /\ IsModel(model')
  BY <1>1, <1>6, <1>7
<1>11. QED
  BY <1>1, <1>2, <1>8, <1>9, <1>10, ViewerKeepsTable

LEMMA ShowTreeKeepsTable ==
  ASSUME TableInv, ShowTree
  PROVE  TableInv'
<1> DEFINE w == [tree EXCEPT !.visible = TRUE]
           q == TreeReApplied(w, filter, db)
<1>1. /\ UNCHANGED daemonVars /\ tree' = IF tree.dirty THEN q ELSE w
      /\ filter' = filter /\ form' = form /\ model' = model /\ failed' = failed
  BY DEF ShowTree, Viewer
<1>2. /\ IsModel(model) /\ IsTree(tree) /\ WellFormed(db) /\ filter \in Filters /\ form \in Forms
      /\ model.numNew \in Nat
      /\ ~ Nuked => Snapshot(model, filter, db) /\ PageTrue(model, db)
      /\ (failed # "no" => Nuked) /\ failed \in {"no", "rowNotFound"}
      /\ TableScheduled(model) /\ FormMatches(form, filter)
  BY InvIs
<1>3. IsTree(w) /\ w.dirty = tree.dirty /\ w.visible = TRUE
  BY <1>2, TreeFieldSet
<1>4. q = TreeReApplied(w, filter, db)
  OBVIOUS
<1> HIDE DEF q, w
<1>5. IsTree(q) /\ ~ q.dirty
  BY <1>2, <1>3, <1>4, ReAppliedIs
<1>6. IsTree(tree') /\ ~ (tree'.dirty /\ tree'.visible)
  BY <1>1, <1>3, <1>5
<1>7. TreeScheduled(tree')
  BY <1>6, Unscheduled
<1>8. model'.numNew \in Nat /\ model'.numNew <= model.numNew
  BY <1>1, <1>2
<1>9. ~ Nuked => Snapshot(model', filter', db) /\ PageTrue(model', db)
  BY <1>1, <1>2
<1>10. QED
  BY <1>1, <1>2, <1>6, <1>7, <1>8, <1>9, ViewerKeepsTable

LEMMA HideTreeKeepsTable ==
  ASSUME TableInv, HideTree
  PROVE  TableInv'
<1>1. /\ UNCHANGED daemonVars /\ tree' = [tree EXCEPT !.visible = FALSE]
      /\ filter' = filter /\ form' = form /\ model' = model /\ failed' = failed
  BY DEF HideTree, Viewer
<1>2. /\ IsModel(model) /\ IsTree(tree) /\ WellFormed(db) /\ filter \in Filters /\ form \in Forms
      /\ model.numNew \in Nat
      /\ ~ Nuked => Snapshot(model, filter, db) /\ PageTrue(model, db)
      /\ (failed # "no" => Nuked) /\ failed \in {"no", "rowNotFound"}
      /\ TableScheduled(model) /\ FormMatches(form, filter)
  BY InvIs
<1>3. IsTree(tree') /\ tree'.visible = FALSE
  BY <1>1, <1>2, TreeFieldSet
<1>4. TreeScheduled(tree')
  BY <1>3, Unscheduled
<1>5. model'.numNew \in Nat /\ model'.numNew <= model.numNew
  BY <1>1, <1>2
<1>6. ~ Nuked => Snapshot(model', filter', db) /\ PageTrue(model', db)
  BY <1>1, <1>2
<1>7. QED
  BY <1>1, <1>2, <1>3, <1>4, <1>5, <1>6, ViewerKeepsTable

LEMMA CheckKeyKeepsTable ==
  ASSUME TableInv, NEW key, CheckKey(key)
  PROVE  TableInv'
<1>1. /\ UNCHANGED daemonVars /\ key \in DOMAIN form.keys
      /\ form' = [form EXCEPT !.keys[key] = ~ @, !.edited = TRUE]
      /\ filter' = filter /\ tree' = tree /\ model' = model /\ failed' = failed
  BY DEF CheckKey, Viewer
<1>2. /\ IsModel(model) /\ IsTree(tree) /\ WellFormed(db) /\ filter \in Filters /\ form \in Forms
      /\ model.numNew \in Nat
      /\ ~ Nuked => Snapshot(model, filter, db) /\ PageTrue(model, db)
      /\ (failed # "no" => Nuked) /\ failed \in {"no", "rowNotFound"}
      /\ TableScheduled(model) /\ TreeScheduled(tree)
  BY InvIs
<1> DEFINE q == [form EXCEPT !.keys[key] = ~ @, !.edited = TRUE]
<1>a. q = Clicked(form, key)
  BY DEF Clicked
<1>b. form' = q
  BY <1>1
<1> HIDE DEF q
<1>c. q \in Forms /\ q.edited = TRUE
  BY <1>1, <1>2, <1>a, KeyChecked
<1>3. form' \in Forms /\ FormMatches(form', filter')
  BY <1>b, <1>c DEF FormMatches
<1>4. model'.numNew \in Nat /\ model'.numNew <= model.numNew
  BY <1>1, <1>2
<1>5. ~ Nuked => Snapshot(model', filter', db) /\ PageTrue(model', db)
  BY <1>1, <1>2
<1>6. QED
  BY <1>1, <1>2, <1>3, <1>4, <1>5, ViewerKeepsTable

LEMMA ApplyKeepsTable ==
  ASSUME TableInv, NEW text \in Texts, NEW pid \in Pids, NEW b \in BOOLEAN, Apply(text, pid, b)
  PROVE  TableInv'
<1> DEFINE off == {k \in DOMAIN form.keys : ~ form.keys[k]}
           f == [text |-> text, pid |-> pid, withoutKey |-> b, inactive |-> off]
           q == Recounted(model, f, db)
           t == TreeReApplied(tree, f, db)
<1>1. /\ UNCHANGED daemonVars /\ failed' = failed /\ filter' = f /\ model' = q /\ tree' = t
      /\ form' = [form EXCEPT !.edited = FALSE]
  BY DEF Apply, Viewer, FilterChanged
<1>2. /\ IsModel(model) /\ IsTree(tree) /\ WellFormed(db) /\ form \in Forms
      /\ model.numNew \in Nat
      /\ (failed # "no" => Nuked) /\ failed \in {"no", "rowNotFound"}
      /\ TableScheduled(model)
  BY InvIs
<1>3. form.keys \in [DOMAIN form.keys -> BOOLEAN] /\ DOMAIN form.keys \in SUBSET Keys
  BY <1>2, KeyListIs DEF Forms
<1>4. f \in Filters /\ f.inactive = off
  <2>1. off \in SUBSET Keys /\ text \in TextCriteria
    BY <1>3, EntryModelAssumption
  <2> HIDE DEF off
  <2>2. QED
    BY <2>1 DEF Filters
<1> HIDE DEF f
<1>5. q = Recounted(model, f, db) /\ t = TreeReApplied(tree, f, db)
  OBVIOUS
<1> HIDE DEF q, t
<1>6. IsModel(q) /\ Complete(q, f, db) /\ PageTrue(q, db) /\ SameNews(q, model)
  BY <1>2, <1>5, RecountedIs
<1>7. IsTree(t) /\ ~ (t.dirty /\ t.visible)
  BY <1>2, <1>5, ReAppliedIs
<1>8. form' \in Forms /\ form'.keys = form.keys
  BY <1>1, <1>2, EditedSet
<1>9. FormMatches(form', filter')
  <2>1. \A k \in DOMAIN form.keys : form.keys[k] <=> k \notin off
    BY <1>3
  <2>2. QED
    BY <1>1, <1>4, <1>8, <2>1 DEF FormMatches
<1>10. model'.numNew \in Nat /\ model'.numNew <= model.numNew
  BY <1>1, <1>2, <1>6 DEF SameNews
<1>11. Snapshot(q, f, db)
  BY <1>2, <1>6, CompleteIsSnapshot
<1>12. TableScheduled(q) /\ TreeScheduled(t)
  BY <1>2, <1>6, <1>7, Unscheduled DEF SameNews, TableScheduled
<1>13. /\ ~ Nuked => Snapshot(model', filter', db) /\ PageTrue(model', db)
       /\ TableScheduled(model') /\ TreeScheduled(tree') /\ IsModel(model') /\ IsTree(tree')
       /\ filter' \in Filters
  BY <1>1, <1>4, <1>6, <1>7, <1>11, <1>12
<1>14. QED
  BY <1>1, <1>2, <1>8, <1>9, <1>10, <1>13, ViewerKeepsTable

-----------------------------------------------------------------------------
(* The viewer's steps that handle a message.                               *)

\* The form, the new keys, the filter, the table and the tree before the entry
\* itself is looked at.
SentKeys == Head(net).entry.kind.traceKeys
FormOf ==
  LET fm == Passed(form, SentKeys)
  IN  IF form.firstEntryPassed THEN fm ELSE SetTraceKeys(fm, {})
NewOnes == NewKeys(FormOf, db.groups)
FilterOf == FilterOfNewKeys(filter, FormOf, NewOnes)
TableOf == IF NewOnes = {} THEN model ELSE Recounted(model, FilterOf, db)
TreeOf == IF NewOnes = {} THEN tree ELSE TreeReApplied(tree, FilterOf, db)

LEMMA EntryHandled ==
  ASSUME HandleNewTraceEntry
  PROVE  /\ failed = "no" /\ net # <<>> /\ Head(net).type = "entry" /\ net' = Tail(net)
         /\ db' = db /\ stored' = stored /\ failed' = failed
         /\ form' = AddTraceKeys(FormOf, db.groups) /\ filter' = FilterOf
         /\ model' = Arrives(TableOf, FilterOf, Head(net).entry)
         /\ tree' = TreeArrives(TreeOf, FilterOf, Head(net).entry)
BY DEF HandleNewTraceEntry, Received, FormOf, NewOnes, FilterOf, TableOf, TreeOf, Passed, SentKeys

LEMMA SentKeysAre ==
  ASSUME net \in Seq(Messages), net # <<>>, Head(net).type = "entry"
  PROVE  SentKeys \in KeyLists
<1>1. Head(net) \in Messages
  OBVIOUS
<1>2. Head(net).entry \in Entries
  BY <1>1 DEF Messages
<1>3. Head(net).entry.kind \in Kinds
  BY <1>2 DEF Entries
<1>4. QED
  BY <1>3, KeysAreKnown DEF SentKeys

LEMMA FormOfIs ==
  ASSUME form \in Forms, SentKeys \in KeyLists
  PROVE  /\ FormOf \in Forms /\ FormOf.edited = form.edited
         /\ DOMAIN FormOf.keys \subseteq DOMAIN form.keys
         /\ \A k \in DOMAIN FormOf.keys : FormOf.keys[k] = form.keys[k]
         /\ form.firstEntryPassed => FormOf.keys = form.keys
<1> DEFINE p == Passed(form, SentKeys)
           none == {}
           q == SetTraceKeys(p, none)
<1>1. p \in Forms /\ p.keys = form.keys /\ p.edited = form.edited
  BY PassedIs
<1>2. none \in SUBSET Keys
  OBVIOUS
<1>3. q = SetTraceKeys(p, none)
  OBVIOUS
<1>4. FormOf = IF form.firstEntryPassed THEN p ELSE q
  BY DEF FormOf
<1> HIDE DEF p, none, q
<1>5. q \in Forms /\ DOMAIN q.keys = none /\ q.edited = p.edited
  BY <1>1, <1>2, <1>3, SetTraceKeysIs
<1>6. QED
  BY <1>1, <1>4, <1>5 DEF none

LEMMA FilterOfIs ==
  ASSUME form \in Forms, filter \in Filters, WellFormed(db)
  PROVE  /\ NewOnes \in SUBSET Keys /\ db.groups \in SUBSET Keys
         /\ FilterOf \in Filters
         /\ FilterOf.text = filter.text /\ FilterOf.pid = filter.pid
         /\ FilterOf.withoutKey = filter.withoutKey
         /\ FilterOf.inactive
              = {k \in filter.inactive \cup NewOnes :
                   k \in NewOnes => ~ KeyActive(FormOf.defaults, k)}
         /\ NewOnes = {} => FilterOf = filter
<1>1. db.groups \in SUBSET Keys
  BY DatabaseIs
<1>2. NewOnes \in SUBSET Keys
  BY <1>1 DEF NewOnes, NewKeys
<1> DEFINE new == NewOnes
           fm == FormOf
<1>3. FilterOf = FilterOfNewKeys(filter, fm, new) /\ new \in SUBSET Keys
  BY <1>2 DEF FilterOf
<1> HIDE DEF new, fm
<1> DEFINE q == FilterOf
<1>4. q = FilterOfNewKeys(filter, fm, new)
  BY <1>3
<1> HIDE DEF q
<1>5. /\ q \in Filters
      /\ q.text = filter.text /\ q.pid = filter.pid /\ q.withoutKey = filter.withoutKey
      /\ q.inactive = {k \in filter.inactive \cup new : k \in new => ~ KeyActive(fm.defaults, k)}
      /\ new = {} => q = filter
  BY <1>3, <1>4, FilterOfNewKeysIs
<1>6. QED
  BY <1>1, <1>2, <1>5 DEF q, new, fm

LEMMA TableOfIs ==
  ASSUME IsModel(model), WellFormed(db)
  PROVE  /\ IsModel(TableOf) /\ SameNews(TableOf, model)
         /\ NewOnes = {} => TableOf = model
         /\ NewOnes # {} => Complete(TableOf, FilterOf, db) /\ PageTrue(TableOf, db)
<1> DEFINE q == Recounted(model, FilterOf, db)
<1>1. q = Recounted(model, FilterOf, db)
  OBVIOUS
<1>2. TableOf = IF NewOnes = {} THEN model ELSE q
  BY DEF TableOf
<1> HIDE DEF q
<1>3. IsModel(q) /\ Complete(q, FilterOf, db) /\ PageTrue(q, db) /\ SameNews(q, model)
  BY <1>1, RecountedIs
<1>4. SameNews(model, model)
  BY DEF SameNews
<1>5. QED
  BY <1>2, <1>3, <1>4

LEMMA TreeOfIs ==
  ASSUME IsTree(tree), WellFormed(db)
  PROVE  /\ IsTree(TreeOf)
         /\ TreeOf.visible = tree.visible /\ TreeOf.timer = tree.timer
         /\ TreeOf.suspended = tree.suspended
         /\ NewOnes = {} => TreeOf = tree
         /\ NewOnes # {} => ~ (TreeOf.dirty /\ TreeOf.visible)
              /\ (~ TreeOf.dirty => Shows(TreeOf, FilterOf, db))
<1> DEFINE q == TreeReApplied(tree, FilterOf, db)
<1>1. q = TreeReApplied(tree, FilterOf, db)
  OBVIOUS
<1>2. TreeOf = IF NewOnes = {} THEN tree ELSE q
  BY DEF TreeOf
<1> HIDE DEF q
<1>3. /\ IsTree(q)
      /\ q.visible = tree.visible /\ q.timer = tree.timer /\ q.suspended = tree.suspended
      /\ tree.visible => ~ q.dirty /\ Shows(q, FilterOf, db)
      /\ ~ tree.visible => q.dirty
  BY <1>1, ReAppliedIs
<1>4. QED
  BY <1>2, <1>3

LEMMA EntryKeepsTable ==
  ASSUME TableInv, HandleNewTraceEntry
  PROVE  TableInv'
<1> DEFINE e == Head(net).entry
           q == Arrives(TableOf, FilterOf, e)
           t == TreeArrives(TreeOf, FilterOf, e)
           fm == AddTraceKeys(FormOf, db.groups)
<1>1. /\ failed = "no" /\ net # <<>> /\ Head(net).type = "entry" /\ net' = Tail(net)
      /\ db' = db /\ stored' = stored /\ failed' = failed
      /\ form' = fm /\ filter' = FilterOf /\ model' = q /\ tree' = t
  BY EntryHandled
<1>2. /\ IsModel(model) /\ IsTree(tree) /\ WellFormed(db) /\ filter \in Filters /\ form \in Forms
      /\ net \in Seq(Messages) /\ News(model.numNew, net, stored)
      /\ stored \in Nat /\ model.numNew \in Nat /\ stored \in 0 .. MaxStored
      /\ ~ Nuked => Snapshot(model, filter, db) /\ PageTrue(model, db)
      /\ TableScheduled(model) /\ TreeScheduled(tree) /\ FormMatches(form, filter)
  BY InvIs
<1>3. q = Arrives(TableOf, FilterOf, e) /\ t = TreeArrives(TreeOf, FilterOf, e)
      /\ fm = AddTraceKeys(FormOf, db.groups)
  OBVIOUS
<1> HIDE DEF q, t, fm, e
<1>4. IsModel(TableOf) /\ SameNews(TableOf, model) /\ IsTree(TreeOf)
  BY <1>2, TableOfIs, TreeOfIs
<1>5. /\ IsModel(q) /\ SameRows(q, TableOf) /\ q.suspended = TableOf.suspended
      /\ matches(FilterOf, e) => q.numNew = TableOf.numNew + 1 /\ q.timer =
           (TableOf.timer \/ ~ TableOf.suspended)
      /\ ~ matches(FilterOf, e) => q = TableOf
  BY <1>3, <1>4, ArrivesIs
<1>6. /\ IsTree(t)
      /\ t.items = TreeOf.items /\ t.visible = TreeOf.visible /\ t.suspended = TreeOf.suspended
      /\ matches(FilterOf, e) /\ e.kind.watched => t.dirty /\ (~ t.suspended => t.timer)
      /\ ~ (matches(FilterOf, e) /\ e.kind.watched) => t = TreeOf
  BY <1>3, <1>4, TreeArrivesIs
<1>7. FormOf \in Forms /\ db.groups \in SUBSET Keys
  BY <1>1, <1>2, SentKeysAre, FormOfIs, FilterOfIs
<1>8. /\ fm \in Forms /\ DOMAIN fm.keys = db.groups \cup DOMAIN FormOf.keys
      /\ fm.edited = FormOf.edited
      /\ \A k \in DOMAIN FormOf.keys : fm.keys[k] = FormOf.keys[k]
      /\ \A k \in NewKeys(FormOf, db.groups) : fm.keys[k] = KeyActive(FormOf.defaults, k)
  BY <1>3, <1>7, AddTraceKeysIs
<1>9. net' \in Seq(Messages)
  BY <1>1, <1>2, HandledOne
<1>10. TypeInv'
  BY <1>1, <1>2, <1>5, <1>6, <1>8, <1>9, FilterOfIs DEF TypeInv
<1>11. News(model.numNew, Tail(net), stored) /\ News(model.numNew + 1, Tail(net), stored)
       /\ (HasNuked(Tail(net)) <=> HasNuked(net))
  <2> DEFINE k == model.numNew
  <2>1. k \in Nat /\ News(k, net, stored) /\ net # <<>> /\ Head(net).type = "entry"
    BY <1>1, <1>2
  <2> HIDE DEF k
  <2>2. News(k, Tail(net), stored) /\ News(k + 1, Tail(net), stored)
        /\ (HasNuked(Tail(net)) <=> HasNuked(net))
    BY <1>2, <2>1, NewsOfHandled
  <2>3. QED
    BY <2>2 DEF k
<1>12. NewsInv'
  <2>1. q.numNew \in {model.numNew, model.numNew + 1}
    BY <1>4, <1>5 DEF SameNews
  <2>2. News(q.numNew, Tail(net), stored)
    BY <1>11, <2>1
  <2>3. QED
    BY <1>1, <2>2 DEF NewsInv
<1>13. Nuked' <=> Nuked
  BY <1>1, <1>11 DEF Nuked, HasNuked
<1>14. ~ Nuked => Snapshot(TableOf, FilterOf, db) /\ PageTrue(TableOf, db)
  <2>1. CASE NewOnes = {}
    BY <1>2, <2>1, TableOfIs, FilterOfIs
  <2>2. CASE NewOnes # {}
    BY <1>2, <2>2, TableOfIs, CompleteIsSnapshot
  <2>3. QED
    BY <2>1, <2>2
<1>15. ~ Nuked => Snapshot(q, FilterOf, db) /\ PageTrue(q, db)
  BY <1>5, <1>14, SameRowsShow
<1>16. TableScheduled(q)
  BY <1>2, <1>4, <1>5 DEF SameNews, TableScheduled
<1>17. TreeScheduled(TreeOf)
  <2>1. CASE NewOnes = {}
    BY <1>2, <2>1, TreeOfIs
  <2>2. CASE NewOnes # {}
    BY <1>2, <2>2, TreeOfIs, Unscheduled
  <2>3. QED
    BY <2>1, <2>2
<1>18. TreeScheduled(t)
  BY <1>6, <1>17 DEF TreeScheduled
<1>19. FormMatches(fm, FilterOf)
  <2> SUFFICES ASSUME ~ fm.edited, NEW k \in DOMAIN fm.keys
               PROVE  fm.keys[k] <=> k \notin FilterOf.inactive
    BY DEF FormMatches
  <2>1. FilterOf.inactive
          = {x \in filter.inactive \cup NewOnes : x \in NewOnes => ~ KeyActive(FormOf.defaults, x)}
    BY <1>2, FilterOfIs
  <2>2. CASE k \in NewOnes
    <3>1. fm.keys[k] = KeyActive(FormOf.defaults, k)
      BY <1>8, <2>2 DEF NewOnes
    <3>2. QED
      BY <2>1, <2>2, <3>1
  <2>3. CASE k \notin NewOnes
    <3>1. k \in DOMAIN FormOf.keys
      BY <1>8, <2>3 DEF NewOnes, NewKeys
    <3>2. fm.keys[k] = form.keys[k] /\ k \in DOMAIN form.keys
      BY <1>1, <1>2, <1>8, <3>1, SentKeysAre, FormOfIs
    <3>3. ~ form.edited
      BY <1>1, <1>2, <1>8, SentKeysAre, FormOfIs
    <3>4. form.keys[k] <=> k \notin filter.inactive
      BY <1>2, <3>2, <3>3 DEF FormMatches
    <3>5. k \in FilterOf.inactive <=> k \in filter.inactive
      BY <2>1, <2>3
    <3>6. QED
      BY <3>2, <3>4, <3>5
  <2>4. QED
    BY <2>2, <2>3
<1>20. RowsInv' /\ (~ Nuked => PageTrue(model, db))' /\ RowsAreFound'
  BY <1>1, <1>13, <1>15 DEF RowsInv, RowsAreFound
<1>21. PendingIsScheduled'
  BY <1>1, <1>16, <1>18 DEF PendingIsScheduled, TableScheduled, TreeScheduled
<1>22. FormMatchesFilter'
  BY <1>1, <1>19 DEF FormMatchesFilter, FormMatches
<1>23. QED
  BY <1>10, <1>12, <1>20, <1>21, <1>22 DEF TableInv

LEMMA NukedKeepsTable ==
  ASSUME TableInv, DatabaseWasNuked
  PROVE  TableInv'
<1> DEFINE q == Cleared(model)
           t == TreeReApplied(tree, filter, db)
           none == {}
           fm == SetTraceKeys(form, none)
<1>1. /\ failed = "no" /\ net # <<>> /\ net' = Tail(net)
      /\ db' = db /\ stored' = stored /\ failed' = failed
      /\ form' = fm /\ filter' = filter /\ model' = q /\ tree' = t
  BY DEF DatabaseWasNuked, Received
<1>2. /\ IsModel(model) /\ IsTree(tree) /\ WellFormed(db) /\ filter \in Filters /\ form \in Forms
      /\ net \in Seq(Messages) /\ News(model.numNew, net, stored)
      /\ stored \in Nat /\ model.numNew \in Nat /\ stored \in 0 .. MaxStored
  BY InvIs
<1>3. q = Cleared(model) /\ t = TreeReApplied(tree, filter, db) /\ fm = SetTraceKeys(form, none)
      /\ none \in SUBSET Keys
  OBVIOUS
<1> HIDE DEF q, t, fm, none
<1>4. IsModel(q) /\ q.numMatching = 0 /\ q.numNew = 0
  BY <1>2, <1>3, ClearedIs
<1>5. IsTree(t) /\ ~ (t.dirty /\ t.visible)
  BY <1>2, <1>3, ReAppliedIs
<1>6. fm \in Forms /\ DOMAIN fm.keys = none
  BY <1>2, <1>3, SetTraceKeysIs
<1>7. net' \in Seq(Messages)
  BY <1>1, <1>2, HandledOne
<1>8. TypeInv'
  BY <1>1, <1>2, <1>4, <1>5, <1>6, <1>7 DEF TypeInv
<1>9. NewsInv'
  <2> DEFINE k == model.numNew
  <2>1. k \in Nat /\ News(k, net, stored)
    BY <1>2
  <2> HIDE DEF k
  <2>2. News(0, Tail(net), stored)
    BY <1>1, <1>2, <2>1, NewsOfHandled
  <2>3. QED
    BY <1>1, <1>4, <2>2 DEF NewsInv
<1>10. Snapshot(q, filter, db) /\ PageTrue(q, db)
  BY <1>2, <1>4, EmptySnapshot, NoRowsAre
<1>11. RowsInv' /\ (~ Nuked => PageTrue(model, db))' /\ RowsAreFound'
  BY <1>1, <1>10 DEF RowsInv, RowsAreFound
<1>12. TableScheduled(q) /\ TreeScheduled(t)
  BY <1>4, <1>5, Unscheduled
<1>13. PendingIsScheduled'
  BY <1>1, <1>12 DEF PendingIsScheduled, TableScheduled, TreeScheduled
<1>14. FormMatchesFilter'
  BY <1>1, <1>6 DEF FormMatchesFilter, none
<1>15. QED
  BY <1>8, <1>9, <1>11, <1>13, <1>14 DEF TableInv

LEMMA NewModelIs == NewModel \in AnyModels /\ NewModel.numMatching = -1 /\ NewModel.numNew = 0
<1>1. <<>> \in Seq(Nat) /\ <<>> \in Seq(Entries)
  OBVIOUS
<1>2. QED
  BY <1>1 DEF NewModel, AnyModels

LEMMA FirstQueryIs ==
  ASSUME NEW d, WellFormed(d), NEW f, NEW q, q = queryForEntries(NewModel, f, d, 0)
  PROVE  IsModel(q) /\ Complete(q, f, d) /\ PageTrue(q, d) /\ q.numNew = 0
BY NewModelIs, QueryCounts DEF SameNews

\* The filter, the tree and the form when the database is opened.
OpenFilter(d) == FilterOfNewKeys(filter, form, d.groups)
OpenTree(d) == IF d.groups = {} THEN tree ELSE TreeReApplied(tree, OpenFilter(d), db)
DirtyTree(d) == [OpenTree(d) EXCEPT !.dirty = TRUE]

LEMMA DatabaseOpened ==
  ASSUME NEW d, OpenDatabase(d)
  PROVE  /\ failed = "no" /\ failed' = failed /\ db' = d /\ net' = <<>> /\ stored' = stored
         /\ filter' = OpenFilter(d) /\ form' = SetTraceKeys(form, d.groups)
         /\ model' = queryForEntries(NewModel, OpenFilter(d), d, 0)
         /\ tree' = showNewTraceEntries(DirtyTree(d), OpenFilter(d), d)
BY DEF OpenDatabase, OpenFilter, OpenTree, DirtyTree

LEMMA OpenPartsAre ==
  ASSUME form \in Forms, filter \in Filters, IsTree(tree), WellFormed(db), NEW d, WellFormed(d)
  PROVE  /\ d.groups \in SUBSET Keys /\ OpenFilter(d) \in Filters
         /\ OpenFilter(d).inactive
              = {k \in filter.inactive \cup d.groups :
                   k \in d.groups => ~ KeyActive(form.defaults, k)}
         /\ d.groups = {} => OpenFilter(d) = filter
         /\ IsTree(DirtyTree(d)) /\ DirtyTree(d).dirty = TRUE /\ DirtyTree(d).visible = tree.visible
         /\ DirtyTree(d).timer = tree.timer /\ DirtyTree(d).suspended = tree.suspended
<1> DEFINE f == OpenFilter(d)
           r == TreeReApplied(tree, f, db)
           t == OpenTree(d)
           w == DirtyTree(d)
           yes == TRUE
<1>1. d.groups \in SUBSET Keys
  BY DatabaseIs
<1>2. f = FilterOfNewKeys(filter, form, d.groups)
  BY DEF OpenFilter
<1>3. r = TreeReApplied(tree, f, db) /\ t = IF d.groups = {} THEN tree ELSE r
  BY DEF OpenTree
<1>4. yes \in BOOLEAN /\ w = [t EXCEPT !.dirty = yes]
  BY DEF DirtyTree
<1> HIDE DEF f, r, t, w, yes
<1>5. /\ f \in Filters
      /\ f.inactive = {k \in filter.inactive \cup d.groups :
                         k \in d.groups => ~ KeyActive(form.defaults, k)}
      /\ d.groups = {} => f = filter
  BY <1>1, <1>2, FilterOfNewKeysIs
<1>6. IsTree(r) /\ r.visible = tree.visible /\ r.timer = tree.timer /\ r.suspended = tree.suspended
  BY <1>3, ReAppliedIs
<1>7. IsTree(t) /\ t.visible = tree.visible /\ t.timer = tree.timer /\ t.suspended = tree.suspended
  BY <1>3, <1>6
<1>8. IsTree(w) /\ w.dirty = yes /\ w.visible = t.visible /\ w.timer = t.timer
      /\ w.suspended = t.suspended
  <2>1. w = Branches(t.items, yes, t.visible, t.timer, t.suspended)
    BY <1>4, <1>7, TreeWith
  <2>2. QED
    BY <1>4, <1>7, <2>1, BranchesFields, TreeIs, TreeType
<1>9. QED
  BY <1>1, <1>5, <1>7, <1>8 DEF f, w, yes

LEMMA OpenKeepsTable ==
  ASSUME TableInv, NEW d, WellFormed(d), OpenDatabase(d)
  PROVE  TableInv'
<1> DEFINE f == OpenFilter(d)
           q == queryForEntries(NewModel, f, d, 0)
           w == DirtyTree(d)
           t == showNewTraceEntries(w, f, d)
           fm == SetTraceKeys(form, d.groups)
<1>1. /\ failed = "no" /\ failed' = failed /\ db' = d /\ net' = <<>> /\ stored' = stored
      /\ filter' = f /\ form' = fm /\ model' = q /\ tree' = t
  BY DatabaseOpened
<1>2. /\ IsTree(tree) /\ WellFormed(db) /\ filter \in Filters /\ form \in Forms
      /\ stored \in Nat /\ stored \in 0 .. MaxStored
  BY InvIs
<1>3. /\ d.groups \in SUBSET Keys /\ f \in Filters
      /\ f.inactive = {k \in filter.inactive \cup d.groups :
                         k \in d.groups => ~ KeyActive(form.defaults, k)}
      /\ IsTree(w) /\ w.dirty = TRUE
  BY <1>2, OpenPartsAre
<1>4. q = queryForEntries(NewModel, f, d, 0) /\ t = showNewTraceEntries(w, f, d)
      /\ fm = SetTraceKeys(form, d.groups)
  OBVIOUS
<1> HIDE DEF f, q, w, t, fm
<1>5. IsModel(q) /\ Complete(q, f, d) /\ PageTrue(q, d) /\ q.numNew = 0
  BY <1>4, FirstQueryIs
<1>6. IsTree(t) /\ ~ (t.dirty /\ t.visible)
  BY <1>3, <1>4, ShownIs
<1>7. /\ fm \in Forms /\ DOMAIN fm.keys = d.groups
      /\ \A k \in d.groups : fm.keys[k] = KeyActive(form.defaults, k)
  BY <1>2, <1>3, <1>4, SetTraceKeysIs
<1>8. <<>> \in Seq(Messages) /\ DOMAIN <<>> = {}
  OBVIOUS
<1>9. TypeInv'
  BY <1>1, <1>2, <1>3, <1>5, <1>6, <1>7, <1>8 DEF TypeInv
<1>10. NewsInv'
  BY <1>1, <1>2, <1>5, <1>8 DEF NewsInv, News
<1>11. Snapshot(q, f, d)
  BY <1>5, CompleteIsSnapshot
<1>12. RowsInv' /\ (~ Nuked => PageTrue(model, db))' /\ RowsAreFound'
  BY <1>1, <1>5, <1>11 DEF RowsInv, RowsAreFound
<1>13. TableScheduled(q) /\ TreeScheduled(t)
  BY <1>5, <1>6, Unscheduled
<1>14. PendingIsScheduled'
  BY <1>1, <1>13 DEF PendingIsScheduled, TableScheduled, TreeScheduled
<1>15. FormMatchesFilter'
  <2>1. \A k \in d.groups : fm.keys[k] <=> k \notin f.inactive
    BY <1>3, <1>7
  <2>2. QED
    BY <1>1, <1>7, <2>1 DEF FormMatchesFilter
<1>16. QED
  BY <1>9, <1>10, <1>12, <1>14, <1>15 DEF TableInv

LEMMA NewFormIs ==
  NewForm \in Forms /\ NewFilter \in Filters /\ IsTree(NewTree) /\ NewTree.visible = FALSE
<1> DEFINE l == [k \in {} |-> TRUE]
           none == {}
<1>1. l \in [none -> BOOLEAN] /\ none \in SUBSET Keys
  OBVIOUS
<1>2. NewForm = [keys |-> l, firstEntryPassed |-> FALSE, defaults |-> l, edited |-> FALSE]
  BY DEF NewForm
<1> HIDE DEF l, none
<1>3. l \in KeyLists
  BY <1>1, KeyListType
<1>4. NewForm \in Forms
  BY <1>2, <1>3 DEF Forms
<1>5. NewFilter \in Filters
  <2>1. -1 \in Pids
    BY EntryModelAssumption
  <2> DEFINE minus == -1
  <2>2. NewFilter = [text |-> NoText, pid |-> minus, inactive |-> {}, withoutKey |-> TRUE]
        /\ minus \in Pids
    BY <2>1 DEF NewFilter
  <2>4. NoText \in TextCriteria
    BY DEF NoText, TextCriteria
  <2> HIDE DEF minus
  <2>3. QED
    BY <2>2, <2>4 DEF Filters
<1>6. IsTree(NewTree) /\ NewTree.visible = FALSE
  BY DEF NewTree, IsTree
<1>7. QED
  BY <1>4, <1>5, <1>6

LEMMA TableInit ==
  ASSUME Init
  PROVE  TableInv
<1> DEFINE d == FirstDatabase
           fm == SetTraceKeys(NewForm, d.groups)
           f == NewFilter
           q == queryForEntries(NewModel, f, d, 0)
<1>1. /\ db = d /\ net = <<>> /\ stored = 0 /\ filter = f /\ form = fm /\ model = q
      /\ tree = NewTree /\ failed = "no"
  BY DEF Init
<1>2. WellFormed(d) /\ MaxStored \in Nat
  BY EntryModelAssumption
<1>3. q = queryForEntries(NewModel, f, d, 0) /\ fm = SetTraceKeys(NewForm, d.groups)
  OBVIOUS
<1>4. f.inactive = {}
  BY DEF NewFilter
<1>a. f \in Filters
  BY NewFormIs
<1> HIDE DEF d, fm, f, q
<1>5. IsModel(q) /\ Complete(q, f, d) /\ PageTrue(q, d) /\ q.numNew = 0
  BY <1>2, <1>3, FirstQueryIs
<1>6. d.groups \in SUBSET Keys
  BY <1>2, DatabaseIs
<1>7. /\ fm \in Forms /\ DOMAIN fm.keys = d.groups
      /\ \A k \in d.groups : fm.keys[k] = KeyActive(NewForm.defaults, k)
  BY <1>3, <1>6, NewFormIs, SetTraceKeysIs
<1>8. \A k \in d.groups : fm.keys[k] <=> k \notin f.inactive
  BY <1>4, <1>7 DEF KeyActive, NewForm
<1>9. <<>> \in Seq(Messages) /\ DOMAIN <<>> = {}
  OBVIOUS
<1>10. TypeInv
  BY <1>1, <1>2, <1>5, <1>7, <1>9, <1>a, NewFormIs DEF TypeInv
<1>11. NewsInv
  BY <1>1, <1>5, <1>9 DEF NewsInv, News
<1>12. Snapshot(q, f, d)
  BY <1>2, <1>5, CompleteIsSnapshot
<1>13. RowsInv /\ (~ Nuked => PageTrue(model, db)) /\ RowsAreFound
  BY <1>1, <1>5, <1>12 DEF RowsInv, RowsAreFound
<1>14. TableScheduled(q) /\ TreeScheduled(tree)
  BY <1>1, <1>5, NewFormIs, Unscheduled
<1>15. PendingIsScheduled
  BY <1>1, <1>14 DEF PendingIsScheduled, TableScheduled, TreeScheduled
<1>16. FormMatchesFilter
  BY <1>1, <1>7, <1>8 DEF FormMatchesFilter
<1>17. QED
  BY <1>10, <1>11, <1>13, <1>15, <1>16 DEF TableInv

LEMMA TableStep ==
  ASSUME TableInv, [Next]_vars
  PROVE  TableInv'
<1>1. CASE Daemon
  <2>1. UNCHANGED viewerVars
    BY <1>1 DEF Daemon, viewerVars
  <2>2. CASE \E kind \in Kinds : Stores(kind)
    BY <2>1, <2>2, StoresKeepsTable
  <2>3. CASE \E kind \in Kinds : \E keep \in Keeps : Archives(kind, keep)
    BY <2>1, <2>3, ArchivesKeepsTable
  <2>4. CASE Nukes
    BY <2>1, <2>4, NukesKeepsTable
  <2>5. QED
    BY <1>1, <2>2, <2>3, <2>4 DEF Daemon
<1>2. CASE HandleNewTraceEntry
  BY <1>2, EntryKeepsTable
<1>3. CASE DatabaseWasNuked
  BY <1>3, NukedKeepsTable
<1>4. CASE ModelTimeout
  BY <1>4, ModelTimeoutKeepsTable
<1>5. CASE TreeTimeout
  BY <1>5, TreeTimeoutKeepsTable
<1>6. CASE User
  <2>1. CASE Freeze
    BY <2>1, FreezeKeepsTable
  <2>2. CASE Resume
    BY <2>2, ResumeKeepsTable
  <2>3. CASE ShowTree
    BY <2>3, ShowTreeKeepsTable
  <2>4. CASE HideTree
    BY <2>4, HideTreeKeepsTable
  <2>5. CASE \E row \in 0 .. MaxStored : Paint(row)
    BY <2>5, PaintKeepsTable
  <2>6. CASE \E key \in Keys : CheckKey(key)
    BY <2>6, CheckKeyKeepsTable
  <2>7. CASE \E text \in Texts, pid \in Pids, b \in BOOLEAN : Apply(text, pid, b)
    BY <2>7, ApplyKeepsTable
  <2>8. CASE \E d \in OtherDatabases \cup {db} : OpenDatabase(d)
    <3>1. \A d \in OtherDatabases \cup {db} : WellFormed(d)
      BY InvIs, EntryModelAssumption
    <3>2. QED
      BY <2>8, <3>1, OpenKeepsTable
  <2>9. QED
    BY <1>6, <2>1, <2>2, <2>3, <2>4, <2>5, <2>6, <2>7, <2>8 DEF User
<1>7. CASE UNCHANGED vars
  BY <1>7 DEF vars, daemonVars, TableInv, TypeInv, NewsInv, RowsInv, RowsAreFound,
              PendingIsScheduled, FormMatchesFilter, Nuked
<1>8. QED
  BY <1>1, <1>2, <1>3, <1>4, <1>5, <1>6, <1>7 DEF Next

LEMMA TableInvAlways == Spec => []TableInv
<1>1. Init => TableInv
  BY TableInit
<1>2. TableInv /\ [Next]_vars => TableInv'
  BY TableStep
<1>3. QED
  BY <1>1, <1>2, PTL DEF Spec

LEMMA TableInvShows ==
  ASSUME TableInv
  PROVE  ModelInv
<1>1. /\ IsModel(model) /\ IsTree(tree) /\ filter \in Filters /\ form \in Forms
      /\ stored \in Nat /\ model.numNew \in Nat /\ stored \in 0 .. MaxStored
      /\ failed \in {"no", "rowNotFound"}
  BY InvIs
<1>2. model.numNew \in 0 .. MaxStored
  <2>1. model.numNew <= stored /\ MaxStored \in Nat
    BY EntryModelAssumption DEF TableInv, NewsInv, News
  <2>2. QED
    BY <1>1, <2>1
<1>3. DOMAIN form.keys \subseteq Keys /\ form.keys \in [DOMAIN form.keys -> BOOLEAN]
  BY <1>1, KeyListIs DEF Forms
<1>4. ModelTypeOK
  <2>1. filter \in [text : TextCriteria, pid : Pids, inactive : SUBSET Keys, withoutKey : BOOLEAN]
    BY <1>1 DEF Filters
  <2>2. model.numMatching \in {-1, Len(model.ids)} \cup {0}
    BY <1>1 DEF IsModel
  <2>3. model.timer \in BOOLEAN /\ model.suspended \in BOOLEAN
    BY <1>1 DEF IsModel, Models
  <2>4. tree.timer \in BOOLEAN /\ tree.dirty \in BOOLEAN /\ tree.suspended \in BOOLEAN
    BY <1>1, TreeIs
  <2>5. model.top \in -1 .. Len(model.ids) - 1 /\ Len(model.page) <= PageSize
    BY <1>1 DEF IsModel
  <2>6. QED
    BY <1>1, <1>2, <1>3, <2>1, <2>2, <2>3, <2>4, <2>5 DEF ModelTypeOK
<1>5. PageShowsItsRows
  BY DEF TableInv, PageTrue, PageShowsItsRows
<1>6. QED
  BY <1>4, <1>5 DEF TableInv, ModelInv

\* What the table holds for every database, every bound and every run: the ids,
\* the page, the timers and the check boxes agree at any moment.
THEOREM EntryModelSafe == Spec => []ModelInv
BY TableInvAlways, TableInvShows, PTL

\* A frozen viewer's table changes only when keys are new to the form.
LEMMA EntryIsQuiet ==
  ASSUME TableInv, HandleNewTraceEntry, model.suspended, ~ model.timer,
         form.firstEntryPassed, DOMAIN form'.keys = DOMAIN form.keys
  PROVE  ~ model'.timer /\ Ids(model') = Ids(model)
<1> DEFINE e == Head(net).entry
           q == Arrives(TableOf, FilterOf, e)
           fm == AddTraceKeys(FormOf, db.groups)
<1>1. form' = fm /\ model' = q /\ net # <<>> /\ Head(net).type = "entry"
  BY EntryHandled
<1>2. /\ IsModel(model) /\ WellFormed(db) /\ filter \in Filters /\ form \in Forms
      /\ net \in Seq(Messages)
  BY InvIs
<1>3. q = Arrives(TableOf, FilterOf, e) /\ fm = AddTraceKeys(FormOf, db.groups)
  OBVIOUS
<1> HIDE DEF q, fm, e
<1>4. FormOf \in Forms /\ FormOf.keys = form.keys /\ db.groups \in SUBSET Keys
  BY <1>1, <1>2, SentKeysAre, FormOfIs, FilterOfIs
<1>5. DOMAIN fm.keys = db.groups \cup DOMAIN FormOf.keys
  BY <1>3, <1>4, AddTraceKeysIs
<1>6. NewOnes = {}
  BY <1>1, <1>4, <1>5 DEF NewOnes, NewKeys
<1>7. TableOf = model
  BY <1>2, <1>6, TableOfIs
<1>8. /\ SameRows(q, model)
      /\ matches(FilterOf, e) => q.timer = (model.timer \/ ~ model.suspended)
      /\ ~ matches(FilterOf, e) => q = model
  BY <1>2, <1>3, <1>7, ArrivesIs
<1>9. Ids(q) = Ids(model)
  BY <1>8, SameRowsShow
<1>10. QED
  BY <1>1, <1>8, <1>9

\* Entries that arrive do not change the table of a frozen viewer, whatever the
\* database and the filter are.
THEOREM EntryModelFreezes == Spec => FrozenIsQuiet
<1> DEFINE Quiet == HandleNewTraceEntry /\ model.suspended /\ ~ model.timer
                    /\ (form.firstEntryPassed /\ DOMAIN form'.keys = DOMAIN form.keys) =>
                      ~ model'.timer /\ Ids(model') = Ids(model)
<1>1. TableInv /\ [Next]_vars => [Quiet]_vars
  BY EntryIsQuiet
<1>2. FrozenIsQuiet <=> [][Quiet]_vars
  BY DEF FrozenIsQuiet
<1> HIDE DEF Quiet
<1>3. QED
  BY <1>1, <1>2, TableInvAlways, PTL DEF Spec

-----------------------------------------------------------------------------
(* What a settled viewer shows.                                            *)

\* The process ids the user enters select the same entries as ids of rows.
PidsAreRows == \A k \in Kinds, p \in Pids : p \in {-1, k.pid} <=> p \in {-1, ProcessRow[k.pid]}

\* Every entry brings keys, and so do the databases that are opened.
KeysAreSent ==
  /\ \A k \in Kinds : DOMAIN k.traceKeys # {}
  /\ \A d \in OtherDatabases \cup {FirstDatabase} : HasKeys(d)

\* What contains a text is LIKE it: the query finds what matches.
LEMMA MatchesSelects ==
  ASSUME PidsAreRows, NEW f \in Filters, NEW d, NEW e \in Entries, Joined(f, d), matches(f, e)
  PROVE  Selects(f, d, e)
<1>1. e.kind \in Kinds /\ f.pid \in Pids /\ f.text \in TextCriteria
  BY DEF Filters, Entries
<1>2. f.pid \in {-1, e.kind.pid} <=> f.pid \in {-1, ProcessRow[e.kind.pid]}
  BY <1>1 DEF PidsAreRows
<1>3. f.text.contains \subseteq f.text.like
  BY <1>1 DEF TextCriteria
<1>4. QED
  BY <1>2, <1>3 DEF matches, Selects

LEMMA SelectsMay ==
  ASSUME PidsAreRows, NEW f \in Filters, NEW d, NEW e \in Entries, Selects(f, d, e)
  PROVE  MayShow(f, e)
<1>1. e.kind \in Kinds /\ f.pid \in Pids
  BY DEF Filters, Entries
<1>2. f.pid \in {-1, e.kind.pid} <=> f.pid \in {-1, ProcessRow[e.kind.pid]}
  BY <1>1 DEF PidsAreRows
<1>3. QED
  BY <1>2 DEF MayShow, Selects

\* A table that has just been counted has all matching entries.
LEMMA CompleteHears ==
  ASSUME PidsAreRows, NEW f \in Filters, NEW d, WellFormed(d), HasKeys(d),
         NEW m, Complete(m, f, d), NEW n, NEW fm
  PROVE  Heard(m, f, d, n, fm)
<1> SUFFICES ASSUME NEW e \in d.entries, matches(f, e)
             PROVE  e.id \in Range(Ids(m))
  BY DEF Heard
<1>1. e \in Entries /\ e.id \in 1 .. d.last /\ d.last \in Nat
  BY DatabaseIs
<1>2. Selects(f, d, e)
  BY <1>1, MatchesSelects DEF HasKeys, Joined
<1>3. e.id \in UpTo(f, d, d.last)
  BY <1>1, <1>2 DEF UpTo, Matching
<1>4. QED
  BY <1>3 DEF Complete

LEMMA ShowsTells ==
  ASSUME NEW t, NEW f, NEW d, NEW n, ~ t.dirty => Shows(t, f, d)
  PROVE  TreeTells(t, f, d, n)
BY DEF Shows, TreeTells

LEMMA SettledIs ==
  ASSUME SettledInv
  PROVE  SettledShowsAll \/ ~ PidsAreRows
<1> SUFFICES ASSUME PidsAreRows PROVE SettledShowsAll
  OBVIOUS
<1>1. /\ WellFormed(db) /\ filter \in Filters /\ (~ Nuked => Snapshot(model, filter, db))
  BY InvIs DEF SettledInv
<1>2. ASSUME net = <<>>, model.numNew = 0
      PROVE  /\ {e.id : e \in {x \in db.entries : matches(filter, x)}} \subseteq Range(Ids(model))
             /\ Range(Ids(model)) \subseteq {e.id : e \in {x \in db.entries : MayShow(filter, x)}}
             /\ Increasing(Ids(model))
  <2>1. DOMAIN net = {}
    BY <1>2
  <2>2. ~ Nuked
    BY <2>1 DEF Nuked
  <2>3. Increasing(Ids(model))
    BY <1>1, <2>2 DEF Snapshot
  <2>4. PICK n \in 0 .. db.last : Range(Ids(model)) = UpTo(filter, db, n)
    BY <1>1, <2>2 DEF Snapshot
  <2>5. ASSUME NEW e \in db.entries, Selects(filter, db, e)
        PROVE  MayShow(filter, e)
    <3>1. e \in Entries
      BY <1>1, DatabaseIs
    <3>2. QED
      BY <1>1, <2>5, <3>1, SelectsMay
  <2>6. ASSUME NEW e \in db.entries, matches(filter, e)
        PROVE  e.id \in Range(Ids(model))
    BY <1>2, <2>1, <2>6 DEF SettledInv, HeardInv, Heard, Announced, WillRecount
  <2>7. Range(Ids(model)) \subseteq {e.id : e \in {x \in db.entries : MayShow(filter, x)}}
    BY <2>4, <2>5 DEF UpTo, Matching
  <2>8. QED
    BY <2>3, <2>6, <2>7
<1>3. TableShowsAll
  BY <1>2 DEF TableShowsAll, Increasing
<1>4. TreeShowsLatest
  <2> SUFFICES ASSUME ~ tree.dirty, net = <<>>,
                      NEW e \in {x \in Watched(filter, db) : matches(filter, x)}
               PROVE  Item(e) \in DOMAIN tree.items /\ tree.items[Item(e)] = e.serial
    BY DEF TreeShowsLatest
  <2>1. DOMAIN net = {}
    OBVIOUS
  <2>2. QED
    BY <2>1 DEF SettledInv, TreeInv, TreeTells, Announced
<1>5. QED
  BY <1>3, <1>4 DEF SettledShowsAll

\* What is announced stays announced when something is sent or handled.
LEMMA StillAnnounced ==
  ASSUME NEW n \in Seq(Messages), NEW m \in Messages, NEW q, q = Append(n, m)
  PROVE  /\ \A e, j : Announced(n, e, j) => Announced(q, e, j)
         /\ \A c, d, j : (c.groups # {} => d.groups # {}) /\ WillRecount(c, n, j)
                        => WillRecount(d, q, j)
<1>1. DOMAIN n \subseteq DOMAIN q /\ \A i \in DOMAIN n : q[i] = n[i]
  BY Sent
<1>2. ASSUME NEW e, NEW j, Announced(n, e, j) PROVE Announced(q, e, j)
  BY <1>1, <1>2 DEF Announced
<1>3. ASSUME NEW c, NEW d, NEW j, c.groups # {} => d.groups # {}, WillRecount(c, n, j)
      PROVE  WillRecount(d, q, j)
  BY <1>1, <1>3 DEF WillRecount
<1>4. QED
  BY <1>2, <1>3

LEMMA SentIsAnnounced ==
  ASSUME NEW n \in Seq(Messages), NEW e \in Entries, NEW q, q = Append(n, EntryMessage(e))
  PROVE  /\ \A j \in 0 .. Len(n) : Announced(q, e, j)
         /\ \A d : d.groups # {} => \A j \in 0 .. Len(n) : WillRecount(d, q, j)
<1> DEFINE m == EntryMessage(e)
<1>1. m \in Messages /\ m.type = "entry"
  BY MessagesAre
<1> HIDE DEF m
<1>2. DOMAIN q = 1 .. Len(n) + 1 /\ q[Len(n) + 1] = m /\ Len(n) \in Nat
  BY <1>1, Sent DEF m
<1>3. Len(n) + 1 \in DOMAIN q /\ \A j \in 0 .. Len(n) : Len(n) + 1 > j
  BY <1>2
<1>4. QED
  BY <1>1, <1>2, <1>3 DEF Announced, WillRecount, m

LEMMA AnnouncedLater ==
  ASSUME NEW n \in Seq(Messages), n # <<>>, NEW q, q = Tail(n), NEW j \in Nat
  PROVE  /\ \A e : Announced(n, e, j + 1) => Announced(q, e, j)
         /\ \A e : Announced(n, e, 0) => Head(n) = EntryMessage(e) \/ Announced(q, e, 0)
         /\ \A d : WillRecount(d, n, j + 1) => WillRecount(d, q, j)
<1>1. /\ Len(n) \in Nat \ {0} /\ Head(n) = n[1] /\ DOMAIN n = 1 .. Len(n)
      /\ DOMAIN q = 1 .. Len(n) - 1
      /\ \A i \in DOMAIN q : q[i] = n[i + 1]
  BY HandledOne
<1>2. \A i \in DOMAIN n : i > j + 1 => i - 1 \in DOMAIN q /\ i - 1 > j /\ q[i - 1] = n[i]
  <2> SUFFICES ASSUME NEW i \in DOMAIN n, i > j + 1
               PROVE  i - 1 \in DOMAIN q /\ i - 1 > j /\ q[i - 1] = n[i]
    OBVIOUS
  <2>1. i - 1 \in DOMAIN q /\ i - 1 > j /\ i - 1 + 1 = i
    BY <1>1
  <2>2. QED
    BY <1>1, <2>1
<1>3. \A i \in DOMAIN n : i # 1 => i - 1 \in DOMAIN q /\ i - 1 > 0 /\ q[i - 1] = n[i]
  <2> SUFFICES ASSUME NEW i \in DOMAIN n, i # 1
               PROVE  i - 1 \in DOMAIN q /\ i - 1 > 0 /\ q[i - 1] = n[i]
    OBVIOUS
  <2>1. i - 1 \in DOMAIN q /\ i - 1 > 0 /\ i - 1 + 1 = i
    BY <1>1
  <2>2. QED
    BY <1>1, <2>1
<1>4. \A e : Announced(n, e, j + 1) => Announced(q, e, j)
  BY <1>2 DEF Announced
<1>5. ASSUME NEW e, Announced(n, e, 0), Head(n) # EntryMessage(e)
      PROVE  Announced(q, e, 0)
  <2>1. PICK i \in DOMAIN n : n[i] = EntryMessage(e)
    BY <1>5 DEF Announced
  <2>2. i # 1
    BY <1>1, <1>5, <2>1
  <2>3. QED
    BY <1>3, <2>1, <2>2 DEF Announced
<1>6. \A d : WillRecount(d, n, j + 1) => WillRecount(d, q, j)
  BY <1>2 DEF WillRecount
<1>7. QED
  BY <1>4, <1>5, <1>6

LEMMA AfterNukesHandled ==
  ASSUME NEW n \in Seq(Messages), n # <<>>, NEW q, q = Tail(n), NEW d, AfterNukes(d, n)
  PROVE  AfterNukes(d, q)
<1> SUFFICES ASSUME NEW j \in DOMAIN q, q[j].type = "nuked", NEW e \in d.entries
             PROVE  Announced(q, e, j) \/ WillRecount(d, q, j)
  BY DEF AfterNukes
<1>1. j \in Nat /\ j + 1 \in DOMAIN n /\ q[j] = n[j + 1]
  BY HandledOne
<1>2. Announced(n, e, j + 1) \/ WillRecount(d, n, j + 1)
  BY <1>1 DEF AfterNukes
<1>3. QED
  BY <1>1, <1>2, AnnouncedLater

\* An entry is stored and announced.
StoredAndSent(d, e, q, n, p) ==
  /\ e \in Entries /\ q.entries = d.entries \cup {e} /\ (d.groups # {} => q.groups # {})
  /\ n \in Seq(Messages) /\ p = Append(n, EntryMessage(e))

LEMMA StoredFacts ==
  ASSUME NEW d, NEW e, NEW q, NEW n, NEW p, StoredAndSent(d, e, q, n, p)
  PROVE  /\ \A x, j : Announced(n, x, j) => Announced(p, x, j)
         /\ \A j : WillRecount(d, n, j) => WillRecount(q, p, j)
         /\ \A j \in 0 .. Len(n) : Announced(p, e, j)
         /\ q.groups # {} => \A j \in 0 .. Len(n) : WillRecount(q, p, j)
<1>1. /\ e \in Entries /\ (d.groups # {} => q.groups # {})
      /\ n \in Seq(Messages) /\ p = Append(n, EntryMessage(e))
  BY DEF StoredAndSent
<1>2. /\ \A j \in 0 .. Len(n) : Announced(p, e, j)
      /\ q.groups # {} => \A j \in 0 .. Len(n) : WillRecount(q, p, j)
  BY <1>1, SentIsAnnounced
<1> DEFINE m == EntryMessage(e)
<1>3. m \in Messages /\ p = Append(n, m)
  BY <1>1, MessagesAre
<1> HIDE DEF m
<1>4. /\ \A x, j : Announced(n, x, j) => Announced(p, x, j)
      /\ \A a, b, j : (a.groups # {} => b.groups # {}) /\ WillRecount(a, n, j)
                        => WillRecount(b, p, j)
  BY <1>1, <1>3, StillAnnounced
<1>5. QED
  BY <1>1, <1>2, <1>4

LEMMA StoredIsHeard ==
  ASSUME NEW d, NEW e, NEW q, NEW n, NEW p, StoredAndSent(d, e, q, n, p),
         NEW m, NEW f, NEW fm, Heard(m, f, d, n, fm)
  PROVE  Heard(m, f, q, p, fm)
<1>1. /\ q.entries = d.entries \cup {e}
      /\ \A x : Announced(n, x, 0) => Announced(p, x, 0)
      /\ WillRecount(d, n, 0) => WillRecount(q, p, 0)
      /\ \A j \in 0 .. Len(n) : Announced(p, e, j)
  BY StoredFacts DEF StoredAndSent
<1>2. 0 \in 0 .. Len(n)
  BY DEF StoredAndSent
<1>3. Announced(p, e, 0)
  BY <1>1, <1>2
<1>4. QED
  BY <1>1, <1>3 DEF Heard

LEMMA StoredIsTold ==
  ASSUME NEW d, NEW e, NEW q, NEW n, NEW p, StoredAndSent(d, e, q, n, p),
         NEW t, NEW f, TreeTells(t, f, d, n), HasKeys(d)
  PROVE  TreeTells(t, f, q, p)
<1>1. /\ q.entries = d.entries \cup {e}
      /\ \A x : Announced(n, x, 0) => Announced(p, x, 0)
      /\ \A j \in 0 .. Len(n) : Announced(p, e, j)
  BY StoredFacts DEF StoredAndSent
<1>2. 0 \in 0 .. Len(n)
  BY DEF StoredAndSent
<1>3. Announced(p, e, 0)
  BY <1>1, <1>2
<1>4. ASSUME NEW x \in Watched(f, q), x # e
      PROVE  x \in Watched(f, d)
  <2>1. x \in Latest(q) /\ x.kind.watched /\ WatchSelects(f, q, x)
    BY DEF Watched
  <2>2. x \in Latest(d)
    BY <1>1, <1>4, <2>1 DEF Latest
  <2>3. WatchSelects(f, d, x)
    <3>1. x \in d.entries
      BY <2>2 DEF Latest
    <3>2. Joined(f, d)
      BY <3>1 DEF HasKeys, Joined
    <3>3. QED
      BY <2>1, <3>2 DEF WatchSelects
  <2>4. QED
    BY <2>1, <2>2, <2>3 DEF Watched
<1>5. QED
  BY <1>1, <1>3, <1>4 DEF TreeTells

LEMMA StoredAfterNukes ==
  ASSUME NEW d, NEW e, NEW q, NEW n, NEW p, StoredAndSent(d, e, q, n, p),
         \A j \in DOMAIN n : n[j].type = "nuked" =>
           \A x \in d.entries : Announced(n, x, j) \/ WillRecount(d, n, j) \/ q.groups # {}
  PROVE  AfterNukes(q, p)
<1>1. /\ e \in Entries /\ q.entries = d.entries \cup {e}
      /\ \A x, j : Announced(n, x, j) => Announced(p, x, j)
      /\ \A j : WillRecount(d, n, j) => WillRecount(q, p, j)
      /\ \A j \in 0 .. Len(n) : Announced(p, e, j)
      /\ q.groups # {} => \A j \in 0 .. Len(n) : WillRecount(q, p, j)
  BY StoredFacts DEF StoredAndSent
<1>2. n \in Seq(Messages) /\ p = Append(n, EntryMessage(e))
  BY DEF StoredAndSent
<1> DEFINE m == EntryMessage(e)
<1>3. m \in Messages /\ m.type = "entry" /\ p = Append(n, m)
  BY <1>1, <1>2, MessagesAre
<1> HIDE DEF m
<1>4. /\ DOMAIN p = 1 .. Len(n) + 1 /\ DOMAIN n = 1 .. Len(n) /\ Len(n) \in Nat
      /\ (\A i \in DOMAIN n : p[i] = n[i]) /\ p[Len(n) + 1] = m
  BY <1>2, <1>3, Sent
<1> SUFFICES ASSUME NEW j \in DOMAIN p, p[j].type = "nuked", NEW x \in q.entries
             PROVE  Announced(p, x, j) \/ WillRecount(q, p, j)
  BY DEF AfterNukes
<1>5. j \in DOMAIN n /\ n[j].type = "nuked" /\ j \in 0 .. Len(n)
  <2>1. j # Len(n) + 1
    BY <1>3, <1>4
  <2>2. QED
    BY <1>4, <2>1
<1>6. CASE x = e
  BY <1>1, <1>5, <1>6
<1>7. CASE x \in d.entries
  <2>1. Announced(n, x, j) \/ WillRecount(d, n, j) \/ q.groups # {}
    BY <1>5, <1>7
  <2>2. QED
    BY <1>1, <1>5, <2>1
<1>8. QED
  BY <1>1, <1>6, <1>7

\* Rows are removed, the most recent ones stay, and the news of it is sent.
LEMMA RemovalIsHeard ==
  ASSUME NEW n \in Seq(Messages), NEW p, p = Append(n, NukedMessage), NEW d, NEW q,
         q.entries \subseteq d.entries, d.groups # {} => q.groups # {},
         NEW m, NEW f, NEW fm, Heard(m, f, d, n, fm)
  PROVE  Heard(m, f, q, p, fm)
<1> DEFINE l == NukedMessage
<1>1. l \in Messages /\ p = Append(n, l)
  BY MessagesAre
<1> HIDE DEF l
<1>2. /\ \A x, j : Announced(n, x, j) => Announced(p, x, j)
      /\ \A a, b, j : (a.groups # {} => b.groups # {}) /\ WillRecount(a, n, j)
                        => WillRecount(b, p, j)
  BY <1>1, StillAnnounced
<1>3. QED
  BY <1>2 DEF Heard

LEMMA RemovalIsTold ==
  ASSUME NEW n \in Seq(Messages), NEW p, p = Append(n, NukedMessage),
         NEW d, WellFormed(d), HasKeys(d), NEW q, q.entries \subseteq d.entries,
         \A x \in q.entries, y \in d.entries : x.id <= y.id => y \in q.entries,
         NEW t, NEW f, TreeTells(t, f, d, n)
  PROVE  TreeTells(t, f, q, p)
<1> DEFINE l == NukedMessage
<1>1. l \in Messages /\ p = Append(n, l)
  BY MessagesAre
<1> HIDE DEF l
<1>2. \A x, j : Announced(n, x, j) => Announced(p, x, j)
  BY <1>1, StillAnnounced
<1>3. ASSUME NEW x \in Watched(f, q)
      PROVE  x \in Watched(f, d)
  <2>1. x \in Latest(q) /\ x.kind.watched /\ WatchSelects(f, q, x)
    BY DEF Watched
  <2>2. x \in Latest(d)
    <3> SUFFICES ASSUME NEW y \in d.entries, y.kind.point = x.kind.point, y.kind.proc = x.kind.proc
                 PROVE  y.id <= x.id
      BY <2>1 DEF Latest
    <3>1. x.id \in Nat /\ y.id \in Nat /\ x \in q.entries
      BY <2>1, DatabaseIs DEF Latest, Entries
    <3>2. CASE x.id <= y.id
      BY <2>1, <3>1, <3>2 DEF Latest
    <3>3. QED
      BY <3>1, <3>2
  <2>3. WatchSelects(f, d, x)
    <3>1. x \in d.entries
      BY <2>2 DEF Latest
    <3>2. Joined(f, d)
      BY <3>1 DEF HasKeys, Joined
    <3>3. QED
      BY <2>1, <3>2 DEF WatchSelects
  <2>4. QED
    BY <2>1, <2>2, <2>3 DEF Watched
<1>4. QED
  BY <1>2, <1>3 DEF TreeTells

\* The parts of the invariant that are about what is on its way.
Settling == KeyedInv /\ HeardInv /\ NukeInv /\ TreeInv

LEMMA StoresSettles ==
  ASSUME SettledInv, KeysAreSent, NEW kind \in Kinds, Stores(kind), UNCHANGED viewerVars
  PROVE  Settling'
<1> DEFINE serial == stored + 1
           e == NewEntry(db, kind, serial)
           q == With(db, e)
           p == Append(net, EntryMessage(e))
<1>1. /\ WellFormed(db) /\ net \in Seq(Messages) /\ stored \in Nat
      /\ KeyedInv /\ HeardInv /\ NukeInv /\ TreeInv
  BY InvIs DEF SettledInv
<1>2. /\ db' = q /\ net' = p
      /\ filter' = filter /\ form' = form /\ model' = model /\ tree' = tree
  BY DEF Stores, viewerVars
<1>3. IsStored(db, kind, serial, e, q) /\ p = Append(net, EntryMessage(e))
  BY <1>1 DEF IsStored
<1> HIDE DEF serial, e, q, p
<1>4. /\ e \in Entries /\ q.entries = db.entries \cup {e}
      /\ q.groups = db.groups \cup KeysOf(kind)
  BY <1>3, WithIs
<1>5. q.groups # {}
  BY <1>4 DEF KeysAreSent, KeysOf
<1>6. StoredAndSent(db, e, q, net, p)
  BY <1>1, <1>3, <1>4, <1>5 DEF StoredAndSent
<1>7. KeyedInv'
  BY <1>2, <1>5 DEF KeyedInv, HasKeys
<1>8. HeardInv'
  BY <1>1, <1>2, <1>6, StoredIsHeard DEF HeardInv
<1>9. TreeInv'
  BY <1>1, <1>2, <1>6, StoredIsTold DEF TreeInv, KeyedInv
<1>10. NukeInv'
  <2>1. AfterNukes(q, p)
    BY <1>5, <1>6, StoredAfterNukes
  <2>2. QED
    BY <1>2, <2>1 DEF NukeInv
<1>11. QED
  BY <1>7, <1>8, <1>9, <1>10 DEF Settling

\* The keys go with the rows that are archived, but the entry brings others: the
\* rows are first removed from a database that has these (d).
LEMMA ArchivesSettles ==
  ASSUME SettledInv, KeysAreSent, NEW kind \in Kinds, NEW keep \in Keeps, Archives(kind, keep),
         UNCHANGED viewerVars
  PROVE  Settling'
<1> DEFINE serial == stored + 1
           a == Archived(db, keep)
           n == Append(net, NukedMessage)
           e == NewEntry(a, kind, serial)
           q == With(a, e)
           p == Append(n, EntryMessage(e))
           d == [entries |-> a.entries, groups |-> q.groups]
           l == NukedMessage
<1>1. /\ WellFormed(db) /\ net \in Seq(Messages) /\ stored \in Nat
      /\ KeyedInv /\ HeardInv /\ NukeInv /\ TreeInv
  BY InvIs DEF SettledInv
<1>2. IsKept(db, keep, a)
  BY <1>1, EntryModelAssumption DEF IsKept
<1>3. /\ d.entries = a.entries /\ d.groups = q.groups
      /\ n = Append(net, NukedMessage) /\ p = Append(n, EntryMessage(e))
  OBVIOUS
<1>4. NewEntry(db, kind, stored + 1) = e
  BY <1>2, KeptIs DEF NewEntry
<1>5. /\ db' = q /\ net' = net \o <<NukedMessage, EntryMessage(e)>>
      /\ filter' = filter /\ form' = form /\ model' = model /\ tree' = tree
  BY <1>4 DEF Archives, viewerVars
<1>6. l \in Messages /\ n = Append(net, l) /\ n \in Seq(Messages)
  BY <1>1, MessagesAre
<1> HIDE DEF a, n, e, q, p, d, l, serial
<1>7. /\ WellFormed(a) /\ a.entries \subseteq db.entries
      /\ \A x \in a.entries, y \in db.entries : x.id <= y.id => y \in a.entries
  BY <1>2, KeptIs
<1>8. /\ e \in Entries /\ q.entries = a.entries \cup {e}
      /\ q.groups = a.groups \cup KeysOf(kind)
  <2>1. IsStored(a, kind, serial, e, q)
    BY <1>1, <1>7 DEF IsStored, serial, e, q
  <2>2. QED
    BY <2>1, WithIs
<1>9. q.groups # {} /\ HasKeys(d)
  BY <1>3, <1>8 DEF KeysAreSent, KeysOf, HasKeys
<1>10. StoredAndSent(d, e, q, n, p)
  BY <1>3, <1>6, <1>8 DEF StoredAndSent
<1>11. net' = p
  <2> DEFINE m == EntryMessage(e)
  <2>1. m \in Messages /\ net' = net \o <<l, m>>
    BY <1>5, <1>8, MessagesAre DEF l
  <2> HIDE DEF m, l
  <2>2. net' = Append(Append(net, l), m)
    BY <1>1, <1>6, <2>1, SentTwo
  <2>3. QED
    BY <1>3, <2>2 DEF m, l
<1>12. KeyedInv'
  BY <1>5, <1>9 DEF KeyedInv, HasKeys
<1>13. HeardInv'
  <2>1. Heard(model, filter, d, n, form)
    BY <1>1, <1>3, <1>7, <1>9, RemovalIsHeard DEF HeardInv
  <2>2. Heard(model, filter, q, p, form)
    BY <1>10, <2>1, StoredIsHeard
  <2>3. QED
    BY <1>5, <1>11, <2>2 DEF HeardInv
<1>14. TreeInv'
  <2>1. TreeTells(tree, filter, d, n)
    BY <1>1, <1>3, <1>7, RemovalIsTold DEF TreeInv, KeyedInv
  <2>2. TreeTells(tree, filter, q, p)
    BY <1>9, <1>10, <2>1, StoredIsTold
  <2>3. QED
    BY <1>5, <1>11, <2>2 DEF TreeInv
<1>15. NukeInv'
  <2>1. AfterNukes(q, p)
    BY <1>9, <1>10, StoredAfterNukes
  <2>2. QED
    BY <1>5, <1>11, <2>1 DEF NukeInv
<1>16. QED
  BY <1>12, <1>13, <1>14, <1>15 DEF Settling

LEMMA NukesSettles ==
  ASSUME SettledInv, Nukes, UNCHANGED viewerVars
  PROVE  Settling'
<1>1. WellFormed(db)
  BY InvIs DEF SettledInv
<1>2. /\ db' = [db EXCEPT !.entries = {}, !.last = 0]
      /\ filter' = filter /\ form' = form /\ model' = model /\ tree' = tree
  BY DEF Nukes, viewerVars
<1> DEFINE q == [db EXCEPT !.entries = {}, !.last = 0]
<1>3. q = [db EXCEPT !.entries = {}, !.last = 0] /\ db' = q
  BY <1>2
<1> HIDE DEF q
<1>4. q.entries = {}
  BY <1>1, <1>3, TrimmedIs
<1>5. KeyedInv'
  BY <1>3, <1>4 DEF KeyedInv, HasKeys
<1>6. HeardInv' /\ NukeInv'
  BY <1>3, <1>4 DEF HeardInv, Heard, NukeInv, AfterNukes
<1>7. TreeInv'
  BY <1>3, <1>4 DEF TreeInv, TreeTells, Watched, Latest
<1>8. QED
  BY <1>5, <1>6, <1>7 DEF Settling

\* The viewer's steps that handle no message and count nothing.
LEMMA ViewerSettles ==
  ASSUME SettledInv, UNCHANGED daemonVars, filter' = filter,
         model'.numNew = 0 => Heard(model', filter, db, net, form'),
         TreeTells(tree', filter, db, net)
  PROVE  Settling'
<1>1. db' = db /\ net' = net
  BY DEF daemonVars
<1>2. KeyedInv'
  BY <1>1 DEF SettledInv, KeyedInv
<1>3. HeardInv'
  BY <1>1 DEF HeardInv, Heard
<1>4. NukeInv' /\ TreeInv'
  BY <1>1 DEF SettledInv, NukeInv, TreeInv
<1>5. QED
  BY <1>2, <1>3, <1>4 DEF Settling

LEMMA SettledFacts ==
  ASSUME SettledInv
  PROVE  /\ IsModel(model) /\ IsTree(tree) /\ WellFormed(db) /\ filter \in Filters /\ form \in Forms
         /\ net \in Seq(Messages)
         /\ HasKeys(db)
         /\ Heard(model, filter, db, net, form) /\ AfterNukes(db, net)
         /\ TreeTells(tree, filter, db, net)
BY InvIs DEF SettledInv, KeyedInv, HeardInv, NukeInv, TreeInv

LEMMA SameRowsHear ==
  ASSUME NEW m, NEW q, SameRows(q, m), q.numNew = m.numNew, NEW f, NEW d, NEW n,
         NEW fm, NEW fn, DOMAIN fn.keys = DOMAIN fm.keys, Heard(m, f, d, n, fm)
  PROVE  Heard(q, f, d, n, fn)
BY SameRowsShow DEF Heard

LEMMA SameItemsTell ==
  ASSUME NEW t, NEW q, q.items = t.items, q.dirty = t.dirty, NEW f, NEW d, NEW n,
         TreeTells(t, f, d, n)
  PROVE  TreeTells(q, f, d, n)
BY DEF TreeTells

LEMMA InsertedHears ==
  ASSUME PidsAreRows, NEW m, IsModel(m), NEW d, WellFormed(d), NEW f \in Filters, HasKeys(d),
         NEW q, q = insertNewTraceEntries(m, f, d), NEW n, NEW fm, Heard(m, f, d, n, fm)
  PROVE  Heard(q, f, d, n, fm)
<1>1. /\ m.numNew = 0 => q = m
      /\ m.numNew # 0 => Complete(q, f, d)
  BY InsertedIs
<1>2. QED
  BY <1>1, CompleteHears

LEMMA ShownTells ==
  ASSUME NEW t, IsTree(t), NEW d, WellFormed(d), NEW f, NEW q, q = showNewTraceEntries(t, f, d),
         NEW n, t.dirty \/ TreeTells(t, f, d, n)
  PROVE  TreeTells(q, f, d, n)
<1>1. /\ t.dirty /\ t.visible => ~ q.dirty /\ Shows(q, f, d)
      /\ ~ (t.dirty /\ t.visible) => q = t
  BY ShownIs
<1>2. CASE t.dirty /\ t.visible
  BY <1>1, <1>2, ShowsTells
<1>3. CASE ~ (t.dirty /\ t.visible)
  BY <1>1, <1>3 DEF TreeTells
<1>4. QED
  BY <1>2, <1>3

LEMMA ReAppliedTells ==
  ASSUME NEW t, IsTree(t), NEW d, WellFormed(d), NEW f, NEW q, q = TreeReApplied(t, f, d), NEW n
  PROVE  TreeTells(q, f, d, n)
<1>1. ~ q.dirty => Shows(q, f, d)
  BY ReAppliedIs
<1>2. QED
  BY <1>1, ShowsTells

LEMMA ModelTimeoutSettles ==
  ASSUME SettledInv, PidsAreRows, ModelTimeout
  PROVE  Settling'
<1> DEFINE w == [model EXCEPT !.timer = FALSE]
           q == insertNewTraceEntries(w, filter, db)
<1>1. /\ UNCHANGED daemonVars /\ model' = q
      /\ filter' = filter /\ form' = form /\ tree' = tree
  BY DEF ModelTimeout, Viewer
<1>2. /\ IsModel(model) /\ WellFormed(db) /\ filter \in Filters
      /\ HasKeys(db) /\ Heard(model, filter, db, net, form)
      /\ TreeTells(tree, filter, db, net)
  BY SettledFacts
<1>3. IsModel(w) /\ SameRows(w, model) /\ w.numNew = model.numNew
  BY <1>2, TimerSet
<1>4. q = insertNewTraceEntries(w, filter, db)
  OBVIOUS
<1> HIDE DEF w, q
<1>5. Heard(w, filter, db, net, form)
  BY <1>2, <1>3, SameRowsHear
<1>6. Heard(q, filter, db, net, form)
  BY <1>2, <1>3, <1>4, <1>5, InsertedHears
<1>7. QED
  BY <1>1, <1>2, <1>6, ViewerSettles

LEMMA TreeTimeoutSettles ==
  ASSUME SettledInv, TreeTimeout
  PROVE  Settling'
<1> DEFINE w == [tree EXCEPT !.timer = FALSE]
           q == showNewTraceEntries(w, filter, db)
<1>1. /\ UNCHANGED daemonVars /\ tree' = q
      /\ filter' = filter /\ form' = form /\ model' = model
  BY DEF TreeTimeout, Viewer
<1>2. /\ IsTree(tree) /\ WellFormed(db)
      /\ Heard(model, filter, db, net, form) /\ TreeTells(tree, filter, db, net)
  BY SettledFacts
<1>3. IsTree(w) /\ w.items = tree.items /\ w.dirty = tree.dirty
  BY <1>2, TreeFieldSet
<1>4. q = showNewTraceEntries(w, filter, db)
  OBVIOUS
<1> HIDE DEF w, q
<1>5. TreeTells(w, filter, db, net)
  BY <1>2, <1>3, SameItemsTell
<1>6. TreeTells(q, filter, db, net)
  BY <1>2, <1>3, <1>4, <1>5, ShownTells
<1>7. QED
  BY <1>1, <1>2, <1>6, ViewerSettles

LEMMA FreezeSettles ==
  ASSUME SettledInv, Freeze
  PROVE  Settling'
<1> DEFINE w == [model EXCEPT !.suspended = TRUE]
           v == [tree EXCEPT !.suspended = TRUE]
<1>1. /\ UNCHANGED daemonVars /\ model' = w /\ tree' = v
      /\ filter' = filter /\ form' = form
  BY DEF Freeze, Viewer
<1>2. /\ IsModel(model) /\ IsTree(tree)
      /\ Heard(model, filter, db, net, form) /\ TreeTells(tree, filter, db, net)
  BY SettledFacts
<1>3. SameRows(w, model) /\ w.numNew = model.numNew
  BY <1>2, SuspendedSet
<1>4. v.items = tree.items /\ v.dirty = tree.dirty
  BY <1>2, TreeFieldSet
<1> HIDE DEF w, v
<1>5. Heard(w, filter, db, net, form)
  BY <1>2, <1>3, SameRowsHear
<1>6. TreeTells(v, filter, db, net)
  BY <1>2, <1>4, SameItemsTell
<1>7. QED
  BY <1>1, <1>5, <1>6, ViewerSettles

LEMMA ResumeSettles ==
  ASSUME SettledInv, PidsAreRows, Resume
  PROVE  Settling'
<1> DEFINE w == [model EXCEPT !.suspended = FALSE]
           v == [tree EXCEPT !.suspended = FALSE]
           q == insertNewTraceEntries(w, filter, db)
           t == showNewTraceEntries(v, filter, db)
<1>1. /\ UNCHANGED daemonVars /\ model' = q /\ tree' = t
      /\ filter' = filter /\ form' = form
  BY DEF Resume, Viewer, Resumed
<1>2. /\ IsModel(model) /\ IsTree(tree) /\ WellFormed(db) /\ filter \in Filters
      /\ HasKeys(db)
      /\ Heard(model, filter, db, net, form) /\ TreeTells(tree, filter, db, net)
  BY SettledFacts
<1>3. IsModel(w) /\ SameRows(w, model) /\ w.numNew = model.numNew
  BY <1>2, SuspendedSet
<1>4. IsTree(v) /\ v.items = tree.items /\ v.dirty = tree.dirty
  BY <1>2, TreeFieldSet
<1>5. q = insertNewTraceEntries(w, filter, db) /\ t = showNewTraceEntries(v, filter, db)
  OBVIOUS
<1> HIDE DEF w, v, q, t
<1>6. Heard(w, filter, db, net, form)
  BY <1>2, <1>3, SameRowsHear
<1>7. TreeTells(v, filter, db, net)
  BY <1>2, <1>4, SameItemsTell
<1>8. Heard(q, filter, db, net, form)
  BY <1>2, <1>3, <1>5, <1>6, InsertedHears
<1>9. TreeTells(t, filter, db, net)
  BY <1>2, <1>4, <1>5, <1>7, ShownTells
<1>10. QED
  BY <1>1, <1>8, <1>9, ViewerSettles

LEMMA PaintSettles ==
  ASSUME SettledInv, NEW row \in Nat, Paint(row)
  PROVE  Settling'
<1> DEFINE q == queryForEntries(model, filter, db, row)
           m == IF InPage(model, row) THEN model ELSE q
<1>1. /\ UNCHANGED daemonVars /\ row < RowCount(model) /\ model' = m
      /\ filter' = filter /\ form' = form /\ tree' = tree
  BY DEF Paint, Viewer
<1>2. /\ IsModel(model) /\ WellFormed(db)
      /\ Heard(model, filter, db, net, form) /\ TreeTells(tree, filter, db, net)
  BY SettledFacts
<1>3. q = queryForEntries(model, filter, db, row)
  OBVIOUS
<1> HIDE DEF q
<1>4. SameNews(q, model) /\ q.ids = model.ids /\ q.numMatching = model.numMatching
  BY <1>1, <1>2, <1>3, QueryType
<1>5. Ids(q) = Ids(model)
  BY <1>4 DEF Ids, RowCount
<1>6. Heard(q, filter, db, net, form)
  BY <1>2, <1>4, <1>5 DEF Heard, SameNews
<1>7. Heard(m, filter, db, net, form)
  BY <1>2, <1>6
<1>8. QED
  BY <1>1, <1>2, <1>7, ViewerSettles

LEMMA ShowTreeSettles ==
  ASSUME SettledInv, ShowTree
  PROVE  Settling'
<1> DEFINE w == [tree EXCEPT !.visible = TRUE]
           q == TreeReApplied(w, filter, db)
<1>1. /\ UNCHANGED daemonVars /\ tree' = IF tree.dirty THEN q ELSE w
      /\ filter' = filter /\ form' = form /\ model' = model
  BY DEF ShowTree, Viewer
<1>2. /\ IsTree(tree) /\ WellFormed(db)
      /\ Heard(model, filter, db, net, form) /\ TreeTells(tree, filter, db, net)
  BY SettledFacts
<1>3. IsTree(w) /\ w.items = tree.items /\ w.dirty = tree.dirty
  BY <1>2, TreeFieldSet
<1>4. q = TreeReApplied(w, filter, db)
  OBVIOUS
<1> HIDE DEF w, q
<1>5. TreeTells(w, filter, db, net)
  BY <1>2, <1>3, SameItemsTell
<1>6. TreeTells(q, filter, db, net)
  BY <1>2, <1>3, <1>4, ReAppliedTells
<1>7. TreeTells(tree', filter, db, net)
  BY <1>1, <1>5, <1>6
<1>8. QED
  BY <1>1, <1>2, <1>7, ViewerSettles

LEMMA HideTreeSettles ==
  ASSUME SettledInv, HideTree
  PROVE  Settling'
<1> DEFINE w == [tree EXCEPT !.visible = FALSE]
<1>1. /\ UNCHANGED daemonVars /\ tree' = w
      /\ filter' = filter /\ form' = form /\ model' = model
  BY DEF HideTree, Viewer
<1>2. IsTree(tree) /\ Heard(model, filter, db, net, form) /\ TreeTells(tree, filter, db, net)
  BY SettledFacts
<1>3. w.items = tree.items /\ w.dirty = tree.dirty
  BY <1>2, TreeFieldSet
<1> HIDE DEF w
<1>4. TreeTells(w, filter, db, net)
  BY <1>2, <1>3, SameItemsTell
<1>5. QED
  BY <1>1, <1>2, <1>4, ViewerSettles

LEMMA CheckKeySettles ==
  ASSUME SettledInv, NEW key, CheckKey(key)
  PROVE  Settling'
<1> DEFINE q == [form EXCEPT !.keys[key] = ~ @, !.edited = TRUE]
<1>1. /\ UNCHANGED daemonVars /\ key \in DOMAIN form.keys /\ form' = q
      /\ filter' = filter /\ tree' = tree /\ model' = model
  BY DEF CheckKey, Viewer
<1>2. form \in Forms /\ Heard(model, filter, db, net, form) /\ TreeTells(tree, filter, db, net)
  BY SettledFacts
<1>3. q = Clicked(form, key)
  BY DEF Clicked
<1> HIDE DEF q
<1>4. DOMAIN q.keys = DOMAIN form.keys
  BY <1>1, <1>2, <1>3, KeyChecked
<1>5. Heard(model, filter, db, net, q)
  BY <1>2, <1>4 DEF Heard
<1>6. QED
  BY <1>1, <1>2, <1>4, <1>5, ViewerSettles

LEMMA ApplySettles ==
  ASSUME SettledInv, PidsAreRows, NEW text \in Texts, NEW pid \in Pids, NEW b \in BOOLEAN,
         Apply(text, pid, b)
  PROVE  Settling'
<1> DEFINE off == {k \in DOMAIN form.keys : ~ form.keys[k]}
           f == [text |-> text, pid |-> pid, withoutKey |-> b, inactive |-> off]
           q == Recounted(model, f, db)
           t == TreeReApplied(tree, f, db)
           fm == [form EXCEPT !.edited = FALSE]
<1>1. /\ UNCHANGED daemonVars /\ filter' = f /\ model' = q /\ tree' = t /\ form' = fm
  BY DEF Apply, Viewer, FilterChanged
<1>2. /\ IsModel(model) /\ IsTree(tree) /\ WellFormed(db) /\ form \in Forms
      /\ HasKeys(db) /\ AfterNukes(db, net)
  BY SettledFacts
<1>3. DOMAIN form.keys \in SUBSET Keys
  BY <1>2, KeyListIs DEF Forms
<1>4. f \in Filters
  <2>1. off \in SUBSET Keys /\ text \in TextCriteria
    BY <1>3, EntryModelAssumption
  <2> HIDE DEF off
  <2>2. QED
    BY <2>1 DEF Filters
<1> HIDE DEF f
<1>5. q = Recounted(model, f, db) /\ t = TreeReApplied(tree, f, db)
      /\ fm = [form EXCEPT !.edited = FALSE]
  OBVIOUS
<1> HIDE DEF q, t, fm
<1>6. Complete(q, f, db)
  BY <1>2, <1>5, RecountedIs
<1>7. fm.keys = form.keys
  BY <1>2, <1>5, EditedSet
<1>8. Heard(q, f, db, net, fm)
  BY <1>2, <1>4, <1>6, CompleteHears
<1>9. TreeTells(t, f, db, net)
  BY <1>2, <1>5, ReAppliedTells
<1>10. db' = db /\ net' = net
  BY <1>1 DEF daemonVars
<1>11. KeyedInv'
  BY <1>2, <1>10 DEF KeyedInv
<1>12. HeardInv' /\ TreeInv' /\ NukeInv'
  BY <1>1, <1>2, <1>8, <1>9, <1>10 DEF HeardInv, TreeInv, NukeInv
<1>13. QED
  BY <1>11, <1>12 DEF Settling

LEMMA EntrySettles ==
  ASSUME SettledInv, PidsAreRows, HandleNewTraceEntry
  PROVE  Settling'
<1> DEFINE e == Head(net).entry
           q == Arrives(TableOf, FilterOf, e)
           t == TreeArrives(TreeOf, FilterOf, e)
           fm == AddTraceKeys(FormOf, db.groups)
           n == Tail(net)
<1>1. /\ net # <<>> /\ Head(net).type = "entry" /\ net' = n
      /\ db' = db /\ form' = fm /\ filter' = FilterOf /\ model' = q /\ tree' = t
  BY EntryHandled
<1>2. /\ IsModel(model) /\ IsTree(tree) /\ WellFormed(db) /\ filter \in Filters /\ form \in Forms
      /\ net \in Seq(Messages)
      /\ HasKeys(db)
      /\ Heard(model, filter, db, net, form) /\ AfterNukes(db, net)
      /\ TreeTells(tree, filter, db, net)
  BY SettledFacts
<1>3. q = Arrives(TableOf, FilterOf, e) /\ t = TreeArrives(TreeOf, FilterOf, e)
      /\ fm = AddTraceKeys(FormOf, db.groups) /\ n = Tail(net) /\ e = Head(net).entry
  OBVIOUS
<1> HIDE DEF q, t, fm, e, n
<1>4. IsModel(TableOf) /\ SameNews(TableOf, model) /\ IsTree(TreeOf)
  BY <1>2, TableOfIs, TreeOfIs
<1>5. /\ SameRows(q, TableOf)
      /\ matches(FilterOf, e) => q.numNew = TableOf.numNew + 1
      /\ ~ matches(FilterOf, e) => q = TableOf
  BY <1>3, <1>4, ArrivesIs
<1>6. /\ matches(FilterOf, e) /\ e.kind.watched => t.dirty
      /\ ~ (matches(FilterOf, e) /\ e.kind.watched) => t = TreeOf
  BY <1>3, <1>4, TreeArrivesIs
<1>7. /\ FormOf \in Forms /\ db.groups \in SUBSET Keys
      /\ DOMAIN FormOf.keys \subseteq DOMAIN form.keys
      /\ FilterOf \in Filters /\ (NewOnes = {} => FilterOf = filter)
  BY <1>1, <1>2, SentKeysAre, FormOfIs, FilterOfIs
<1>8. NewOnes = db.groups \ DOMAIN FormOf.keys
  BY DEF NewOnes, NewKeys
<1>9. KeyedInv'
  BY <1>1, <1>2 DEF KeyedInv
<1>10. \A x : Announced(net, x, 0) => Head(net) = EntryMessage(x) \/ Announced(n, x, 0)
  <2> DEFINE zero == 0
  <2>1. zero \in Nat
    OBVIOUS
  <2> HIDE DEF zero
  <2>2. \A x : Announced(net, x, 0) => Head(net) = EntryMessage(x) \/ Announced(n, x, 0)
    BY <1>1, <1>2, <1>3, <2>1, AnnouncedLater
  <2>3. QED
    BY <2>2
<1>11. \A x : Head(net) = EntryMessage(x) => x = e
  BY <1>3 DEF EntryMessage
<1>12. Heard(q, FilterOf, db, n, fm)
  <2> SUFFICES ASSUME q.numNew = 0, NEW x \in db.entries, matches(FilterOf, x)
               PROVE  x.id \in Range(Ids(q)) \/ Announced(n, x, 0)
    BY DEF Heard
  <2>1. ~ matches(FilterOf, e) /\ q = TableOf /\ model.numNew = 0
    <3>1. TableOf.numNew \in Nat /\ TableOf.numNew = model.numNew
      BY <1>4 DEF IsModel, Models, SameNews
    <3>2. ~ matches(FilterOf, e)
      BY <1>5, <3>1
    <3>3. QED
      BY <1>5, <3>1, <3>2
  <2>2. CASE NewOnes # {}
    <3>1. Complete(q, FilterOf, db)
      BY <1>2, <2>1, <2>2, TableOfIs
    <3>2. \A a, c : Heard(q, FilterOf, db, a, c)
      BY <1>2, <1>7, <3>1, CompleteHears
    <3>3. Heard(q, FilterOf, db, <<>>, fm)
      BY <3>2
    <3>4. DOMAIN <<>> = {}
      OBVIOUS
    <3>5. QED
      BY <3>3, <3>4 DEF Heard, Announced, WillRecount
  <2>3. CASE NewOnes = {}
    <3>1. q = model /\ FilterOf = filter
      BY <1>2, <1>7, <2>1, <2>3, TableOfIs
    <3>2. x.id \in Range(Ids(model)) \/ Announced(net, x, 0)
          \/ (DOMAIN form.keys = {} /\ WillRecount(db, net, 0))
      BY <1>2, <2>1, <3>1 DEF Heard
    <3>3. ~ (DOMAIN form.keys = {} /\ WillRecount(db, net, 0))
      BY <1>7, <1>8, <2>3 DEF WillRecount
    <3>4. Head(net) # EntryMessage(x)
      BY <1>11, <2>1
    <3>5. QED
      BY <1>10, <3>1, <3>2, <3>3, <3>4
  <2>4. QED
    BY <2>2, <2>3
<1>13. TreeTells(t, FilterOf, db, n)
  <2>1. CASE NewOnes # {}
    <3>1. ~ TreeOf.dirty => Shows(TreeOf, FilterOf, db)
      BY <1>2, <2>1, TreeOfIs
    <3>2. TreeTells(TreeOf, FilterOf, db, n)
      BY <3>1, ShowsTells
    <3>3. QED
      BY <1>6, <3>2 DEF TreeTells
  <2>2. CASE NewOnes = {}
    <3>1. TreeOf = tree /\ FilterOf = filter
      BY <1>2, <1>7, <2>2, TreeOfIs
    <3> SUFFICES ASSUME ~ t.dirty,
                        NEW x \in {y \in Watched(filter, db) : matches(filter, y)}
                 PROVE  \/ Item(x) \in DOMAIN t.items /\ t.items[Item(x)] = x.serial
                        \/ Announced(n, x, 0)
      BY <3>1 DEF TreeTells
    <3>2. ~ (matches(filter, e) /\ e.kind.watched) /\ t = tree
      BY <1>6, <3>1
    <3>3. \/ Item(x) \in DOMAIN t.items /\ t.items[Item(x)] = x.serial
          \/ Announced(net, x, 0)
      BY <1>2, <3>2 DEF TreeTells
    <3>4. x.kind.watched /\ matches(filter, x)
      BY DEF Watched
    <3>5. Head(net) # EntryMessage(x)
      BY <1>11, <3>2, <3>4
    <3>6. QED
      BY <1>10, <3>3, <3>5
  <2>3. QED
    BY <2>1, <2>2
<1>14. AfterNukes(db, n)
  BY <1>1, <1>2, <1>3, AfterNukesHandled
<1>15. HeardInv' /\ TreeInv' /\ NukeInv'
  BY <1>1, <1>12, <1>13, <1>14 DEF HeardInv, TreeInv, NukeInv
<1>16. QED
  BY <1>9, <1>15 DEF Settling

LEMMA NukedSettles ==
  ASSUME SettledInv, DatabaseWasNuked
  PROVE  Settling'
<1> DEFINE q == Cleared(model)
           t == TreeReApplied(tree, filter, db)
           none == {}
           fm == SetTraceKeys(form, none)
           n == Tail(net)
<1>1. /\ net # <<>> /\ Head(net).type = "nuked" /\ net' = n
      /\ db' = db /\ form' = fm /\ filter' = filter /\ model' = q /\ tree' = t
  BY DEF DatabaseWasNuked, Received
<1>2. /\ IsModel(model) /\ IsTree(tree) /\ WellFormed(db) /\ form \in Forms
      /\ net \in Seq(Messages) /\ KeyedInv /\ AfterNukes(db, net)
  BY SettledFacts DEF SettledInv
<1>3. t = TreeReApplied(tree, filter, db) /\ fm = SetTraceKeys(form, none)
      /\ none \in SUBSET Keys /\ n = Tail(net)
  OBVIOUS
<1> HIDE DEF q, t, fm, none, n
<1>4. DOMAIN fm.keys = {}
  BY <1>2, <1>3, SetTraceKeysIs DEF none
<1>5. KeyedInv'
  BY <1>1, <1>2 DEF KeyedInv
<1>6. Heard(q, filter, db, n, fm)
  <2> DEFINE zero == 0
  <2>1. zero \in Nat
    OBVIOUS
  <2> HIDE DEF zero
  <2>2. /\ \A e : Announced(net, e, zero + 1) => Announced(n, e, zero)
        /\ \A d : WillRecount(d, net, zero + 1) => WillRecount(d, n, zero)
    BY <1>1, <1>2, <1>3, <2>1, AnnouncedLater
  <2>3. /\ \A e : Announced(net, e, 1) => Announced(n, e, 0)
        /\ WillRecount(db, net, 1) => WillRecount(db, n, 0)
    BY <2>2 DEF zero
  <2>4. 1 \in DOMAIN net /\ net[1].type = "nuked"
    BY <1>1, <1>2
  <2>5. \A e \in db.entries : Announced(net, e, 1) \/ WillRecount(db, net, 1)
    BY <1>2, <2>4 DEF AfterNukes
  <2>6. QED
    BY <1>4, <2>3, <2>5 DEF Heard
<1>7. TreeTells(t, filter, db, n)
  BY <1>2, <1>3, ReAppliedTells
<1>8. AfterNukes(db, n)
  BY <1>1, <1>2, <1>3, AfterNukesHandled
<1>9. HeardInv' /\ TreeInv' /\ NukeInv'
  BY <1>1, <1>6, <1>7, <1>8 DEF HeardInv, TreeInv, NukeInv
<1>10. QED
  BY <1>5, <1>9 DEF Settling

LEMMA OpenSettles ==
  ASSUME SettledInv, PidsAreRows, KeysAreSent,
         NEW d \in OtherDatabases \cup {db}, OpenDatabase(d)
  PROVE  Settling'
<1> DEFINE f == OpenFilter(d)
           q == queryForEntries(NewModel, f, d, 0)
           w == DirtyTree(d)
           t == showNewTraceEntries(w, f, d)
           fm == SetTraceKeys(form, d.groups)
<1>1. db' = d /\ net' = <<>> /\ filter' = f /\ form' = fm /\ model' = q /\ tree' = t
  BY DatabaseOpened
<1>2. /\ IsTree(tree) /\ WellFormed(db) /\ filter \in Filters /\ form \in Forms
      /\ HasKeys(db)
  BY SettledFacts
<1>3. WellFormed(d)
  BY <1>2, EntryModelAssumption
<1>4. /\ d.groups \in SUBSET Keys /\ f \in Filters /\ (d.groups = {} => f = filter)
      /\ IsTree(w) /\ w.dirty = TRUE
  BY <1>2, <1>3, OpenPartsAre
<1>5. q = queryForEntries(NewModel, f, d, 0) /\ t = showNewTraceEntries(w, f, d)
      /\ fm = SetTraceKeys(form, d.groups)
  OBVIOUS
<1> HIDE DEF f, q, w, t, fm
<1>6. HasKeys(d)
  BY <1>2 DEF KeysAreSent
<1>7. KeyedInv'
  BY <1>1, <1>6 DEF KeyedInv
<1> DEFINE n == <<>>
<1>8. n = <<>> /\ DOMAIN n = {}
  OBVIOUS
<1> HIDE DEF n
<1>9. Heard(q, f, d, n, fm)
  <2>1. Complete(q, f, d)
    BY <1>3, <1>5, FirstQueryIs
  <2>2. QED
    BY <1>3, <1>4, <1>6, <2>1, CompleteHears
<1>10. TreeTells(t, f, d, n)
  BY <1>3, <1>4, <1>5, ShownTells
<1>11. AfterNukes(d, n)
  BY <1>8 DEF AfterNukes
<1>12. HeardInv' /\ TreeInv' /\ NukeInv'
  BY <1>1, <1>8, <1>9, <1>10, <1>11 DEF HeardInv, TreeInv, NukeInv
<1>13. QED
  BY <1>7, <1>12 DEF Settling

LEMMA SettledInit ==
  ASSUME Init, PidsAreRows, KeysAreSent
  PROVE  SettledInv
<1> DEFINE d == FirstDatabase
           f == NewFilter
           q == queryForEntries(NewModel, f, d, 0)
           fm == SetTraceKeys(NewForm, d.groups)
<1>1. db = d /\ net = <<>> /\ filter = f /\ form = fm /\ model = q /\ tree = NewTree
  BY DEF Init
<1>2. TableInv
  BY TableInit
<1>3. WellFormed(d) /\ f \in Filters /\ NewForm \in Forms
  BY <1>1, <1>2, NewFormIs, EntryModelAssumption DEF TableInv, TypeInv
<1>4. HasKeys(d)
  BY DEF KeysAreSent
<1>5. q = queryForEntries(NewModel, f, d, 0)
  OBVIOUS
<1> HIDE DEF d, f, q, fm
<1>6. Complete(q, f, d)
  BY <1>3, <1>5, FirstQueryIs
<1>7. HeardInv
  <2>1. \A n, c : Heard(q, f, d, n, c)
    BY <1>3, <1>4, <1>6, CompleteHears
  <2>2. QED
    BY <1>1, <2>1 DEF HeardInv
<1>8. KeyedInv
  BY <1>1, <1>4 DEF KeyedInv
<1>9. TreeInv
  BY <1>1 DEF TreeInv, TreeTells, NewTree
<1>10. NukeInv
  <2>1. DOMAIN net = {}
    BY <1>1
  <2>2. QED
    BY <2>1 DEF NukeInv, AfterNukes
<1>11. QED
  BY <1>2, <1>7, <1>8, <1>9, <1>10 DEF SettledInv

LEMMA SettledStep ==
  ASSUME SettledInv, PidsAreRows, KeysAreSent, [Next]_vars
  PROVE  SettledInv'
<1>1. TableInv'
  BY TableStep DEF SettledInv
<1>2. Settling'
  <2>1. CASE Daemon
    <3>1. UNCHANGED viewerVars
      BY <2>1 DEF Daemon, viewerVars
    <3>2. CASE \E kind \in Kinds : Stores(kind)
      BY <3>1, <3>2, StoresSettles
    <3>3. CASE \E kind \in Kinds : \E keep \in Keeps : Archives(kind, keep)
      BY <3>1, <3>3, ArchivesSettles
    <3>4. CASE Nukes
      BY <3>1, <3>4, NukesSettles
    <3>5. QED
      BY <2>1, <3>2, <3>3, <3>4 DEF Daemon
  <2>2. CASE HandleNewTraceEntry
    BY <2>2, EntrySettles
  <2>3. CASE DatabaseWasNuked
    BY <2>3, NukedSettles
  <2>4. CASE ModelTimeout
    BY <2>4, ModelTimeoutSettles
  <2>5. CASE TreeTimeout
    BY <2>5, TreeTimeoutSettles
  <2>6. CASE User
    <3>1. CASE Freeze
      BY <3>1, FreezeSettles
    <3>2. CASE Resume
      BY <3>2, ResumeSettles
    <3>3. CASE ShowTree
      BY <3>3, ShowTreeSettles
    <3>4. CASE HideTree
      BY <3>4, HideTreeSettles
    <3>5. CASE \E row \in 0 .. MaxStored : Paint(row)
      BY <3>5, PaintSettles
    <3>6. CASE \E key \in Keys : CheckKey(key)
      BY <3>6, CheckKeySettles
    <3>7. CASE \E text \in Texts, pid \in Pids, b \in BOOLEAN : Apply(text, pid, b)
      BY <3>7, ApplySettles
    <3>8. CASE \E d \in OtherDatabases \cup {db} : OpenDatabase(d)
      BY <3>8, OpenSettles
    <3>9. QED
      BY <2>6, <3>1, <3>2, <3>3, <3>4, <3>5, <3>6, <3>7, <3>8 DEF User
  <2>7. CASE UNCHANGED vars
    BY <2>7 DEF vars, daemonVars, SettledInv, Settling, KeyedInv, HeardInv, NukeInv,
                TreeInv
  <2>8. QED
    BY <2>1, <2>2, <2>3, <2>4, <2>5, <2>6, <2>7 DEF Next
<1>3. QED
  BY <1>1, <1>2 DEF SettledInv, Settling

\* Whatever the bounds, and for every page size: when nothing is on its way or
\* pending, the table has the matching entries of the database in their order and
\* none the filter is against, and the tree the last value of every variable
\* that matches.  The entries are counted and
\* announced by two programs (databasefeeder.cpp stores them, server.cpp:347
\* sends them); the viewer counts when it opens, filters, resumes or paints, and
\* forgets the table when it hears of a removal (mainwindow.cpp:784).  That every
\* entry brings keys is needed: what archiving leaves is only counted again when a
\* key is new to the list that the removal has emptied.
THEOREM EntryModelSettles ==
  ASSUME PidsAreRows, KeysAreSent
  PROVE  Spec => []SettledShowsAll
<1>1. Init => SettledInv
  BY SettledInit
<1>2. SettledInv /\ [Next]_vars => SettledInv'
  BY SettledStep
<1>3. SettledInv => SettledShowsAll
  BY SettledIs
<1>4. QED
  BY <1>1, <1>2, <1>3, PTL DEF Spec
==============================================================================
