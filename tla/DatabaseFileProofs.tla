-------------------------- MODULE DatabaseFileProofs --------------------------
(***************************************************************************)
(* Proofs about DatabaseFile for any number of programs that open, create  *)
(* and convert the trace database: whatever is committed is the format     *)
(* that its version says, a program that serves a database never has one   *)
(* of another version under it, and a database is not created over another.*)
(***************************************************************************)
EXTENDS DatabaseFile, TLAPS, FiniteSetTheorems

\* At most one of the programs is a convertdb --upgrade.  (Of two, the second
\* would go on from the version it has read before the first one's COMMIT.)
OneUpgrader ==
  \A p, q \in Programs : Does[p] = "upgrade" /\ Does[q] = "upgrade" => p = q

Versions(rs) == {row.from_version : row \in rs}
RowType == [id : Nat, from_version : Nat]

(* The rows of schema_downgrade are those of 1 .. n, each once.            *)
RowsOf(rs, n) ==
  /\ n \in Nat
  /\ rs \subseteq RowType
  /\ IsFiniteSet(rs) /\ Cardinality(rs) = n
  /\ Versions(rs) = 1 .. n

-----------------------------------------------------------------------------
(* The table schema_downgrade.                                             *)

(* A new row has an id of its own.                                         *)
LEMMA FreshId ==
  ASSUME NEW rs, rs \subseteq RowType, IsFiniteSet(rs)
  PROVE  /\ UnusedId(rs) \in Nat
         /\ \A row \in rs : row.id # UnusedId(rs)
<1> DEFINE n == Cardinality(rs)
           Used == {row.id : row \in rs}
           f == [row \in rs |-> row.id]
<1>1. n \in Nat
  BY FS_CardinalityType
<1>2. f \in Surjection(rs, Used)
  BY DEF Surjection
<1>3. IsFiniteSet(Used) /\ Cardinality(Used) <= n
  BY <1>2, FS_Surjection
<1>4. IsFiniteSet(1 .. n + 1) /\ Cardinality(1 .. n + 1) = n + 1
  BY <1>1, FS_Interval
<1>5. ~(1 .. n + 1 \subseteq Used)
  <2>1. SUFFICES ASSUME 1 .. n + 1 \subseteq Used PROVE FALSE
    OBVIOUS
  <2>2. n + 1 <= Cardinality(Used)
    <3>1. (1 .. n + 1) \in SUBSET Used
      BY <2>1
    <3>2. Cardinality(1 .. n + 1) <= Cardinality(Used)
      BY <3>1, <1>3, FS_Subset
    <3> QED BY <3>2, <1>4
  <2>3. Cardinality(Used) \in Nat
    BY <1>3, FS_CardinalityType
  <2> QED BY <1>1, <1>3, <2>2, <2>3
<1>6. \E i \in 1 .. n + 1 : \A row \in rs : row.id # i
  BY <1>5
<1>7. /\ UnusedId(rs) \in 1 .. n + 1
      /\ \A row \in rs : row.id # UnusedId(rs)
  BY <1>6 DEF UnusedId
<1> QED BY <1>7, <1>1

(* INSERT of the next version.                                             *)
LEMMA InsertNext ==
  ASSUME NEW rs, NEW n, RowsOf(rs, n)
  PROVE  RowsOf(Insert(rs, n + 1), n + 1)
<1> DEFINE new == Row(UnusedId(rs), n + 1)
<1>1. n \in Nat /\ rs \subseteq RowType /\ IsFiniteSet(rs)
      /\ Cardinality(rs) = n /\ Versions(rs) = 1 .. n
  BY DEF RowsOf
<1>2. UnusedId(rs) \in Nat /\ \A row \in rs : row.id # UnusedId(rs)
  BY <1>1, FreshId
<1>3. new \in RowType /\ new.from_version = n + 1 /\ new.id = UnusedId(rs)
  BY <1>1, <1>2 DEF Row, RowType
<1>4. new \notin rs
  BY <1>2, <1>3
<1>5. IsFiniteSet(rs \cup {new}) /\ Cardinality(rs \cup {new}) = n + 1
  BY <1>1, <1>4, FS_AddElement
<1>6. Versions(rs \cup {new}) = Versions(rs) \cup {n + 1}
  BY <1>3 DEF Versions
<1>7. 1 .. n + 1 = (1 .. n) \cup {n + 1}
  BY <1>1
<1>8. Insert(rs, n + 1) = rs \cup {new}
  BY DEF Insert
<1>9. n + 1 \in Nat /\ rs \cup {new} \subseteq RowType
  BY <1>1, <1>3
<1> HIDE DEF new
<1> QED BY <1>1, <1>5, <1>6, <1>7, <1>8, <1>9 DEF RowsOf

(* DELETE of the rows of the last version deletes one row.                 *)
LEMMA DeleteLast ==
  ASSUME NEW rs, NEW n, RowsOf(rs, n), n > 0
  PROVE  RowsOf({row \in rs : row.from_version # n}, n - 1)
<1> DEFINE f == [row \in rs |-> row.from_version]
<1>1. n \in Nat /\ rs \subseteq RowType /\ IsFiniteSet(rs)
      /\ Cardinality(rs) = n /\ Versions(rs) = 1 .. n
  BY DEF RowsOf
<1>2. f \in Surjection(rs, 1 .. n)
  BY <1>1 DEF Surjection, Versions
<1>3. Cardinality(1 .. n) = n
  BY <1>1, FS_Interval
<1>4. f \in Injection(rs, 1 .. n)
  BY <1>1, <1>2, <1>3, FS_SurjSameCardinalityImpliesInj
<1>5. PICK last \in rs : last.from_version = n
  BY <1>1 DEF Versions
<1>6. \A row \in rs : row.from_version = n => row = last
  <2>1. \A a, b \in rs : f[a] = f[b] => a = b
    BY <1>4 DEF Injection, IsInjective
  <2> QED BY <2>1, <1>5
<1>7. {row \in rs : row.from_version # n} = rs \ {last}
  BY <1>5, <1>6
<1>8. IsFiniteSet(rs \ {last}) /\ Cardinality(rs \ {last}) = n - 1
  BY <1>1, <1>5, FS_RemoveElement
<1>9. Versions(rs \ {last}) = 1 .. n - 1
  <2>1. \A row \in rs \ {last} : row.from_version \in 1 .. n - 1
    <3> TAKE row \in rs \ {last}
    <3>1. row.from_version \in 1 .. n /\ row.from_version # n
      BY <1>1, <1>6 DEF Versions
    <3> QED BY <1>1, <3>1
  <2>2. \A v \in 1 .. n - 1 : \E row \in rs \ {last} : row.from_version = v
    <3> TAKE v \in 1 .. n - 1
    <3>1. v \in 1 .. n /\ v # n
      BY <1>1
    <3>2. PICK row \in rs : row.from_version = v
      BY <1>1, <3>1 DEF Versions
    <3> QED BY <1>5, <3>1, <3>2
  <2>3. \A v : v \in Versions(rs \ {last})
             <=> \E row \in rs \ {last} : row.from_version = v
    BY DEF Versions
  <2> QED BY <2>1, <2>2, <2>3
<1>10. n - 1 \in Nat /\ rs \ {last} \subseteq RowType
  BY <1>1
<1>11. RowsOf(rs \ {last}, n - 1)
  BY <1>8, <1>9, <1>10, Zenon DEF RowsOf
<1> QED BY <1>7, <1>11, Zenon

(* The rows a new database of version v has.                               *)
LEMMA NewRows ==
  ASSUME NEW v \in Nat
  PROVE  RowsOf({Row(i, i) : i \in 1 .. v}, v)
<1> DEFINE rs == {Row(i, i) : i \in 1 .. v}
           f == [i \in 1 .. v |-> Row(i, i)]
<1>1. f \in Bijection(1 .. v, rs)
  <2>1. f \in Surjection(1 .. v, rs)
    BY DEF Surjection
  <2>2. \A i, j \in 1 .. v : f[i] = f[j] => i = j
    BY DEF Row
  <2>3. f \in Injection(1 .. v, rs)
    BY <2>1, <2>2 DEF Injection, IsInjective, Surjection
  <2> QED BY <2>1, <2>3 DEF Bijection
<1>2. IsFiniteSet(1 .. v) /\ Cardinality(1 .. v) = v
  BY FS_Interval
<1>3. ExistsBijection(1 .. v, rs)
  BY <1>1 DEF ExistsBijection
<1>4. IsFiniteSet(rs) /\ Cardinality(rs) = v
  BY <1>2, <1>3, FS_Bijection
<1>5. rs \subseteq RowType
  BY DEF Row, RowType
<1>6. Versions(rs) = 1 .. v
  <2>1. \A i \in 1 .. v : Row(i, i).from_version = i
    BY DEF Row
  <2>2. \A row \in rs : \E i \in 1 .. v : row = Row(i, i)
    OBVIOUS
  <2>3. \A i \in 1 .. v : Row(i, i) \in rs
    OBVIOUS
  <2> HIDE DEF rs
  <2> QED BY <2>1, <2>2, <2>3 DEF Versions
<1> QED BY <1>4, <1>5, <1>6 DEF RowsOf

-----------------------------------------------------------------------------
(* A file.                                                                 *)

FileType ==
  [exists : BOOLEAN, tables : BOOLEAN, rows : SUBSET RowType,
   times : {"none", "text", "msecs"}, by : Programs \cup {"none", "before"}]

(* A file of version n.                                                    *)
IsFileOf(f, n) ==
  /\ f \in FileType /\ f.exists /\ f.tables
  /\ RowsOf(f.rows, n)
  /\ f.times = IF n < 5 THEN "text" ELSE "msecs"

(* The file there is: none, one without tables, or one of its version.     *)
WellFormed(f) ==
  /\ f \in FileType /\ IsFiniteSet(f.rows)
  /\ f.tables => IsFileOf(f, currentVersion(f))

LEMMA VersionOfFile ==
  ASSUME NEW f, NEW n, IsFileOf(f, n)
  PROVE  /\ n \in Nat /\ f.tables /\ f # NoFile
         /\ currentVersion(f) = n /\ WellFormed(f)
<1>1. currentVersion(f) = n /\ n \in Nat
  BY DEF IsFileOf, RowsOf, currentVersion
<1>2. f.exists /\ f.tables /\ f \in FileType /\ IsFiniteSet(f.rows)
  BY DEF IsFileOf, RowsOf
<1>3. ~NoFile.exists
  BY DEF NoFile
<1> QED BY <1>1, <1>2, <1>3 DEF WellFormed

LEMMA NoTables ==
  /\ WellFormed(NoFile) /\ ~NoFile.tables /\ ~NoFile.exists
  /\ WellFormed(EmptyFile) /\ ~EmptyFile.tables /\ EmptyFile.exists
<1>1. /\ NoFile \in FileType /\ ~NoFile.tables /\ ~NoFile.exists
      /\ EmptyFile \in FileType /\ ~EmptyFile.tables /\ EmptyFile.exists
      /\ NoFile.rows = {} /\ EmptyFile.rows = {}
  BY DEF NoFile, EmptyFile, FileType, RowType
<1> QED BY <1>1, FS_EmptySet DEF WellFormed

(* What a program creates.                                                 *)
LEMMA NewFile ==
  ASSUME NEW v \in Nat
  PROVE  /\ IsFileOf(FileOf(v), v)
         /\ \A p \in Programs : IsFileOf([FileOf(v) EXCEPT !.by = p], v)
<1>1. RowsOf({Row(i, i) : i \in 1 .. v}, v)
  BY NewRows
<1> DEFINE rs == {Row(i, i) : i \in 1 .. v}
<1>2. rs \subseteq RowType
  BY <1>1 DEF RowsOf
<1>3. FileOf(v).rows = rs
  BY DEF FileOf
<1> HIDE DEF rs
<1>4. FileOf(v) = [exists |-> TRUE, tables |-> TRUE, rows |-> rs,
                   times |-> IF v < 5 THEN "text" ELSE "msecs", by |-> "before"]
  BY DEF FileOf, rs
<1>5. RowsOf(rs, v)
  BY <1>1 DEF rs
<1>6. IsFileOf(FileOf(v), v)
  BY <1>2, <1>4, <1>5 DEF IsFileOf, FileType
<1>7. ASSUME NEW p \in Programs
      PROVE  IsFileOf([FileOf(v) EXCEPT !.by = p], v)
  <2> DEFINE g == [FileOf(v) EXCEPT !.by = p]
  <2>1. FileOf(v) \in FileType
    BY <1>6 DEF IsFileOf
  <2>2. /\ g \in FileType /\ g.exists = FileOf(v).exists
        /\ g.tables = FileOf(v).tables /\ g.rows = FileOf(v).rows
        /\ g.times = FileOf(v).times
    BY <2>1 DEF FileType
  <2> QED BY <1>6, <2>2 DEF IsFileOf
<1> QED BY <1>6, <1>7

(* What a conversion makes of a file is of the next version.               *)
LEMMA UpgradedIsNext ==
  ASSUME NEW f, NEW v \in {0, 4}, IsFileOf(f, v)
  PROVE  IsFileOf(Upgraded(f, v), v + 1)
<1> DEFINE rs == Insert(f.rows, v + 1)
<1>1. RowsOf(rs, v + 1)
  BY InsertNext DEF IsFileOf
<1>2. rs \subseteq RowType
  BY <1>1 DEF RowsOf
<1>3. f.exists /\ f.tables /\ f.times = "text" /\ f \in FileType
  BY DEF IsFileOf
<1> HIDE DEF rs
<1>4. CASE v = 0
  <2>1. Upgraded(f, v) = [f EXCEPT !.rows = rs, !.times = "text"]
    BY <1>4 DEF Upgraded, rs
  <2>2. /\ Upgraded(f, v) \in FileType /\ Upgraded(f, v).exists
        /\ Upgraded(f, v).tables /\ Upgraded(f, v).rows = rs
        /\ Upgraded(f, v).times = "text"
    BY <1>2, <1>3, <2>1 DEF FileType
  <2> QED BY <1>1, <1>4, <2>2 DEF IsFileOf
<1>5. CASE v = 4
  <2>1. Upgraded(f, v) = [f EXCEPT !.rows = rs, !.times = "msecs"]
    BY <1>3, <1>5 DEF Upgraded, rs
  <2>2. /\ Upgraded(f, v) \in FileType /\ Upgraded(f, v).exists
        /\ Upgraded(f, v).tables /\ Upgraded(f, v).rows = rs
        /\ Upgraded(f, v).times = "msecs"
    BY <1>2, <1>3, <2>1 DEF FileType
  <2> QED BY <1>1, <1>5, <2>2 DEF IsFileOf
<1> QED BY <1>4, <1>5

LEMMA DowngradedIsPrevious ==
  ASSUME NEW f, NEW v \in Nat, v > 5, IsFileOf(f, v)
  PROVE  IsFileOf(Downgraded(f, v), v - 1)
<1> DEFINE rs == {row \in f.rows : row.from_version # v}
<1>1. RowsOf(rs, v - 1)
  BY DeleteLast DEF IsFileOf
<1>2. rs \subseteq RowType
  BY <1>1 DEF RowsOf
<1>3. f.exists /\ f.tables /\ f.times = "msecs" /\ f \in FileType
  BY DEF IsFileOf
<1>4. Downgraded(f, v) = [f EXCEPT !.rows = rs]
  BY DEF Downgraded
<1> HIDE DEF rs
<1> QED BY <1>1, <1>2, <1>3, <1>4 DEF IsFileOf, FileType

(* Statements that another program has executed and removed do no more.    *)
LEMMA DowngradedAlready ==
  ASSUME NEW f, NEW v \in Nat, NEW n \in Nat, v > n, IsFileOf(f, n)
  PROVE  IsFileOf(Downgraded(f, v), n)
<1>1. \A row \in f.rows : row.from_version \in 1 .. n
  BY DEF IsFileOf, RowsOf, Versions
<1>2. {row \in f.rows : row.from_version # v} = f.rows
  BY <1>1
<1>3. f \in FileType /\ Downgraded(f, v) = [f EXCEPT !.rows = f.rows]
  BY <1>2 DEF Downgraded, IsFileOf
<1>4. Downgraded(f, v) = f
  BY <1>3 DEF FileType
<1> QED BY <1>4

-----------------------------------------------------------------------------
(* The inductive invariant.                                                *)

Converters == {p \in Programs : Does[p] \in {"upgrade", "downgrade"}}

(* Who is where, and the write lock.                                       *)
LockInv ==
  /\ pc \in [Programs -> Labels] /\ version \in [Programs -> Nat]
  /\ writer \in Programs \cup {Nobody}
  /\ writer = Nobody => work = NoFile
  /\ \A p \in Programs :
       /\ writer = p <=> pc[p] = "commit"
       /\ pc[p] \in {"create", "schema"} => Does[p] = "openOrCreate"
       /\ pc[p] \in {"convert", "step", "statements"} => p \in Converters
       /\ pc[p] = "statements" => Does[p] = "downgrade"
       /\ pc[p] = "commit" => Does[p] # "open"
       /\ Does[p] = "openOrCreate" /\ pc[p] = "schema" => file.exists

(* The version of the copy of a program that downgrades: the one before its *)
(* own, or the file's, if another program was there first.                 *)
VersionAfter(p) ==
  IF version[p] = currentVersion(file) THEN version[p] - 1 ELSE currentVersion(file)

(* A program that upgrades has the version of the file, one that downgrades *)
(* has it or a later one; its copy is a file of the next version.          *)
ConversionInv ==
  \A p \in Programs :
    /\ Does[p] = "upgrade" /\ pc[p] \in {"step", "commit"} =>
         /\ file.tables /\ version[p] = currentVersion(file)
         /\ version[p] <= 5
    /\ Does[p] = "upgrade" /\ pc[p] = "commit" =>
         version[p] < 5 /\ IsFileOf(work, version[p] + 1)
    /\ Does[p] = "downgrade" /\ pc[p] \in {"step", "statements", "commit"} =>
         /\ file.tables /\ version[p] >= currentVersion(file)
         /\ currentVersion(file) >= 5
    /\ Does[p] = "downgrade" /\ pc[p] \in {"statements", "commit"} =>
         version[p] > 5
    /\ Does[p] = "downgrade" /\ pc[p] = "commit" =>
         IsFileOf(work, VersionAfter(p))

(* A program that creates the tables has found none, and holds the lock.   *)
CreationInv ==
  \A p \in Programs : Does[p] = "openOrCreate" /\ pc[p] = "commit" =>
    ~file.tables /\ IsFileOf(work, 5)

SafetyInv ==
  WellFormed(file) /\ LockInv /\ ConversionInv /\ CreationInv /\ ServedIsCurrent


LEMMA Initially == Init => SafetyInv
<1> SUFFICES ASSUME Init PROVE SafetyInv
  OBVIOUS
<1>1. WellFormed(file)
  <2>1. CASE file \in {NoFile, EmptyFile}
    BY <2>1, NoTables
  <2>2. CASE \E v \in 0 .. Cardinality(file.rows) : file = FileOf(v)
    <3>1. PICK v \in 0 .. Cardinality(file.rows) : file = FileOf(v)
      BY <2>2
    <3>2. v \in Nat
      OBVIOUS
    <3> QED BY <3>1, <3>2, NewFile, VersionOfFile
  <2> QED BY <2>1, <2>2, FilesAssumption DEF Init
<1>2. LockInv
  BY NobodyAssumption DEF Init, LockInv, Labels, Ended
<1>3. ConversionInv /\ CreationInv /\ ServedIsCurrent
  BY DEF Init, ConversionInv, CreationInv, ServedIsCurrent
<1> QED BY <1>1, <1>2, <1>3 DEF SafetyInv

(* Steps that change neither the file nor who writes: the program goes on  *)
(* to where it may be.                                                     *)
LEMMA GoesOn ==
  ASSUME SafetyInv, NEW p \in Programs, NEW label \in Labels \ {"commit"},
         pc[p] # "commit", pc' = [pc EXCEPT ![p] = label],
         UNCHANGED <<file, writer, work>>,
         version' \in [Programs -> Nat],
         \A q \in Programs \ {p} : version'[q] = version[q],
         label \in {"create", "schema"} => Does[p] = "openOrCreate",
         label \in {"convert", "step", "statements"} => p \in Converters,
         label = "statements" => Does[p] = "downgrade" /\ version'[p] > 5,
         label = "schema" => file.exists,
         label = "serving" => file.tables /\ currentVersion(file) = 5,
         label = "step" /\ Does[p] = "upgrade" =>
           file.tables /\ version'[p] = currentVersion(file) /\ version'[p] <= 5,
         label \in {"step", "statements"} /\ Does[p] = "downgrade" =>
           /\ file.tables /\ version'[p] >= currentVersion(file)
           /\ currentVersion(file) >= 5
  PROVE  SafetyInv'
<1> USE DEF SafetyInv
<1>1. pc \in [Programs -> Labels]
  BY DEF LockInv
<1>2. pc'[p] = label /\ \A q \in Programs \ {p} : pc'[q] = pc[q]
  BY <1>1
<1>3. WellFormed(file)'
  BY DEF WellFormed
<1>4. LockInv'
  BY <1>1, <1>2 DEF LockInv
<1>5. ConversionInv'
  BY <1>2 DEF ConversionInv, VersionAfter
<1>6. CreationInv'
  BY <1>2 DEF CreationInv
<1>7. ServedIsCurrent'
  BY <1>2 DEF ServedIsCurrent, expectedVersion
<1> QED BY <1>3, <1>4, <1>5, <1>6, <1>7


LEMMA StartStep ==
  ASSUME SafetyInv, NEW p \in Programs, Start(p)
  PROVE  SafetyInv'
<1>1. pc[p] = "off" /\ UNCHANGED <<file, version, writer, work>>
  BY DEF Start
<1>2. version \in [Programs -> Nat]
  BY DEF SafetyInv, LockInv
<1>3. PICK label \in {"failed", "exists"} : pc' = [pc EXCEPT ![p] = label]
  BY DEF Start, Goto
<1> QED BY <1>1, <1>2, <1>3, GoesOn DEF Labels, Ended

LEMMA CheckExistsStep ==
  ASSUME SafetyInv, NEW p \in Programs, CheckExists(p)
  PROVE  SafetyInv'
<1>1. pc[p] = "exists" /\ UNCHANGED <<file, version, writer, work>>
  BY DEF CheckExists
<1>2. version \in [Programs -> Nat]
  BY DEF SafetyInv, LockInv
<1>3. PICK label \in {"convert", "open", "create", "failed"} :
        /\ pc' = [pc EXCEPT ![p] = label]
        /\ label = "convert" => p \in Converters
        /\ label = "create" => Does[p] = "openOrCreate"
  BY DEF CheckExists, Goto, Converters
<1> QED BY <1>1, <1>2, <1>3, GoesOn DEF Labels, Ended

LEMMA OpenStep ==
  ASSUME SafetyInv, NEW p \in Programs, Open(p)
  PROVE  SafetyInv'
<1>1. pc[p] = "open" /\ UNCHANGED <<file, version, writer, work>>
  BY DEF Open
<1>2. version \in [Programs -> Nat]
  BY DEF SafetyInv, LockInv
<1>3. PICK label \in {"serving", "failed"} :
        /\ pc' = [pc EXCEPT ![p] = label]
        /\ label = "serving" => checkCompatibility(file)
  BY DEF Open, Goto
<1> QED BY <1>1, <1>2, <1>3, GoesOn DEF Labels, Ended, checkCompatibility, expectedVersion

LEMMA FailStep ==
  ASSUME SafetyInv, NEW p \in Programs, Fail(p)
  PROVE  SafetyInv'
<1>1. /\ pc[p] \in {"schema", "step", "statements"}
      /\ UNCHANGED <<file, version, writer, work>>
  BY DEF Fail, CreateFails, StepFails, AtTransaction
<1>2. version \in [Programs -> Nat]
  BY DEF SafetyInv, LockInv
<1>3. pc' = [pc EXCEPT ![p] = "failed"]
  BY DEF Fail, Goto
<1> QED BY <1>1, <1>2, <1>3, GoesOn DEF Labels, Ended

LEMMA EndConversionStep ==
  ASSUME SafetyInv, NEW p \in Programs, EndConversion(p)
  PROVE  SafetyInv'
<1>1. pc[p] = "step" /\ UNCHANGED <<file, version, writer, work>>
  BY DEF EndConversion
<1>2. version \in [Programs -> Nat]
  BY DEF SafetyInv, LockInv
<1>3. pc' = [pc EXCEPT ![p] = "converted"]
  BY DEF EndConversion, Goto
<1> QED BY <1>1, <1>2, <1>3, GoesOn DEF Labels, Ended

LEMMA ReadStatementsStep ==
  ASSUME SafetyInv, NEW p \in Programs, ReadStatements(p)
  PROVE  SafetyInv'
<1>1. /\ pc[p] = "step" /\ Does[p] = "downgrade" /\ version[p] # 5
      /\ UNCHANGED <<file, version, writer, work>>
  BY DEF ReadStatements, expectedVersion
<1>2. version \in [Programs -> Nat] /\ p \in Converters
  BY <1>1 DEF SafetyInv, LockInv
<1>3. pc' = [pc EXCEPT ![p] = "statements"]
  BY DEF ReadStatements, Goto
<1>4. file.tables /\ version[p] >= currentVersion(file) /\ currentVersion(file) >= 5
  BY <1>1 DEF SafetyInv, ConversionInv
<1>5. currentVersion(file) \in Nat
  BY FS_CardinalityType DEF currentVersion, SafetyInv, WellFormed
<1>6. version[p] > 5
  BY <1>1, <1>2, <1>4, <1>5
<1> QED BY <1>1, <1>2, <1>3, <1>4, <1>6, GoesOn DEF Labels, Ended

LEMMA BeginConversionStep ==
  ASSUME SafetyInv, NEW p \in Programs, BeginConversion(p)
  PROVE  SafetyInv'
<1>1. pc[p] = "convert" /\ UNCHANGED <<file, writer, work>>
  BY DEF BeginConversion
<1>2. version \in [Programs -> Nat] /\ p \in Converters
  BY <1>1 DEF SafetyInv, LockInv
<1>3. version' = [version EXCEPT ![p] = currentVersion(file)]
  BY DEF BeginConversion
<1>4. currentVersion(file) \in Nat
  BY FS_CardinalityType DEF currentVersion, SafetyInv, WellFormed
<1>5. PICK label \in {"step", "failed"} :
        /\ pc' = [pc EXCEPT ![p] = label]
        /\ label = "step" => Convertible(p)
  BY DEF BeginConversion, Goto
<1>6. version' \in [Programs -> Nat]
  BY <1>2, <1>3, <1>4
<1>7. /\ version'[p] = currentVersion(file)
      /\ \A q \in Programs \ {p} : version'[q] = version[q]
  BY <1>2, <1>3
<1>8. label = "step" => file.tables /\ (Does[p] = "upgrade" => version'[p] < 5)
                                    /\ (Does[p] # "upgrade" => version'[p] > 5)
  BY <1>5, <1>7 DEF Convertible, expectedVersion
<1>9. version'[p] \in Nat
  BY <1>6
<1>10. /\ label = "step" /\ Does[p] = "upgrade" =>
            file.tables /\ version'[p] = currentVersion(file) /\ version'[p] <= 5
       /\ label = "step" /\ Does[p] = "downgrade" =>
            /\ file.tables /\ version'[p] >= currentVersion(file)
            /\ currentVersion(file) >= 5
  BY <1>7, <1>8, <1>9
<1> QED BY <1>1, <1>2, <1>5, <1>6, <1>7, <1>10, GoesOn DEF Labels, Ended


LEMMA CreateFileStep ==
  ASSUME SafetyInv, NEW p \in Programs, CreateFile(p)
  PROVE  SafetyInv'
<1>1. /\ pc[p] = "create" /\ UNCHANGED <<version, writer, work>>
      /\ pc' = [pc EXCEPT ![p] = "schema"]
      /\ file' = IF file.exists THEN file ELSE EmptyFile
  BY DEF CreateFile, Goto
<1>2. version \in [Programs -> Nat] /\ Does[p] = "openOrCreate"
  BY <1>1 DEF SafetyInv, LockInv
<1>3. CASE file.exists
  BY <1>1, <1>2, <1>3, GoesOn DEF Labels
<1>4. CASE ~file.exists
  <2>1. file' = EmptyFile /\ ~file.tables
    BY <1>1, <1>4 DEF SafetyInv, WellFormed, IsFileOf
  <2>2. pc \in [Programs -> Labels]
    BY DEF SafetyInv, LockInv
  <2>3. pc'[p] = "schema" /\ \A q \in Programs \ {p} : pc'[q] = pc[q]
    BY <1>1, <2>2
  <2>4. WellFormed(file)'
    BY <2>1, NoTables
  <2>5. LockInv'
    BY <1>1, <1>2, <2>1, <2>3, NoTables DEF SafetyInv, LockInv, Labels
  <2>6. ConversionInv'
    BY <1>1, <1>2, <2>1, <2>3 DEF SafetyInv, ConversionInv
  <2>7. CreationInv'
    BY <1>1, <2>1, <2>3, NoTables DEF SafetyInv, CreationInv
  <2>8. ServedIsCurrent'
    BY <2>1, <2>3 DEF SafetyInv, ServedIsCurrent
  <2> QED BY <2>4, <2>5, <2>6, <2>7, <2>8 DEF SafetyInv
<1> QED BY <1>3, <1>4

(* A program takes the write lock with a copy of the next version.         *)
LEMMA TakesLock ==
  ASSUME SafetyInv, NEW p \in Programs, pc[p] # "commit", writer = Nobody,
         writer' = p, pc' = [pc EXCEPT ![p] = "commit"],
         UNCHANGED <<file, version>>, Does[p] # "open",
         Does[p] = "openOrCreate" => ~file.tables /\ IsFileOf(work', 5),
         Does[p] = "upgrade" =>
           /\ file.tables /\ version[p] = currentVersion(file) /\ version[p] < 5
           /\ IsFileOf(work', version[p] + 1),
         Does[p] = "downgrade" =>
           /\ file.tables /\ version[p] >= currentVersion(file)
           /\ currentVersion(file) >= 5 /\ version[p] > 5
           /\ IsFileOf(work', VersionAfter(p))
  PROVE  SafetyInv'
<1> USE DEF SafetyInv
<1>1. pc \in [Programs -> Labels] /\ version \in [Programs -> Nat]
  BY DEF LockInv
<1>2. pc'[p] = "commit" /\ \A q \in Programs \ {p} : pc'[q] = pc[q] /\ pc[q] # "commit"
  BY <1>1, NobodyAssumption DEF LockInv
<1>3. WellFormed(file)'
  BY DEF WellFormed
<1>4. LockInv'
  BY <1>1, <1>2, NobodyAssumption DEF LockInv, Labels
<1>5. ConversionInv'
  <2>1. version[p] \in Nat
    BY <1>1
  <2> QED BY <1>2, <2>1 DEF ConversionInv, VersionAfter
<1>6. CreationInv'
  BY <1>2 DEF CreationInv
<1>7. ServedIsCurrent'
  BY <1>2 DEF ServedIsCurrent, expectedVersion
<1> QED BY <1>3, <1>4, <1>5, <1>6, <1>7

LEMMA CreateSchemaStep ==
  ASSUME SafetyInv, NEW p \in Programs, CreateSchema(p)
  PROVE  SafetyInv'
<1>1. /\ pc[p] = "schema" /\ writer = Nobody /\ ~file.tables /\ writer' = p
      /\ work' = [FileOf(5) EXCEPT !.by = p]
      /\ pc' = [pc EXCEPT ![p] = "commit"] /\ UNCHANGED <<file, version>>
  BY DEF CreateSchema, Goto, expectedVersion
<1>2. Does[p] = "openOrCreate"
  BY <1>1 DEF SafetyInv, LockInv
<1>3. IsFileOf(work', 5)
  BY <1>1, NewFile
<1> QED BY <1>1, <1>2, <1>3, TakesLock

LEMMA ConversionStepStep ==
  ASSUME SafetyInv, NEW p \in Programs, ConversionStep(p)
  PROVE  SafetyInv'
<1>1. /\ AtTransaction(p) /\ pc[p] \in {"step", "statements"}
      /\ writer = Nobody /\ writer' = p
      /\ work' = IF Does[p] = "upgrade" THEN Upgraded(file, version[p])
                 ELSE Downgraded(file, version[p])
      /\ pc' = [pc EXCEPT ![p] = "commit"] /\ UNCHANGED <<file, version>>
  BY DEF ConversionStep, AtTransaction, Goto
<1>2. Does[p] \in {"upgrade", "downgrade"} /\ version[p] \in Nat
  BY <1>1 DEF SafetyInv, LockInv, Converters
<1>3. file.tables /\ IsFileOf(file, currentVersion(file))
  BY <1>1, <1>2 DEF SafetyInv, LockInv, ConversionInv, WellFormed
<1>4. CASE Does[p] = "upgrade"
  <2>1. version[p] \in {0, 4} /\ version[p] = currentVersion(file)
    BY <1>1, <1>4 DEF SafetyInv, ConversionInv, AtTransaction, StepPossible
  <2>2. IsFileOf(work', version[p] + 1)
    BY <1>1, <1>3, <1>4, <2>1, UpgradedIsNext
  <2>3. version[p] < 5
    BY <2>1
  <2> QED BY <1>1, <1>3, <1>4, <2>1, <2>2, <2>3, TakesLock, Zenon
<1>5. CASE Does[p] = "downgrade"
  <2> DEFINE n == currentVersion(file)
  <2>1. /\ pc[p] = "statements" /\ version[p] >= n /\ n >= 5 /\ version[p] > 5
    BY <1>1, <1>5 DEF SafetyInv, ConversionInv, AtTransaction
  <2>2. n \in Nat
    BY FS_CardinalityType DEF currentVersion, SafetyInv, WellFormed
  <2>3. IsFileOf(work', VersionAfter(p))
    <3>1. work' = Downgraded(file, version[p]) /\ IsFileOf(file, n)
      BY <1>1, <1>3, <1>5
    <3>2. CASE version[p] = n
      <4>1. IsFileOf(Downgraded(file, version[p]), version[p] - 1)
        BY <1>2, <2>1, <3>1, <3>2, DowngradedIsPrevious
      <4> QED BY <3>1, <3>2, <4>1 DEF VersionAfter
    <3>3. CASE version[p] # n
      <4> HIDE DEF n
      <4>1. version[p] > n
        BY <1>2, <2>1, <2>2, <3>3
      <4>2. IsFileOf(Downgraded(file, version[p]), n)
        BY <1>2, <2>2, <3>1, <4>1, DowngradedAlready
      <4> QED BY <3>1, <3>3, <4>2 DEF VersionAfter, n
    <3> QED BY <3>2, <3>3
  <2> QED BY <1>1, <1>3, <1>5, <2>1, <2>3, TakesLock
<1> QED BY <1>2, <1>4, <1>5

LEMMA EndStep ==
  ASSUME SafetyInv, NEW p \in Programs, End(p)
  PROVE  SafetyInv'
<1> USE DEF SafetyInv
<1>1. /\ pc' = [pc EXCEPT ![p] = "off"] /\ UNCHANGED <<file, version>>
      /\ IF writer = p THEN writer' = Nobody /\ work' = NoFile
                       ELSE UNCHANGED <<writer, work>>
  BY DEF End, Goto
<1>2. pc \in [Programs -> Labels] /\ version \in [Programs -> Nat]
  BY DEF LockInv
<1>3. pc'[p] = "off" /\ \A q \in Programs \ {p} : pc'[q] = pc[q]
  BY <1>1, <1>2
<1>4. \A q \in Programs \ {p} : pc[q] = "commit" => work' = work
  BY <1>1 DEF LockInv
<1>5. WellFormed(file)'
  BY <1>1 DEF WellFormed
<1>6. LockInv'
  BY <1>1, <1>2, <1>3, NobodyAssumption DEF LockInv, Labels, Ended
<1>7. ConversionInv'
  BY <1>1, <1>3, <1>4 DEF ConversionInv, VersionAfter
<1>8. CreationInv'
  BY <1>1, <1>3, <1>4 DEF CreationInv
<1>9. ServedIsCurrent'
  BY <1>1, <1>3 DEF ServedIsCurrent
<1> QED BY <1>5, <1>6, <1>7, <1>8, <1>9

(* A COMMIT, and what the others had read is not true any more.            *)
LEMMA CommitStep ==
  ASSUME SafetyInv, OneUpgrader, NEW p \in Programs, Commit(p)
  PROVE  SafetyInv'
<1> USE DEF SafetyInv
<1>1. /\ pc[p] = "commit" /\ file' = work /\ writer' = Nobody /\ work' = NoFile
      /\ Does[p] = "openOrCreate" =>
           pc' = [pc EXCEPT ![p] = "serving"] /\ version' = version
      /\ Does[p] # "openOrCreate" =>
           /\ pc' = [pc EXCEPT ![p] = "step"]
           /\ version' = [version EXCEPT ![p] =
                IF Does[p] = "upgrade" THEN version[p] + 1 ELSE version[p] - 1]
  BY DEF Commit, Goto
<1>2. /\ pc \in [Programs -> Labels] /\ version \in [Programs -> Nat]
      /\ writer = p /\ Does[p] \in Operations \ {"open"}
  BY <1>1, DoesAssumption DEF LockInv, Operations
<1>3. \A q \in Programs \ {p} : pc[q] # "commit"
  BY <1>2 DEF LockInv
<1>4. /\ \A q \in Programs \ {p} : pc'[q] = pc[q] /\ version'[q] = version[q]
      /\ pc'[p] = IF Does[p] = "openOrCreate" THEN "serving" ELSE "step"
      /\ version'[p] = IF Does[p] = "openOrCreate" THEN version[p]
                       ELSE IF Does[p] = "upgrade" THEN version[p] + 1
                       ELSE version[p] - 1
  BY <1>1, <1>2
<1> DEFINE n == CASE Does[p] = "openOrCreate" -> 5
                   [] Does[p] = "upgrade" -> version[p] + 1
                   [] Does[p] = "downgrade" -> VersionAfter(p)
<1>0. /\ Does[p] = "openOrCreate" => n = 5
      /\ Does[p] = "upgrade" => n = version[p] + 1
      /\ Does[p] = "downgrade" => n = VersionAfter(p)
  OBVIOUS
<1>5. /\ n \in Nat /\ version' \in [Programs -> Nat] /\ IsFileOf(file', n)
      /\ file'.tables /\ file'.exists /\ WellFormed(file')
      /\ currentVersion(file') = n
  <2>1. version[p] \in Nat
    BY <1>2
  <2>2. IsFileOf(work, n)
    <3> HIDE DEF n
    <3> QED BY <1>0, <1>1, <1>2 DEF Operations, CreationInv, ConversionInv
  <2>3. version' \in [Programs -> Nat]
    <3>1. CASE Does[p] = "openOrCreate"
      BY <1>1, <1>2, <3>1
    <3>2. CASE Does[p] = "upgrade"
      BY <1>1, <1>2, <3>2
    <3>3. CASE Does[p] = "downgrade"
      <4>1. version[p] > 5
        BY <1>1, <3>3 DEF ConversionInv
      <4> QED BY <1>1, <1>2, <2>1, <3>3, <4>1
    <3> QED BY <1>2, <3>1, <3>2, <3>3 DEF Operations
  <2> HIDE DEF n
  <2> QED BY <1>1, <2>2, <2>3, VersionOfFile DEF IsFileOf
<1>10. /\ currentVersion(file) \in Nat /\ version[p] \in Nat
       /\ Does[p] = "downgrade" =>
            /\ version[p] > 5 /\ currentVersion(file) >= 5
            /\ n >= 5 /\ n <= currentVersion(file) /\ n <= version[p] - 1
  <2>1. currentVersion(file) \in Nat /\ version[p] \in Nat
    BY <1>2, FS_CardinalityType DEF currentVersion, WellFormed
  <2>2. Does[p] = "downgrade" =>
          /\ version[p] > 5 /\ currentVersion(file) >= 5
          /\ version[p] >= currentVersion(file)
    BY <1>1 DEF ConversionInv
  <2> HIDE DEF n
  <2> QED BY <1>0, <2>1, <2>2 DEF VersionAfter
<1> HIDE DEF n
<1>6. LockInv'
  BY <1>1, <1>2, <1>3, <1>4, <1>5, NobodyAssumption
  DEF LockInv, Labels, Ended, Operations, Converters
<1>7. ConversionInv'
  <2>1. ASSUME NEW q \in Programs, Does[q] = "upgrade", pc'[q] \in {"step", "commit"}
        PROVE  /\ version'[q] = currentVersion(file') /\ version'[q] <= 5
               /\ pc'[q] # "commit"
    <3>1. CASE q = p
      <4>1. version[p] < 5 /\ version[p] \in Nat /\ n = version[p] + 1
        BY <1>0, <1>1, <1>10, <2>1, <3>1 DEF ConversionInv
      <4> QED BY <1>4, <1>5, <2>1, <3>1, <4>1
    <3>2. CASE q # p
      <4>1. pc[q] = "step" /\ file.tables /\ version[q] = currentVersion(file)
            /\ version[q] <= 5 /\ version[q] \in Nat
        BY <1>2, <1>3, <1>4, <2>1, <3>2 DEF ConversionInv
      <4>2. Does[p] # "upgrade"
        BY <2>1, <3>2 DEF OneUpgrader
      <4>3. Does[p] # "openOrCreate"
        BY <1>1, <4>1 DEF CreationInv
      <4>4. CASE Does[p] = "downgrade"
        BY <1>4, <1>5, <1>10, <3>2, <4>1, <4>4, <2>1, <1>3
      <4> QED BY <1>2, <4>2, <4>3, <4>4 DEF Operations
    <3> QED BY <3>1, <3>2
  <2>2. ASSUME NEW q \in Programs, Does[q] = "downgrade",
               pc'[q] \in {"step", "statements", "commit"}
        PROVE  /\ version'[q] >= currentVersion(file') /\ currentVersion(file') >= 5
               /\ pc'[q] # "commit" /\ (pc'[q] = "statements" => version'[q] > 5)
    <3>1. CASE q = p
      BY <1>4, <1>5, <1>10, <2>2, <3>1
    <3>2. CASE q # p
      <4>1. /\ pc[q] \in {"step", "statements"} /\ file.tables
            /\ version[q] >= currentVersion(file) /\ currentVersion(file) >= 5
            /\ version[q] \in Nat /\ (pc[q] = "statements" => version[q] > 5)
        BY <1>2, <1>3, <1>4, <2>2, <3>2 DEF ConversionInv
      <4>2. Does[p] # "openOrCreate"
        BY <1>1, <4>1 DEF CreationInv
      <4>3. Does[p] # "upgrade"
        <5>1. Does[p] = "upgrade" =>
                version[p] < 5 /\ version[p] = currentVersion(file)
          BY <1>1 DEF ConversionInv
        <5> QED BY <1>10, <4>1, <5>1
      <4>4. CASE Does[p] = "downgrade"
        BY <1>3, <1>4, <1>5, <1>10, <3>2, <4>1, <4>4
      <4> QED BY <1>2, <4>2, <4>3, <4>4 DEF Operations
    <3> QED BY <3>1, <3>2
  <2> QED BY <1>5, <2>1, <2>2 DEF ConversionInv
<1>8. CreationInv'
  BY <1>3, <1>4 DEF CreationInv
<1>9. ServedIsCurrent'
  <2>1. CASE Does[p] = "openOrCreate"
    BY <1>0, <1>5, <2>1 DEF ServedIsCurrent, expectedVersion
  <2>2. CASE Does[p] # "openOrCreate"
    <3>1. CASE currentVersion(file) # 5
      BY <1>4, <2>2, <3>1 DEF ServedIsCurrent, expectedVersion
    <3>2. CASE currentVersion(file) = 5
      <4>1. Does[p] # "upgrade"
        BY <1>1, <3>2 DEF ConversionInv
      <4>2. Does[p] = "downgrade"
        BY <1>2, <2>2, <4>1 DEF Operations
      <4>3. n = 5
        BY <1>5, <1>10, <3>2, <4>2
      <4> QED BY <1>4, <1>5, <2>2, <4>3 DEF ServedIsCurrent, expectedVersion
    <3> QED BY <3>1, <3>2
  <2> QED BY <2>1, <2>2
<1> QED BY <1>5, <1>6, <1>7, <1>8, <1>9


-----------------------------------------------------------------------------
(* The theorems.                                                           *)

LEMMA SafetyStep ==
  ASSUME SafetyInv, OneUpgrader, [Next]_vars
  PROVE  SafetyInv'
<1>1. CASE UNCHANGED vars
  BY <1>1 DEF vars, SafetyInv, WellFormed, LockInv, ConversionInv, VersionAfter,
              CreationInv, ServedIsCurrent
<1>2. ASSUME NEW p \in Programs, Start(p) \/ Run(p) \/ End(p)
      PROVE  SafetyInv'
  BY <1>2, StartStep, EndStep, CheckExistsStep, CreateFileStep, CreateSchemaStep,
     OpenStep, BeginConversionStep, ReadStatementsStep, ConversionStepStep,
     EndConversionStep, CommitStep, FailStep DEF Run
<1> QED BY <1>1, <1>2 DEF Next

LEMMA SafetyIsFileInv ==
  ASSUME SafetyInv
  PROVE  FileInv
<1> USE DEF SafetyInv
<1>1. file \in FileType /\ (file.tables => IsFileOf(file, currentVersion(file)))
  BY DEF WellFormed
<1>2. writer # Nobody => work # NoFile
  <2> SUFFICES ASSUME writer # Nobody PROVE work # NoFile
    OBVIOUS
  <2>1. writer \in Programs /\ pc[writer] = "commit" /\ Does[writer] # "open"
    BY DEF LockInv
  <2>2. CASE Does[writer] = "openOrCreate"
    BY <2>1, <2>2, VersionOfFile DEF CreationInv
  <2>3. CASE Does[writer] = "upgrade"
    BY <2>1, <2>3, VersionOfFile DEF ConversionInv
  <2>4. CASE Does[writer] = "downgrade"
    BY <2>1, <2>4, VersionOfFile DEF ConversionInv
  <2> QED BY <2>1, <2>2, <2>3, <2>4, DoesAssumption DEF Operations
<1>3. FileTypeOK
  <2>1. file.times \in {"none", "text", "msecs"}
    BY <1>1 DEF FileType
  <2> QED BY <1>1, <1>2, <2>1 DEF FileTypeOK, LockInv, IsFileOf
<1>4. SchemaMatchesVersion
  BY <1>1 DEF SchemaMatchesVersion, IsFileOf, RowsOf, Versions
<1> QED BY <1>3, <1>4 DEF FileInv

LEMMA SafetyInvariant ==
  ASSUME OneUpgrader
  PROVE  Spec => []SafetyInv
<1>1. SafetyInv /\ [Next]_vars => SafetyInv'
  BY SafetyStep
<1> QED BY Initially, <1>1, PTL DEF Spec

(* Whatever programs create, open, convert and die at whatever point, the  *)
(* file is of the version its rows say, and a program that works with it   *)
(* has the version it expects (Database::open, create, upgrade and         *)
(* downgrade).                                                             *)
THEOREM FileSafe ==
  ASSUME OneUpgrader
  PROVE  Spec => []FileInv
BY SafetyInvariant, SafetyIsFileInv, PTL

(* A database is created once and not created over another: the tables of  *)
(* one that is there change by conversions only (Database::create).        *)
THEOREM FileCreatedOnce ==
  ASSUME OneUpgrader
  PROVE  Spec => CreatedOnce
<1> DEFINE A == \A p \in Programs : file.tables /\ file # file'
                  => \E q \in Programs : Does[q] \in {"upgrade", "downgrade"} /\ pc[q] = "commit"
<1>1. SafetyInv /\ [Next]_vars => [A]_vars
  <2> SUFFICES ASSUME SafetyInv, Next, file.tables, file # file'
               PROVE  \E q \in Programs : Does[q] \in {"upgrade", "downgrade"} /\ pc[q] = "commit"
    OBVIOUS
  <2>1. file.exists
    BY DEF SafetyInv, WellFormed, IsFileOf
  <2>2. PICK p \in Programs : Start(p) \/ Run(p) \/ End(p)
    BY DEF Next
  <2>3. Commit(p)
    BY <2>1, <2>2 DEF Run, Start, End, CheckExists, CreateFile, CreateSchema, Open,
                      BeginConversion, ReadStatements, ConversionStep, EndConversion,
                      Fail
  <2>4. pc[p] = "commit"
    BY <2>3 DEF Commit
  <2>5. Does[p] # "openOrCreate"
    BY <2>4 DEF SafetyInv, CreationInv
  <2>6. Does[p] # "open"
    BY <2>4 DEF SafetyInv, LockInv
  <2> QED BY <2>4, <2>5, <2>6, DoesAssumption DEF Operations
<1>2. [][A]_vars => CreatedOnce
  BY DEF CreatedOnce
<1> QED BY SafetyInvariant, <1>1, <1>2, PTL DEF Spec
==============================================================================
