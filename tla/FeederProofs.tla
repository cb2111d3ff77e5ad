---------------------------- MODULE FeederProofs ----------------------------
(***************************************************************************)
(* Proofs about Feeder: the safety properties that the runs Feeder and     *)
(* FeederErrors check, for any entries, any capacity, any percentage and   *)
(* any number of crashes, archivings and trimmings.                        *)
(*                                                                         *)
(* An id that was handed out names one row for as long as it is in use.    *)
(* The rows are in three places (the tables as the open transaction shows  *)
(* them, the tables as of the last COMMIT, and the archive database), the  *)
(* ids in two more (the caches, and the locals of storeEntry).             *)
(***************************************************************************)
EXTENDS Feeder, FiniteSetTheorems, TLAPS

\* What the applications send tells processes apart by name and pid.
NamePidTells ==
  \A e, f \in Entries : e.name = f.name /\ e.pid = f.pid => e.start = f.start

\* A process some application has: its name, pid and start time were sent.
Known(r) ==
  \E e \in Entries : r.name = e.name /\ r.pid = e.pid /\ r.start = e.start

\* Tables R with the sequences S: no id is beyond its sequence, and every
\* process is that of an application.
Tidy(R, S) ==
  /\ DOMAIN R = Tables
  /\ S \in [Tables -> Nat]
  /\ \A t \in Tables : DOMAIN R[t] \subseteq 1 .. S[t]
  /\ \A i \in DOMAIN R["process"] : Known(R["process"][i])

TablesInv ==
  /\ DOMAIN rows = Databases /\ DOMAIN seq = Databases
  /\ seq = [d \in Databases |-> seq[d]]
  /\ \A d \in Databases : Tidy(rows[d], seq[d])
  /\ disk = [rows |-> disk.rows, seq |-> disk.seq]
  /\ Tidy(disk.rows, disk.seq)

\* Whatever a cache answers is an id.
AnswersInv ==
  /\ DOMAIN cache = Cached
  /\ \A t \in Cached : \A k \in DOMAIN cache[t] : cache[t][k] \in Nat

\* Where the daemon is in handleTraceEntry, storeEntry and archiveEntries.
FlowInv ==
  /\ step \in Steps /\ target \in Databases
  /\ target = "archive" => step \in Cached \cup {"entry", "next"}
  /\ toArchive # {} => step = "next" \/ target = "archive"
  /\ \A i \in toArchive : i \in Ids("entry") /\ Joined("trace", i)
  /\ step # "idle" => received \in Entries /\ Known(entry)

LocalsInv ==
  /\ received \in Entries \cup {NoEntry}
  /\ ids \in [Cached -> Nat]
  /\ numCopy \in Nat
  /\ archives \subseteq 1 .. MaxArchives
  /\ count \in 0 .. MaxEntries /\ trimmed \in BOOLEAN

FeedingInv == TablesInv /\ AnswersInv /\ FlowInv /\ LocalsInv

-----------------------------------------------------------------------------
(* The tables.                                                             *)

\* The tables of a new file are tidy.
LEMMA EmptyTidy == Tidy(NoRows, NoSeq)
  BY DEF Tidy, NoRows, NoSeq, Tables, Cached

\* So are tables to which a row is added under the next id.
LEMMA AddedTidy ==
  ASSUME NEW R, NEW S, Tidy(R, S), NEW t \in Tables, NEW r,
         t = "process" => Known(r)
  PROVE  Tidy([R EXCEPT ![t] = [j \in DOMAIN R[t] \cup {S[t] + 1} |->
                                  IF j = S[t] + 1 THEN r ELSE R[t][j]]],
              [S EXCEPT ![t] = S[t] + 1])
<1> DEFINE i == S[t] + 1
           new == [j \in DOMAIN R[t] \cup {i} |-> IF j = i THEN r ELSE R[t][j]]
           R1 == [R EXCEPT ![t] = new]
           S1 == [S EXCEPT ![t] = i]
<1>1. DOMAIN R = Tables /\ S \in [Tables -> Nat] /\ S[t] \in Nat /\ i \in Nat
  BY DEF Tidy
<1>2. DOMAIN R1 = Tables /\ S1 \in [Tables -> Nat]
  BY <1>1
<1>3. DOMAIN new = DOMAIN R[t] \cup {i}
  OBVIOUS
<1>4. R1[t] = new /\ S1[t] = i
  BY <1>1
<1>5. \A u \in Tables \ {t} : R1[u] = R[u] /\ S1[u] = S[u]
  BY <1>1
<1> HIDE DEF R1, S1
<1>6. ASSUME NEW u \in Tables PROVE DOMAIN R1[u] \subseteq 1 .. S1[u]
  <2>1. DOMAIN R[u] \subseteq 1 .. S[u] /\ S[u] \in Nat
    BY DEF Tidy
  <2>2. CASE u = t
    BY <2>1, <2>2, <1>1, <1>3, <1>4
  <2>3. CASE u # t
    BY <2>1, <2>3, <1>5
  <2> QED BY <2>2, <2>3
<1>7. ASSUME NEW k \in DOMAIN R1["process"] PROVE Known(R1["process"][k])
  <2>1. CASE t = "process" /\ k = i
    BY <2>1, <1>3, <1>4
  <2>2. CASE t = "process" /\ k # i
    <3>1. k \in DOMAIN R["process"] /\ R1["process"][k] = R["process"][k]
      BY <2>2, <1>3, <1>4
    <3> QED BY <3>1 DEF Tidy
  <2>3. CASE t # "process"
    BY <2>3, <1>5 DEF Tidy, Tables, Cached
  <2> QED BY <2>1, <2>2, <2>3
<1>8. Tidy(R1, S1)
  BY <1>2, <1>6, <1>7 DEF Tidy
<1> QED BY <1>8 DEF R1, S1

\* Tables from which rows were taken: the same sequences, the same rows.
Fewer(R, Q) ==
  /\ DOMAIN Q = Tables
  /\ \A t \in Tables : DOMAIN Q[t] \subseteq DOMAIN R[t]
  /\ \A t \in Tables : \A i \in DOMAIN Q[t] : Q[t][i] = R[t][i]

LEMMA FewerTidy ==
  ASSUME NEW R, NEW Q, NEW S, Tidy(R, S), Fewer(R, Q)
  PROVE  Tidy(Q, S)
  BY DEF Tidy, Fewer, Tables, Cached

LEMMA WithoutFewer ==
  ASSUME NEW R, NEW Q, NEW t \in Tables, NEW used, DOMAIN R = Tables, Fewer(R, Q)
  PROVE  /\ Fewer(R, Without(t, used, Q))
         /\ DOMAIN Without(t, used, Q)[t] = DOMAIN Q[t] \cap used
         /\ \A u \in Tables \ {t} : Without(t, used, Q)[u] = Q[u]
         /\ \A i \in DOMAIN Q[t] \cap used : Without(t, used, Q)[t][i] = Q[t][i]
<1> DEFINE kept == DOMAIN Q[t] \cap used
           f == Restrict(Q[t], kept)
           P == Without(t, used, Q)
<1>1. DOMAIN f = kept /\ \A i \in kept : f[i] = Q[t][i]
  BY DEF Restrict
<1>2. DOMAIN Q = Tables
  BY DEF Fewer
<1>3. P = [Q EXCEPT ![t] = f]
  BY DEF Without
<1> HIDE DEF f, P
<1>4. DOMAIN P = Tables /\ P[t] = f /\ \A u \in Tables \ {t} : P[u] = Q[u]
  BY <1>2, <1>3
<1>5. ASSUME NEW u \in Tables
      PROVE  DOMAIN P[u] \subseteq DOMAIN R[u] /\ \A i \in DOMAIN P[u] : P[u][i] = R[u][i]
  <2>1. DOMAIN Q[u] \subseteq DOMAIN R[u] /\ \A i \in DOMAIN Q[u] : Q[u][i] = R[u][i]
    BY DEF Fewer
  <2>2. CASE u = t
    BY <2>1, <2>2, <1>1, <1>4
  <2>3. CASE u # t
    BY <2>1, <2>3, <1>4
  <2> QED BY <2>2, <2>3
<1>6. Fewer(R, P)
  BY <1>4, <1>5 DEF Fewer
<1> QED BY <1>1, <1>4, <1>6 DEF P

LEMMA RemainingFewer ==
  ASSUME NEW gone, DOMAIN rows["trace"] = Tables
  PROVE  Fewer(rows["trace"], Remaining(gone))
<1> DEFINE R0 == rows["trace"]
           R1 == Without("entry", Ids("entry") \ gone, R0)
           R2 == Without("point", {r.point : r \in Range(R1["entry"])}, R1)
           R3 == Without("function", {r.function : r \in Range(R2["point"])}, R2)
           R4 == Without("path", {r.path : r \in Range(R3["point"])}, R3)
           R5 == Without("group", {r.group : r \in Range(R4["point"])}, R4)
           R6 == Without("thread", {r.thread : r \in Range(R5["entry"])}, R5)
           R7 == Without("process", {r.process : r \in Range(R6["thread"])}, R6)
<1>0. {"entry", "point", "function", "path", "group", "thread", "process"} \subseteq Tables
  BY DEF Tables, Cached
<1>1. Fewer(R0, R0) /\ DOMAIN R0 = Tables
  BY DEF Fewer
<1>2. Fewer(R0, R1)
  BY <1>0, <1>1, WithoutFewer
<1>3. Fewer(R0, R2)
  BY <1>0, <1>1, <1>2, WithoutFewer
<1>4. Fewer(R0, R3)
  BY <1>0, <1>1, <1>3, WithoutFewer
<1>5. Fewer(R0, R4)
  BY <1>0, <1>1, <1>4, WithoutFewer
<1>6. Fewer(R0, R5)
  BY <1>0, <1>1, <1>5, WithoutFewer
<1>7. Fewer(R0, R6)
  BY <1>0, <1>1, <1>6, WithoutFewer
<1>8. Fewer(R0, R7)
  BY <1>0, <1>1, <1>7, WithoutFewer
<1> QED BY <1>8 DEF Remaining

\* A step that leaves the trace database's rows as it finds them, or takes
\* some, or marks some as ended, commits tidy tables.
LEMMA CommittedTables ==
  ASSUME TablesInv, CommitTrace,
         DOMAIN rows' = Databases, DOMAIN seq' = Databases,
         seq' = [d \in Databases |-> seq'[d]],
         Tidy(rows'["trace"], seq'["trace"]), Tidy(rows'["archive"], seq'["archive"])
  PROVE  TablesInv'
<1>1. \A d \in Databases : Tidy(rows'[d], seq'[d])
  BY DEF Databases
<1>2. CASE UNCHANGED disk
  BY <1>1, <1>2 DEF TablesInv
<1>3. CASE disk' = [rows |-> rows'["trace"], seq |-> seq'["trace"]]
  <2>1. disk'.rows = rows'["trace"] /\ disk'.seq = seq'["trace"]
    BY <1>3
  <2>2. Tidy(disk'.rows, disk'.seq)
    BY <2>1
  <2>3. disk' = [rows |-> disk'.rows, seq |-> disk'.seq]
    BY <1>3, <2>1
  <2> QED BY <1>1, <2>2, <2>3 DEF TablesInv
<1> QED BY <1>2, <1>3 DEF CommitTrace

LEMMA SameTables ==
  ASSUME TablesInv, UNCHANGED <<rows, seq, disk>>
  PROVE  TablesInv'
BY DEF TablesInv

LEMMA AddRowTables ==
  ASSUME TablesInv, target \in Databases, NEW t \in Tables, NEW r,
         t = "process" => Known(r), AddRow(t, r), UNCHANGED disk
  PROVE  TablesInv'
<1> DEFINE R == [rows[target] EXCEPT ![t] =
                   [j \in DOMAIN rows[target][t] \cup {seq[target][t] + 1} |->
                      IF j = seq[target][t] + 1 THEN r ELSE rows[target][t][j]]]
           S == [seq[target] EXCEPT ![t] = seq[target][t] + 1]
<1>1. Tidy(rows[target], seq[target])
  BY DEF TablesInv
<1>2. Tidy(R, S)
  BY <1>1, AddedTidy
<1>3. rows' = [rows EXCEPT ![target] = R] /\ seq' = [seq EXCEPT ![target] = S]
  BY DEF AddRow
<1> HIDE DEF R, S
<1>4. DOMAIN rows = Databases /\ DOMAIN seq = Databases
  BY DEF TablesInv
<1>5. /\ DOMAIN rows' = Databases /\ DOMAIN seq' = Databases
      /\ seq' = [d \in Databases |-> seq'[d]]
  BY <1>3, <1>4
<1>6. ASSUME NEW d \in Databases PROVE Tidy(rows'[d], seq'[d])
  <2>1. CASE d = target
    <3>1. rows'[d] = R /\ seq'[d] = S
      BY <2>1, <1>3, <1>4
    <3> QED BY <3>1, <1>2
  <2>2. CASE d # target
    <3>1. rows'[d] = rows[d] /\ seq'[d] = seq[d]
      BY <2>2, <1>3, <1>4
    <3> QED BY <3>1 DEF TablesInv
  <2> QED BY <2>1, <2>2
<1> QED BY <1>5, <1>6 DEF TablesInv

\* Back to what the last COMMIT left.
LEMMA RollbackTables ==
  ASSUME TablesInv,
         rows' = [rows EXCEPT !["trace"] = disk.rows, !["archive"] = NoRows],
         seq' = [seq EXCEPT !["trace"] = disk.seq, !["archive"] = NoSeq],
         UNCHANGED disk
  PROVE  /\ TablesInv'
         /\ rows'["trace"] = disk.rows /\ seq'["trace"] = disk.seq
<1>1. DOMAIN rows = Databases /\ DOMAIN seq = Databases
  BY DEF TablesInv
<1>2. /\ DOMAIN rows' = Databases /\ DOMAIN seq' = Databases
      /\ seq' = [d \in Databases |-> seq'[d]]
  BY <1>1
<1>3. rows'["trace"] = disk.rows /\ seq'["trace"] = disk.seq
  BY <1>1 DEF Databases
<1>4. rows'["archive"] = NoRows /\ seq'["archive"] = NoSeq
  BY <1>1 DEF Databases
<1>5. ASSUME NEW d \in Databases PROVE Tidy(rows'[d], seq'[d])
  <2>1. CASE d = "trace"
    BY <2>1, <1>3 DEF TablesInv
  <2>2. CASE d = "archive"
    BY <2>2, <1>4, EmptyTidy
  <2> QED BY <2>1, <2>2 DEF Databases
<1> QED BY <1>2, <1>3, <1>5 DEF TablesInv

LEMMA DeleteArchivedTables ==
  ASSUME TablesInv, DeleteArchived
  PROVE  /\ TablesInv'
         /\ rows'["trace"] = Remaining(Oldest(Ids("entry"), numCopy))
         /\ Fewer(rows["trace"], rows'["trace"]) /\ seq'["trace"] = seq["trace"]
<1> DEFINE Q == Remaining(Oldest(Ids("entry"), numCopy))
<1>1. /\ rows' = [rows EXCEPT !["trace"] = Q, !["archive"] = NoRows]
      /\ seq' = [seq EXCEPT !["archive"] = NoSeq]
      /\ CommitTrace
  BY DEF DeleteArchived
<1>2. DOMAIN rows = Databases /\ DOMAIN seq = Databases /\ Tidy(rows["trace"], seq["trace"])
  BY DEF TablesInv, Databases
<1>3. Fewer(rows["trace"], Q)
  BY <1>2, RemainingFewer DEF Tidy
<1> HIDE DEF Q
<1>4. /\ DOMAIN rows' = Databases /\ DOMAIN seq' = Databases
      /\ seq' = [d \in Databases |-> seq'[d]]
  BY <1>1, <1>2
<1>5. rows'["trace"] = Q /\ seq'["trace"] = seq["trace"]
  BY <1>1, <1>2 DEF Databases
<1>6. rows'["archive"] = NoRows /\ seq'["archive"] = NoSeq
  BY <1>1, <1>2 DEF Databases
<1>7. Tidy(rows'["trace"], seq'["trace"])
  BY <1>2, <1>3, <1>5, FewerTidy
<1>8. Tidy(rows'["archive"], seq'["archive"])
  BY <1>6, EmptyTidy
<1>9. TablesInv'
  BY <1>1, <1>4, <1>7, <1>8, CommittedTables
<1> QED BY <1>3, <1>5, <1>9 DEF Q

\* The rows of the processes that end are the same but for their end.
LEMMA ShutdownRows ==
  ASSUME TablesInv, NEW e, HandleShutdownEvent(e)
  PROVE  /\ DOMAIN rows' = Databases /\ rows'["archive"] = rows["archive"]
         /\ DOMAIN rows'["trace"] = Tables
         /\ \A t \in Tables \ {"process"} : rows'["trace"][t] = rows["trace"][t]
         /\ DOMAIN rows'["trace"]["process"] = DOMAIN rows["trace"]["process"]
         /\ \A i \in DOMAIN rows["trace"]["process"] :
              LET r == rows["trace"]["process"][i]
                  s == rows'["trace"]["process"][i]
              IN  r.name = s.name /\ r.pid = s.pid /\ r.start = s.start
<1> DEFINE old == rows["trace"]["process"]
           new == [i \in DOMAIN old |-> IF old[i].pid = e.pid /\ old[i].start = e.start
                                          THEN [old[i] EXCEPT !.ended = TRUE]
                                          ELSE old[i]]
<1>1. rows' = [rows EXCEPT !["trace"]["process"] = new]
  BY DEF HandleShutdownEvent
<1>2. DOMAIN rows = Databases /\ DOMAIN rows["trace"] = Tables
  BY DEF TablesInv, Tidy, Databases
<1>3. DOMAIN new = DOMAIN old
  OBVIOUS
<1>4. ASSUME NEW i \in DOMAIN old
      PROVE  old[i].name = new[i].name /\ old[i].pid = new[i].pid /\ old[i].start = new[i].start
  <2>1. new[i] = [old[i] EXCEPT !.ended = TRUE] \/ new[i] = old[i]
    BY Zenon
  <2> QED BY <2>1
<1> HIDE DEF new
<1>5. rows'["trace"] = [rows["trace"] EXCEPT !["process"] = new]
  BY <1>1, <1>2 DEF Databases
<1>6. DOMAIN rows' = Databases /\ rows'["archive"] = rows["archive"]
  BY <1>1, <1>2 DEF Databases
<1>7. /\ DOMAIN rows'["trace"] = Tables
      /\ rows'["trace"]["process"] = new
      /\ \A t \in Tables \ {"process"} : rows'["trace"][t] = rows["trace"][t]
  BY <1>2, <1>5 DEF Tables, Cached
<1> QED BY <1>3, <1>4, <1>6, <1>7

LEMMA ShutdownTables ==
  ASSUME TablesInv, NEW e, HandleShutdownEvent(e)
  PROVE  TablesInv'
<1>1. /\ DOMAIN rows' = Databases /\ rows'["archive"] = rows["archive"]
      /\ DOMAIN rows'["trace"] = Tables
      /\ \A t \in Tables \ {"process"} : rows'["trace"][t] = rows["trace"][t]
      /\ DOMAIN rows'["trace"]["process"] = DOMAIN rows["trace"]["process"]
      /\ \A i \in DOMAIN rows["trace"]["process"] :
           LET r == rows["trace"]["process"][i]
               s == rows'["trace"]["process"][i]
           IN  r.name = s.name /\ r.pid = s.pid /\ r.start = s.start
  BY ShutdownRows
<1>2. seq' = seq /\ CommitTrace
  BY DEF HandleShutdownEvent
<1>3. /\ DOMAIN seq = Databases /\ seq = [d \in Databases |-> seq[d]]
      /\ Tidy(rows["trace"], seq["trace"]) /\ Tidy(rows["archive"], seq["archive"])
  BY DEF TablesInv, Databases
<1>4. \A t \in Tables : DOMAIN rows'["trace"][t] = DOMAIN rows["trace"][t]
  BY <1>1
<1>5. \A i \in DOMAIN rows'["trace"]["process"] : Known(rows'["trace"]["process"][i])
  BY <1>1, <1>3 DEF Tidy, Known
<1>6. Tidy(rows'["trace"], seq'["trace"])
  BY <1>1, <1>2, <1>3, <1>4, <1>5 DEF Tidy
<1>7. Tidy(rows'["archive"], seq'["archive"])
  BY <1>1, <1>2, <1>3
<1> QED BY <1>1, <1>2, <1>3, <1>6, <1>7, CommittedTables

LEMMA NukeTables ==
  ASSUME TablesInv, NukeDatabase
  PROVE  /\ TablesInv'
         /\ rows'["trace"] = [NoRows EXCEPT !["group"] = rows["trace"]["group"]]
         /\ seq'["trace"] = [seq["trace"] EXCEPT !["entry"] = 0]
<1> DEFINE Q == [NoRows EXCEPT !["group"] = rows["trace"]["group"]]
           S == [seq["trace"] EXCEPT !["entry"] = 0]
<1>1. /\ rows' = [rows EXCEPT !["trace"] = Q]
      /\ seq' = [seq EXCEPT !["trace"] = S]
      /\ CommitTrace
  BY DEF NukeDatabase
<1>2. /\ DOMAIN rows = Databases /\ DOMAIN seq = Databases
      /\ Tidy(rows["trace"], seq["trace"]) /\ Tidy(rows["archive"], seq["archive"])
  BY DEF TablesInv, Databases
<1>3. Tidy(Q, S)
  <2>1. DOMAIN Q = Tables /\ Q["group"] = rows["trace"]["group"]
    BY DEF NoRows, Tables, Cached
  <2>2. \A t \in Tables \ {"group"} : DOMAIN Q[t] = {}
    BY DEF NoRows, Tables, Cached
  <2>3. S \in [Tables -> Nat] /\ \A t \in Tables \ {"entry"} : S[t] = seq["trace"][t]
    BY <1>2 DEF Tidy
  <2> HIDE DEF Q, S
  <2>4. \A t \in Tables : DOMAIN Q[t] \subseteq 1 .. S[t]
    BY <1>2, <2>1, <2>2, <2>3 DEF Tidy
  <2>5. \A i \in DOMAIN Q["process"] : Known(Q["process"][i])
    BY <2>2 DEF Tables, Cached
  <2> QED BY <2>1, <2>3, <2>4, <2>5 DEF Tidy
<1> HIDE DEF Q, S
<1>4. /\ DOMAIN rows' = Databases /\ DOMAIN seq' = Databases
      /\ seq' = [d \in Databases |-> seq'[d]]
  BY <1>1, <1>2
<1>5. rows'["trace"] = Q /\ seq'["trace"] = S
  BY <1>1, <1>2 DEF Databases
<1>6. rows'["archive"] = rows["archive"] /\ seq'["archive"] = seq["archive"]
  BY <1>1, <1>2 DEF Databases
<1>7. TablesInv'
  <2>1. Tidy(rows'["trace"], seq'["trace"])
    BY <1>3, <1>5
  <2>2. Tidy(rows'["archive"], seq'["archive"])
    BY <1>2, <1>6
  <2> QED BY <1>1, <1>4, <2>1, <2>2, CommittedTables
<1> QED BY <1>5, <1>7 DEF Q, S

\* Every action, by what it does to the tables.
Looking ==
  \/ \E t \in Cached \ {"group"} : StoreCached(t) \/ StoreFound(t)
  \/ FetchGroup \/ OpenArchive \/ OpenArchiveFails \/ ArchiveNext \/ CloseArchive
  \/ \E e \in Entries : Receive(e)
  \/ \E n \in archives : UnlinkArchive(n)

Adding ==
  \/ \E t \in Cached \ {"group"} : StoreCreated(t)
  \/ StoreTraceEntry

Undoing == DatabaseFull \/ StatementFails \/ DeleteFails \/ RequestFails \/ Crash

LEMMA StepKinds ==
  ASSUME Next
  PROVE  \/ Looking \/ Adding \/ RegisterGroup \/ Undoing \/ Commit \/ DeleteArchived
         \/ \E e \in Entries : HandleShutdownEvent(e)
         \/ NukeDatabase /\ trimmed' = TRUE
BY DEF Next, Handling, Storing, Archiving, Other, Looking, Adding, Undoing

LEMMA LookingKeeps ==
  ASSUME Looking
  PROVE  UNCHANGED <<rows, seq, disk>>
BY DEF Looking, StoreCached, StoreFound, Find, Got, FetchGroup, OpenArchive, OpenArchiveFails,
       ArchiveNext, CloseArchive, Receive, UnlinkArchive

\* A row for the table and the entry whose step it is.
LEMMA RowKnown ==
  ASSUME NEW t \in Tables, Known(entry)
  PROVE  t = "process" => Known(Row(t))
BY DEF Row, Known, Tables, Cached

LEMMA TablesPreserved ==
  ASSUME TablesInv, FlowInv, [Next]_vars
  PROVE  TablesInv'
<1>1. CASE Looking
  BY <1>1, LookingKeeps, SameTables
<1>2. CASE Adding
  <2>1. target \in Databases
    BY DEF FlowInv
  <2>2. ASSUME NEW t \in Cached \ {"group"}, StoreCreated(t) PROVE TablesInv'
    <3>1. AddRow(t, Row(t)) /\ UNCHANGED disk /\ step = t
      BY <2>2 DEF StoreCreated, Create, Got
    <3>2. t \in Tables /\ Known(entry)
      BY <3>1 DEF FlowInv, Tables, Cached
    <3> QED BY <2>1, <3>1, <3>2, RowKnown, AddRowTables
  <2>3. CASE StoreTraceEntry
    <3> DEFINE r == [thread |-> ids["thread"], point |-> ids["point"],
                     message |-> entry.message]
    <3>1. AddRow("entry", r) /\ UNCHANGED disk
      BY <2>3 DEF StoreTraceEntry
    <3>2. "entry" \in Tables /\ "entry" # "process"
      BY DEF Tables
    <3> HIDE DEF r
    <3> QED BY <2>1, <3>1, <3>2, AddRowTables
  <2> QED BY <1>2, <2>2, <2>3 DEF Adding
<1>3. CASE RegisterGroup
  <2>1. UNCHANGED disk
    BY <1>3 DEF RegisterGroup
  <2>2. \/ UNCHANGED <<rows, seq>>
        \/ \E g \in Unregistered : AddRow("group", g)
    BY <1>3 DEF RegisterGroup, Find, Create
  <2>3. "group" \in Tables /\ target \in Databases
    BY DEF FlowInv, Tables, Cached
  <2> QED BY <2>1, <2>2, <2>3, SameTables, AddRowTables
<1>4. CASE Undoing
  BY <1>4, RollbackTables
    DEF Undoing, DatabaseFull, StatementFails, DeleteFails, RequestFails, Crash, Rollback
<1>5. CASE Commit
  <2>1. UNCHANGED <<rows, seq>> /\ CommitTrace
    BY <1>5 DEF Commit
  <2>2. /\ DOMAIN rows = Databases /\ DOMAIN seq = Databases
        /\ seq = [d \in Databases |-> seq[d]]
        /\ Tidy(rows["trace"], seq["trace"]) /\ Tidy(rows["archive"], seq["archive"])
    BY DEF TablesInv, Databases
  <2> QED BY <2>1, <2>2, CommittedTables
<1>6. CASE DeleteArchived
  BY <1>6, DeleteArchivedTables
<1>7. ASSUME NEW e \in Entries, HandleShutdownEvent(e) PROVE TablesInv'
  BY <1>7, ShutdownTables
<1>8. CASE NukeDatabase
  BY <1>8, NukeTables
<1>9. CASE UNCHANGED vars
  BY <1>9, SameTables DEF vars
<1> QED BY <1>1, <1>2, <1>3, <1>4, <1>5, <1>6, <1>7, <1>8, <1>9, StepKinds

-----------------------------------------------------------------------------
(* The caches.                                                             *)

LEMMA RememberAnswers ==
  ASSUME AnswersInv, NEW t \in Cached, NEW k, NEW i \in Nat, Remember(t, k, i)
  PROVE  AnswersInv'
<1>1. PICK kept \in SUBSET (DOMAIN cache[t] \cup {k}) :
        cache' = [cache EXCEPT ![t] =
                    [x \in kept |-> IF x = k THEN i ELSE cache[t][x]]]
  BY DEF Remember
<1>2. DOMAIN cache = Cached
  BY DEF AnswersInv
<1> DEFINE f == [x \in kept |-> IF x = k THEN i ELSE cache[t][x]]
<1>3. DOMAIN f = kept /\ \A x \in kept : f[x] \in Nat
  BY DEF AnswersInv
<1> HIDE DEF f
<1>4. DOMAIN cache' = Cached /\ cache'[t] = f /\ \A u \in Cached \ {t} : cache'[u] = cache[u]
  BY <1>1, <1>2 DEF f
<1>5. ASSUME NEW u \in Cached, NEW x \in DOMAIN cache'[u] PROVE cache'[u][x] \in Nat
  BY <1>3, <1>4 DEF AnswersInv
<1> QED BY <1>4, <1>5 DEF AnswersInv

LEMMA ForgetAnswers == ASSUME cache' = NoCache PROVE AnswersInv'
BY DEF AnswersInv, NoCache, Cached

\* An id in a table is a number.
LEMMA IdIsNat ==
  ASSUME TablesInv, NEW d \in Databases, NEW t \in Tables
  PROVE  /\ \A i \in DOMAIN rows[d][t] : i \in Nat /\ i \in 1 .. seq[d][t]
         /\ seq[d][t] \in Nat
<1>1. Tidy(rows[d], seq[d])
  BY DEF TablesInv
<1> QED BY <1>1 DEF Tidy

LEMMA AnswersPreserved ==
  ASSUME TablesInv, FlowInv, AnswersInv, [Next]_vars
  PROVE  AnswersInv'
<1> USE DEF FlowInv
<1>1. CASE UNCHANGED cache
  BY <1>1 DEF AnswersInv
<1>2. CASE cache' = NoCache
  BY <1>2, ForgetAnswers
<1>3. ASSUME NEW t \in Cached, NEW k, NEW r, NEW i, Find(t, k, r, i) PROVE AnswersInv'
  <2>1. i \in DOMAIN rows[target][t] /\ Remember(t, k, i)
    BY <1>3 DEF Find, Selected
  <2>2. i \in Nat
    BY <2>1, IdIsNat DEF Tables
  <2> QED BY <2>1, <2>2, RememberAnswers
<1>4. ASSUME NEW t \in Cached, NEW k, NEW r, Create(t, k, r) PROVE AnswersInv'
  <2>1. Remember(t, k, seq[target][t] + 1)
    BY <1>4 DEF Create
  <2>2. seq[target][t] + 1 \in Nat
    BY IdIsNat DEF Tables
  <2> QED BY <2>1, <2>2, RememberAnswers
<1>5. CASE Looking
  BY <1>1, <1>3, <1>5
    DEF Looking, StoreCached, StoreFound, FetchGroup, OpenArchive, OpenArchiveFails,
        ArchiveNext, CloseArchive, Receive, UnlinkArchive
<1>6. CASE Adding
  BY <1>1, <1>4, <1>6 DEF Adding, StoreCreated, StoreTraceEntry
<1>7. CASE RegisterGroup
  BY <1>3, <1>4, <1>7 DEF RegisterGroup, Cached
<1>8. CASE DeleteFails
  <2>1. PICK n \in 0 .. Len(ClearOrder) :
          cache' = [t \in Cached |-> IF t \in {ClearOrder[k] : k \in 1 .. n}
                                       THEN NoCache[t] ELSE cache[t]]
    BY <1>8 DEF DeleteFails
  <2>2. \A t \in Cached : cache'[t] = NoCache[t] \/ cache'[t] = cache[t]
    BY <2>1
  <2>3. DOMAIN cache' = Cached
    BY <2>1
  <2> QED BY <2>2, <2>3 DEF AnswersInv, NoCache
<1>9. CASE Undoing
  BY <1>1, <1>2, <1>8, <1>9
    DEF Undoing, DatabaseFull, StatementFails, RequestFails, Crash, Rollback
<1>10. CASE Commit \/ (\E e \in Entries : HandleShutdownEvent(e)) \/ NukeDatabase
  BY <1>1, <1>10 DEF Commit, HandleShutdownEvent, NukeDatabase
<1>11. CASE DeleteArchived
  BY <1>2, <1>11 DEF DeleteArchived
<1>12. CASE UNCHANGED vars
  BY <1>1, <1>12 DEF vars
<1> QED BY <1>5, <1>6, <1>7, <1>9, <1>10, <1>11, <1>12, StepKinds

-----------------------------------------------------------------------------
(* The flow of handleTraceEntry.                                           *)

\* The entries that can be read are the same if the tables are.
LEMMA SameJoined ==
  ASSUME rows'["trace"] = rows["trace"]
  PROVE  /\ \A t : Ids(t)' = Ids(t)
         /\ \A i : Joined("trace", i)' = Joined("trace", i)
BY DEF Ids, Joined, Resolves

\* Rows added while an archive is written are not added to the trace database.
LEMMA ArchiveRowsApart ==
  ASSUME target = "archive", TablesInv, NEW t, NEW r, AddRow(t, r)
  PROVE  rows'["trace"] = rows["trace"]
<1>1. \E R : rows' = [rows EXCEPT !["archive"] = R]
  BY DEF AddRow
<1>2. DOMAIN rows = Databases
  BY DEF TablesInv
<1> QED BY <1>1, <1>2 DEF Databases

\* A stored entry that can be read is that of a known process.
LEMMA ReadKnown ==
  ASSUME TablesInv, NEW i, Joined("trace", i)
  PROVE  Known(ReadEntry("trace", i))
<1> DEFINE R == rows["trace"]
           p == R["thread"][R["entry"][i].thread].process
<1>1. p \in DOMAIN R["process"]
  BY DEF Joined, Resolves
<1>2. Known(R["process"][p])
  BY <1>1 DEF TablesInv, Tidy, Databases
<1>3. /\ ReadEntry("trace", i).name = R["process"][p].name
      /\ ReadEntry("trace", i).pid = R["process"][p].pid
      /\ ReadEntry("trace", i).start = R["process"][p].start
  BY DEF ReadEntry
<1> QED BY <1>2, <1>3 DEF Known

LEMMA EntryKnown == \A e \in Entries : Known(e)
BY DEF Known

LEMMA AfterSteps == \A t \in Cached \ {"group"} : After(t) \in Cached \cup {"entry"}
BY DEF After, Cached

\* What an action on the rows leaves of the flow, if only the step changes.
LEMMA SameFlow ==
  ASSUME FlowInv, UNCHANGED <<toArchive, target, entry, received>>,
         toArchive = {} \/ rows'["trace"] = rows["trace"],
         step # "idle", step' \in Cached \cup {"entry", "next"}, toArchive = {} \/ step' = "next" \/ target = "archive"
  PROVE  FlowInv'
<1>1. \A i \in toArchive : i \in Ids("entry")' /\ Joined("trace", i)'
  BY SameJoined DEF FlowInv
<1>2. Known(entry)' /\ received' \in Entries
  BY DEF FlowInv, Known
<1>3. step' \in Steps /\ target' \in Databases
  BY DEF FlowInv, Steps
<1> QED BY <1>1, <1>2, <1>3 DEF FlowInv

\* The daemon that waits has nothing to archive.
LEMMA ReturnFlow == ASSUME Return PROVE FlowInv'
BY DEF Return, FlowInv, Steps, Databases, Cached

LEMMA IdleFlow ==
  ASSUME FlowInv, step = "idle", UNCHANGED <<step, target>>, UNCHANGED Locals
  PROVE  FlowInv'
BY DEF FlowInv, Locals, Steps, Cached, Databases

LEMMA FlowPreserved ==
  ASSUME TablesInv, FlowInv, [Next]_vars
  PROVE  FlowInv'
<1>1. CASE Looking
  <2>1. ASSUME NEW t \in Cached \ {"group"}, StoreCached(t) \/ StoreFound(t) PROVE FlowInv'
    <3>1. /\ UNCHANGED <<toArchive, target, entry, received, rows>>
          /\ step = t /\ step' = After(t)
      BY <2>1 DEF StoreCached, StoreFound, Find, Got
    <3>2. toArchive = {} \/ target = "archive"
      BY <3>1 DEF FlowInv, Cached
    <3> QED BY <3>1, <3>2, AfterSteps, SameFlow DEF Cached
  <2>2. CASE FetchGroup
    BY <2>2, SameFlow DEF FetchGroup, FlowInv, Cached
  <2>3. CASE OpenArchive
    <3>1. /\ step = "full" /\ step' = "next"
          /\ UNCHANGED <<rows, target, entry, received>>
          /\ toArchive' \subseteq {i \in Ids("entry") : Joined("trace", i)}
      BY <2>3 DEF OpenArchive, Oldest
    <3>2. \A i \in toArchive' : i \in Ids("entry")' /\ Joined("trace", i)'
      BY <3>1, SameJoined
    <3>3. Known(entry)'
      BY <3>1 DEF FlowInv, Known
    <3> QED BY <3>1, <3>2, <3>3 DEF FlowInv, Steps
  <2>4. CASE OpenArchiveFails
    BY <2>4, ReturnFlow DEF OpenArchiveFails
  <2>5. CASE ArchiveNext
    <3>1. PICK i \in toArchive :
            entry' = ReadEntry("trace", i) /\ toArchive' = toArchive \ {i}
      BY <2>5 DEF ArchiveNext
    <3>2. /\ step = "next" /\ step' = "path" /\ target' = "archive"
          /\ UNCHANGED <<rows, received>>
      BY <2>5 DEF ArchiveNext
    <3>3. Known(entry')
      BY <3>1, ReadKnown DEF FlowInv
    <3>4. Known(entry)'
      BY <3>3 DEF Known
    <3>5. \A j \in toArchive' : j \in Ids("entry")' /\ Joined("trace", j)'
      BY <3>1, <3>2, SameJoined DEF FlowInv
    <3> QED BY <3>2, <3>4, <3>5 DEF FlowInv, Steps, Cached, Databases
  <2>6. CASE CloseArchive
    <3>1. /\ step = "next" /\ step' = "delete" /\ target' = "trace"
          /\ toArchive = {} /\ UNCHANGED <<entry, received, toArchive>>
      BY <2>6 DEF CloseArchive
    <3> QED BY <3>1 DEF FlowInv, Known, Steps, Databases
  <2>7. ASSUME NEW e \in Entries, Receive(e) PROVE FlowInv'
    <3>1. /\ step = "idle" /\ step' = "path" /\ entry' = e /\ received' = e
          /\ UNCHANGED <<target, toArchive>>
      BY <2>7 DEF Receive
    <3>2. target = "trace" /\ toArchive = {}
      BY <3>1 DEF FlowInv, Cached, Databases
    <3> QED BY <3>1, <3>2 DEF FlowInv, Known, Steps, Cached, Databases
  <2>8. ASSUME NEW n, UnlinkArchive(n) PROVE FlowInv'
    <3>1. UNCHANGED <<rows, step, target, entry, received, toArchive>>
      BY <2>8 DEF UnlinkArchive, Locals
    <3>2. \A i \in toArchive' : i \in Ids("entry")' /\ Joined("trace", i)'
      BY <3>1, SameJoined DEF FlowInv
    <3> QED BY <3>1, <3>2 DEF FlowInv, Known
  <2> QED BY <1>1, <2>1, <2>2, <2>3, <2>4, <2>5, <2>6, <2>7, <2>8 DEF Looking
<1>2. CASE Adding
  <2>1. ASSUME NEW t \in Cached \ {"group"}, StoreCreated(t) PROVE FlowInv'
    <3>1. /\ UNCHANGED <<toArchive, target, entry, received>>
          /\ step = t /\ step' = After(t) /\ AddRow(t, Row(t))
      BY <2>1 DEF StoreCreated, Create, Got
    <3>2. toArchive = {} \/ target = "archive"
      BY <3>1 DEF FlowInv, Cached
    <3> QED BY <3>1, <3>2, ArchiveRowsApart, AfterSteps, SameFlow DEF Cached
  <2>2. CASE StoreTraceEntry
    <3>1. /\ UNCHANGED <<toArchive, target, entry, received>>
          /\ step = "entry" /\ step' = IF target = "trace" THEN "commit" ELSE "next"
          /\ \E r : AddRow("entry", r)
      BY <2>2 DEF StoreTraceEntry
    <3>2. toArchive = {} \/ target = "archive"
      BY <3>1 DEF FlowInv
    <3>3. CASE target = "archive"
      BY <3>1, <3>3, ArchiveRowsApart, SameFlow
    <3>4. CASE target = "trace"
      BY <3>1, <3>2, <3>4 DEF FlowInv, Known, Steps
    <3> QED BY <3>3, <3>4 DEF FlowInv, Databases
  <2> QED BY <1>2, <2>1, <2>2 DEF Adding
<1>3. CASE RegisterGroup
  <2>1. /\ UNCHANGED <<step, toArchive, target, entry, received>> /\ step = "group"
        /\ UNCHANGED rows \/ \E g : AddRow("group", g)
    BY <1>3 DEF RegisterGroup, Find, Create
  <2>2. toArchive = {} \/ target = "archive"
    BY <2>1 DEF FlowInv
  <2> QED BY <2>1, <2>2, ArchiveRowsApart, SameFlow DEF Cached
<1>4. CASE Undoing
  <2>1. CASE DatabaseFull
    <3>1. /\ target = "trace" /\ step' = "full"
          /\ UNCHANGED <<target, entry, received, toArchive>>
          /\ step \in Cached \cup {"entry"}
      BY <2>1 DEF DatabaseFull, Inserting, Locals, Cached
    <3>2. toArchive = {}
      BY <3>1 DEF FlowInv, Cached
    <3> QED BY <3>1, <3>2 DEF FlowInv, Known, Steps, Cached
  <2>2. CASE StatementFails \/ DeleteFails \/ Crash
    BY <2>2, ReturnFlow DEF StatementFails, DeleteFails, Crash
  <2>3. CASE RequestFails
    BY <2>3, IdleFlow DEF RequestFails
  <2> QED BY <1>4, <2>1, <2>2, <2>3 DEF Undoing
<1>5. CASE Commit
  BY <1>5, ReturnFlow DEF Commit
<1>6. CASE DeleteArchived
  <2>1. /\ step = "delete" /\ step' = "path" /\ entry' = received
        /\ UNCHANGED <<target, received, toArchive>>
    BY <1>6 DEF DeleteArchived
  <2>2. target = "trace" /\ toArchive = {}
    BY <2>1 DEF FlowInv, Cached, Databases
  <2>3. Known(entry')
    BY <2>1, EntryKnown DEF FlowInv
  <2>4. Known(entry)'
    BY <2>3 DEF Known
  <2> QED BY <2>1, <2>2, <2>4 DEF FlowInv, Steps, Cached
<1>7. CASE (\E e \in Entries : HandleShutdownEvent(e)) \/ NukeDatabase
  BY <1>7, IdleFlow DEF HandleShutdownEvent, NukeDatabase
<1>8. CASE UNCHANGED vars
  <2>1. UNCHANGED <<rows, step, target, entry, received, toArchive>>
    BY <1>8 DEF vars
  <2>2. \A i \in toArchive' : i \in Ids("entry")' /\ Joined("trace", i)'
    BY <2>1, SameJoined DEF FlowInv
  <2> QED BY <2>1, <2>2 DEF FlowInv, Known
<1> QED BY <1>1, <1>2, <1>3, <1>4, <1>5, <1>6, <1>7, <1>8, StepKinds

-----------------------------------------------------------------------------
(* The locals and the counters.                                            *)

LEMMA TableFinite ==
  ASSUME TablesInv
  PROVE  \A t \in Tables : IsFiniteSet(Ids(t)) /\ Cardinality(Ids(t)) \in Nat
<1> SUFFICES ASSUME NEW t \in Tables
             PROVE  IsFiniteSet(Ids(t)) /\ Cardinality(Ids(t)) \in Nat
  OBVIOUS
<1>1. Ids(t) \subseteq 1 .. seq["trace"][t] /\ seq["trace"][t] \in Nat
  BY IdIsNat DEF Ids, Databases
<1>2. IsFiniteSet(1 .. seq["trace"][t])
  BY <1>1, FS_Interval
<1>3. IsFiniteSet(Ids(t))
  BY <1>1, <1>2, FS_Subset
<1> QED BY <1>3, FS_CardinalityType

LEMMA RoundedNat == ASSUME NEW n \in Nat PROVE Rounded(n) \in Nat
<1>1. n * ShrinkBy \in Nat
  BY ShrinkByAssumption
<1> QED BY <1>1 DEF Rounded

LEMMA ReturnLocals ==
  ASSUME LocalsInv, Return, UNCHANGED <<archives, count, trimmed>>
  PROVE  LocalsInv'
BY DEF LocalsInv, Return, NoIds

LEMMA GotLocals ==
  ASSUME LocalsInv, NEW t, NEW i \in Nat, Got(t, i), UNCHANGED trimmed
  PROVE  LocalsInv'
BY DEF LocalsInv, Got

LEMMA SameLocals ==
  ASSUME LocalsInv, UNCHANGED <<ids, received, numCopy, archives, count>>,
         trimmed' \in BOOLEAN
  PROVE  LocalsInv'
BY DEF LocalsInv

LEMMA TrimmedSteps ==
  ASSUME Next PROVE UNCHANGED trimmed \/ (NukeDatabase /\ trimmed' = TRUE)
<1>1. CASE Handling
  BY <1>1 DEF Handling
<1>2. CASE Other /\ UNCHANGED trimmed
  BY <1>2
<1> QED BY <1>1, <1>2, Zenon DEF Next

LEMMA LocalsPreserved ==
  ASSUME FeedingInv, [Next]_vars
  PROVE  LocalsInv'
<1>0. LocalsInv /\ TablesInv /\ FlowInv /\ AnswersInv
  BY DEF FeedingInv
<1>1. CASE UNCHANGED vars
  BY <1>0, <1>1, SameLocals DEF vars, LocalsInv
<1>2. CASE NukeDatabase /\ trimmed' = TRUE
  BY <1>0, <1>2, SameLocals DEF NukeDatabase, Locals
<1> SUFFICES ASSUME UNCHANGED trimmed, Next PROVE LocalsInv'
  BY <1>1, <1>2, TrimmedSteps
<1>3. trimmed' \in BOOLEAN
  BY <1>0 DEF LocalsInv
<1>4. CASE Looking
  <2>1. ASSUME NEW t \in Cached \ {"group"}, StoreCached(t) \/ StoreFound(t) PROVE LocalsInv'
    <3>1. CASE StoreCached(t)
      BY <1>0, <3>1, GotLocals DEF StoreCached, AnswersInv
    <3>2. CASE StoreFound(t)
      <4>1. PICK i \in Selected(t, Row(t)) : Got(t, i)
        BY <3>2 DEF StoreFound
      <4>2. i \in DOMAIN rows[target][t] /\ target \in Databases /\ t \in Tables
        BY <1>0, <4>1 DEF Selected, FlowInv, Tables
      <4>3. i \in Nat
        BY <1>0, <4>2, IdIsNat
      <4> QED BY <1>0, <4>1, <4>3, GotLocals
    <3> QED BY <2>1, <3>1, <3>2
  <2>2. CASE FetchGroup
    <3>1. /\ ids' = [ids EXCEPT !["group"] =
                       IF entry.group = NoGroup THEN 0 ELSE cache["group"][entry.group]]
          /\ UNCHANGED <<received, numCopy, archives, count>> /\ Unregistered = {}
      BY <2>2 DEF FetchGroup
    <3>2. entry.group # NoGroup => entry.group \in DOMAIN cache["group"]
      BY <3>1 DEF Unregistered
    <3>3. (IF entry.group = NoGroup THEN 0 ELSE cache["group"][entry.group]) \in Nat
      BY <1>0, <3>2 DEF AnswersInv, Cached
    <3> QED BY <1>0, <1>3, <3>1, <3>3 DEF LocalsInv
  <2>3. CASE OpenArchive
    <3>1. /\ numCopy' = Rounded(Cardinality(Ids("entry")))
          /\ archives' = IF NextArchive <= MaxArchives
                           THEN archives \cup {NextArchive} ELSE archives
          /\ UNCHANGED <<received, ids, count>>
      BY <2>3 DEF OpenArchive
    <3>2. numCopy' \in Nat
      BY <1>0, <3>1, TableFinite, RoundedNat DEF Tables
    <3>3. archives \subseteq 1 .. MaxArchives /\ MaxArchives \in Nat
      BY <1>0, BoundsAssumption DEF LocalsInv
    <3>4. IsFiniteSet(archives)
      <4>1. IsFiniteSet(1 .. MaxArchives)
        BY <3>3, FS_Interval
      <4> QED BY <3>3, <4>1, FS_Subset
    <3>5. NextArchive \in Nat \ {0}
      BY <3>4, FS_CardinalityType DEF NextArchive
    <3>6. archives' \subseteq 1 .. MaxArchives
      BY <3>1, <3>3, <3>5
    <3> QED BY <1>0, <1>3, <3>1, <3>2, <3>6 DEF LocalsInv
  <2>4. CASE OpenArchiveFails
    BY <1>0, <2>4, ReturnLocals DEF OpenArchiveFails
  <2>5. CASE ArchiveNext
    BY <1>0, <1>3, <2>5 DEF ArchiveNext, LocalsInv, NoIds
  <2>6. CASE CloseArchive
    BY <1>0, <1>3, <2>6, SameLocals DEF CloseArchive
  <2>7. ASSUME NEW e \in Entries, Receive(e) PROVE LocalsInv'
    BY <1>0, <1>3, <2>7, BoundsAssumption DEF Receive, LocalsInv
  <2>8. ASSUME NEW n, UnlinkArchive(n) PROVE LocalsInv'
    BY <1>0, <1>3, <2>8 DEF UnlinkArchive, Locals, LocalsInv
  <2> QED BY <1>4, <2>1, <2>2, <2>3, <2>4, <2>5, <2>6, <2>7, <2>8 DEF Looking
<1>5. CASE Adding
  <2>1. ASSUME NEW t \in Cached \ {"group"}, StoreCreated(t) PROVE LocalsInv'
    <3>1. Got(t, seq[target][t] + 1) /\ target \in Databases /\ t \in Tables
      BY <1>0, <2>1 DEF StoreCreated, FlowInv, Tables
    <3>2. seq[target][t] + 1 \in Nat
      BY <1>0, <3>1, IdIsNat
    <3> QED BY <1>0, <3>1, <3>2, GotLocals
  <2>2. CASE StoreTraceEntry
    BY <1>0, <1>3, <2>2, SameLocals DEF StoreTraceEntry
  <2> QED BY <1>5, <2>1, <2>2 DEF Adding
<1>6. CASE RegisterGroup
  BY <1>0, <1>3, <1>6, SameLocals DEF RegisterGroup
<1>7. CASE DatabaseFull \/ RequestFails \/ (\E e \in Entries : HandleShutdownEvent(e))
  BY <1>0, <1>3, <1>7, SameLocals DEF DatabaseFull, RequestFails, HandleShutdownEvent, Locals
<1>8. CASE StatementFails \/ DeleteFails \/ Crash \/ Commit
  BY <1>0, <1>8, ReturnLocals DEF StatementFails, DeleteFails, Crash, Commit
<1>9. CASE DeleteArchived
  BY <1>0, <1>3, <1>9 DEF DeleteArchived, LocalsInv, NoIds
<1>10. CASE NukeDatabase
  BY <1>0, <1>3, <1>10, SameLocals DEF NukeDatabase, Locals
<1> QED BY <1>4, <1>5, <1>6, <1>7, <1>8, <1>9, <1>10, StepKinds DEF Undoing

-----------------------------------------------------------------------------
(* The tables and the flow of the daemon, with all that may go wrong.      *)

LEMMA FeedingInit == Init => FeedingInv
<1> SUFFICES ASSUME Init PROVE FeedingInv
  OBVIOUS
<1>1. TablesInv
  BY EmptyTidy DEF Init, TablesInv, Databases
<1>2. AnswersInv
  BY DEF Init, AnswersInv, NoCache, Cached
<1>3. FlowInv
  BY DEF Init, FlowInv, Steps, Databases, Cached
<1>4. LocalsInv
  <2>1. trimmed \in BOOLEAN
    BY Zenon DEF Init
  <2>2. ids \in [Cached -> Nat] /\ count \in 0 .. MaxEntries
    BY BoundsAssumption DEF Init, NoIds
  <2> QED BY <2>1, <2>2 DEF Init, LocalsInv
<1> QED BY <1>1, <1>2, <1>3, <1>4 DEF FeedingInv

LEMMA FeedingPreserved == FeedingInv /\ [Next]_vars => FeedingInv'
BY TablesPreserved, AnswersPreserved, FlowPreserved, LocalsPreserved DEF FeedingInv

LEMMA FeedingSpec == Spec => []FeedingInv
BY FeedingInit, FeedingPreserved, PTL DEF Spec

\* The variables are of their types.
LEMMA FeedingTyped == FeedingInv => FeederTypeOK
<1> SUFFICES ASSUME FeedingInv PROVE FeederTypeOK
  OBVIOUS
<1>1. TablesInv /\ FlowInv /\ LocalsInv
  BY DEF FeedingInv
<1>2. \A d \in Databases, t \in Tables : DOMAIN rows[d][t] \subseteq 1 .. seq[d][t]
  BY <1>1 DEF TablesInv, Tidy
<1>3. \A t \in Tables : DOMAIN disk.rows[t] \subseteq 1 .. disk.seq[t]
  BY <1>1 DEF TablesInv, Tidy
<1>4. toArchive \subseteq Nat
  <2>1. \A i \in toArchive : i \in DOMAIN rows["trace"]["entry"]
    BY <1>1 DEF FlowInv, Ids
  <2>2. "trace" \in Databases /\ "entry" \in Tables
    BY DEF Databases, Tables
  <2> QED BY <1>1, <2>1, <2>2, IdIsNat
<1> QED BY <1>1, <1>2, <1>3, <1>4 DEF FlowInv, LocalsInv, FeederTypeOK

\* Of two processes of one name and pid the SELECT, which asks for the pid and
\* the start time, finds either, if no application uses a process id again.
LEMMA SelectFindsClash ==
  ASSUME NamePidTells, FeedingInv
  PROVE  ~Clashing
<1> SUFFICES ASSUME Clashing PROVE FALSE
  OBVIOUS
<1>1. /\ step \in Cached \ {"group"} /\ Clashes(step, Row(step))
      /\ Selected(step, Row(step)) = {}
  BY DEF Clashing, Inserting, Cached
<1>2. PICK i \in DOMAIN rows[target][step] : Clash(step, rows[target][step][i], Row(step))
  BY <1>1 DEF Clashes
<1>3. ~Selects(step, rows[target][step][i], Row(step))
  BY <1>1 DEF Selected
<1>4. step = "process"
  BY <1>2, <1>3 DEF Clash, Selects
<1>5. Known(entry) /\ target \in Databases
  BY <1>4, FeedingInv DEF FeedingInv, FlowInv
<1>6. Known(rows[target]["process"][i])
  BY <1>2, <1>4, <1>5 DEF FeedingInv, TablesInv, Tidy
<1>7. /\ Row("process").name = entry.name /\ Row("process").pid = entry.pid
      /\ Row("process").start = entry.start
  BY DEF Row
<1> QED BY <1>2, <1>3, <1>4, <1>5, <1>6, <1>7 DEF Clash, Selects, Known, NamePidTells

-----------------------------------------------------------------------------
(* Which INSERTs the UNIQUE clauses refuse, whatever is sent.              *)

\* A step on the archive leaves the trace database alone.
LEMMA OtherTables ==
  ASSUME target = "archive", TablesInv, NEW t, NEW r, AddRow(t, r)
  PROVE  rows'["trace"] = rows["trace"] /\ seq'["trace"] = seq["trace"]
<1>1. (\E R : rows' = [rows EXCEPT !["archive"] = R])
      /\ (\E S : seq' = [seq EXCEPT !["archive"] = S])
  BY DEF AddRow
<1>2. DOMAIN rows = Databases /\ DOMAIN seq = Databases
  BY DEF TablesInv
<1> QED BY <1>1, <1>2 DEF Databases

\* A row for the tables of the caches is not a trace entry.
LEMMA OtherRows ==
  ASSUME TablesInv, target \in Databases, NEW t \in Tables, NEW r, AddRow(t, r)
  PROVE  /\ \A u \in Tables \ {t} : rows'[target][u] = rows[target][u]
         /\ \A d \in Databases \ {target} : rows'[d] = rows[d]
<1>1. DOMAIN rows = Databases /\ DOMAIN rows[target] = Tables
  BY DEF TablesInv, Tidy
<1>2. \E f : rows' = [rows EXCEPT ![target] = [rows[target] EXCEPT ![t] = f]]
  BY DEF AddRow
<1> QED BY <1>1, <1>2

\* Two records that tell of the same process.
SameProcess(r, s) == r.name = s.name /\ r.pid = s.pid /\ r.start = s.start

\* The process of r has a row in table P.
HasProcess(P, r) == \E i \in DOMAIN P : SameProcess(r, P[i])

\* Table P satisfies UNIQUE(name, pid) as far as start times are concerned.
OneStart(P) ==
  \A i, j \in DOMAIN P : P[i].name = P[j].name /\ P[i].pid = P[j].pid => P[i].start = P[j].start

\* Every process of table Q has a row in table P.
Covers(P, Q) == \A i \in DOMAIN Q : HasProcess(P, Q[i])

\* Processes get into the archive from the trace database only, whose table
\* satisfies the clause.
ReuseInv ==
  /\ OneStart(rows["trace"]["process"]) /\ OneStart(disk.rows["process"])
  /\ Covers(rows["trace"]["process"], rows["archive"]["process"])
  /\ DOMAIN rows["archive"]["process"] # {}
       => target = "archive" \/ step \in {"next", "delete"}
  /\ target = "archive" => HasProcess(rows["trace"]["process"], entry)

\* Without processes there is nothing to satisfy.
LEMMA NoProcesses ==
  ASSUME NEW P, DOMAIN P = {}
  PROVE  OneStart(P) /\ \A Q : Covers(Q, P)
BY DEF OneStart, Covers

\* A table that lost rows, or whose processes ended, has no new processes.
LEMMA FewerOneStart ==
  ASSUME NEW P, NEW Q, OneStart(P), DOMAIN Q \subseteq DOMAIN P,
         \A i \in DOMAIN Q : SameProcess(P[i], Q[i])
  PROVE  OneStart(Q)
BY DEF OneStart, SameProcess

\* A table stays so when a row is added that the clause does not refuse.
LEMMA MoreOneStart ==
  ASSUME NEW P, NEW i, NEW r, OneStart(P),
         \A j \in DOMAIN P : ~(P[j].name = r.name /\ P[j].pid = r.pid)
  PROVE  OneStart([j \in DOMAIN P \cup {i} |-> IF j = i THEN r ELSE P[j]])
<1> DEFINE Q == [j \in DOMAIN P \cup {i} |-> IF j = i THEN r ELSE P[j]]
<1>1. DOMAIN Q = DOMAIN P \cup {i} /\ Q[i] = r /\ \A j \in DOMAIN P \ {i} : Q[j] = P[j]
  OBVIOUS
<1> HIDE DEF Q
<1>2. OneStart(Q)
  BY <1>1 DEF OneStart
<1> QED BY <1>2 DEF Q

\* An entry read from the tables is that of a process of theirs.
LEMMA ReadHasProcess ==
  ASSUME NEW i, Joined("trace", i)
  PROVE  HasProcess(rows["trace"]["process"], ReadEntry("trace", i))
<1> DEFINE R == rows["trace"]
           p == R["thread"][R["entry"][i].thread].process
<1>1. p \in DOMAIN R["process"]
  BY DEF Joined, Resolves
<1>2. /\ ReadEntry("trace", i).name = R["process"][p].name
      /\ ReadEntry("trace", i).pid = R["process"][p].pid
      /\ ReadEntry("trace", i).start = R["process"][p].start
  BY DEF ReadEntry
<1> QED BY <1>1, <1>2 DEF HasProcess, SameProcess

\* The tables as they were.
LEMMA SameReuse ==
  ASSUME ReuseInv, UNCHANGED <<rows, disk>>,
         target' = "archive" => HasProcess(rows["trace"]["process"], entry'),
         \/ DOMAIN rows["archive"]["process"] = {}
         \/ target' = "archive" \/ step' \in {"next", "delete"}
  PROVE  ReuseInv'
BY DEF ReuseInv

\* Nothing is archived.
LEMMA NothingArchived ==
  ASSUME ReuseInv, step \notin {"next", "delete"}, target # "archive"
  PROVE  DOMAIN rows["archive"]["process"] = {}
BY DEF ReuseInv

LEMMA LookingReuse ==
  ASSUME FlowInv, ReuseInv, Looking
  PROVE  ReuseInv'
<1>0. UNCHANGED <<rows, disk>>
  BY LookingKeeps
<1>1. target = "archive" => HasProcess(rows["trace"]["process"], entry)
  BY DEF ReuseInv
<1>2. ASSUME UNCHANGED <<target, entry>>, step \in Cached \cup {"idle", "full"} \/ step' = step
      PROVE  ReuseInv'
  BY <1>0, <1>1, <1>2, SameReuse, NothingArchived DEF ReuseInv, Cached
<1>3. ASSUME NEW t \in Cached \ {"group"}, StoreCached(t) \/ StoreFound(t) PROVE ReuseInv'
  BY <1>2, <1>3 DEF StoreCached, StoreFound, Got
<1>4. CASE FetchGroup
  BY <1>2, <1>4 DEF FetchGroup, Cached
<1>5. CASE OpenArchive
  BY <1>2, <1>5 DEF OpenArchive
<1>6. CASE OpenArchiveFails
  <2>1. step = "full" /\ target' = "trace"
    BY <1>6 DEF OpenArchiveFails, Return
  <2>2. target # "archive"
    BY <2>1 DEF FlowInv, Cached
  <2> QED BY <1>0, <2>1, <2>2, SameReuse, NothingArchived
<1>7. CASE ArchiveNext
  <2>1. PICK i \in toArchive : entry' = ReadEntry("trace", i)
    BY <1>7 DEF ArchiveNext
  <2>2. HasProcess(rows["trace"]["process"], entry')
    BY <2>1, ReadHasProcess DEF FlowInv
  <2>3. target' = "archive"
    BY <1>7 DEF ArchiveNext
  <2> QED BY <1>0, <2>2, <2>3, SameReuse
<1>8. CASE CloseArchive
  BY <1>0, <1>8, SameReuse DEF CloseArchive
<1>9. ASSUME NEW e \in Entries, Receive(e) PROVE ReuseInv'
  <2>1. step = "idle" /\ target' = target
    BY <1>9 DEF Receive
  <2>2. target # "archive"
    BY <2>1 DEF FlowInv, Cached
  <2> QED BY <1>0, <2>1, <2>2, SameReuse, NothingArchived
<1>10. ASSUME NEW n, UnlinkArchive(n) PROVE ReuseInv'
  BY <1>2, <1>10 DEF UnlinkArchive, Locals
<1> QED BY <1>3, <1>4, <1>5, <1>6, <1>7, <1>8, <1>9, <1>10 DEF Looking

\* A row is added to any table but that of the processes.
LEMMA OtherRowReuse ==
  ASSUME TablesInv, ReuseInv, target \in Databases, NEW t \in Tables \ {"process"}, NEW r,
         AddRow(t, r), UNCHANGED <<disk, target, entry>>,
         target = "trace" => step \notin {"next", "delete"}
  PROVE  ReuseInv'
<1>1. "process" \in Tables \ {t}
  BY DEF Tables, Cached
<1>2. \A d \in Databases : rows'[d]["process"] = rows[d]["process"]
  BY <1>1, OtherRows
<1>3. /\ rows'["trace"]["process"] = rows["trace"]["process"]
      /\ rows'["archive"]["process"] = rows["archive"]["process"]
  BY <1>2 DEF Databases
<1>4. DOMAIN rows["archive"]["process"] # {} => target = "archive"
  BY NothingArchived DEF Databases
<1> QED BY <1>3, <1>4 DEF ReuseInv

LEMMA CreatedReuse ==
  ASSUME FeedingInv, ReuseInv, StoreCreated("process")
  PROVE  ReuseInv'
<1> DEFINE P == rows[target]["process"]
           r == Row("process")
           i == seq[target]["process"] + 1
           Q == [j \in DOMAIN P \cup {i} |-> IF j = i THEN r ELSE P[j]]
<1>1. /\ step = "process" /\ ~Clashes("process", r) /\ AddRow("process", r)
      /\ UNCHANGED <<disk, target, entry>>
  BY DEF StoreCreated, Create, Got
<1>2. target \in Databases /\ TablesInv
  BY DEF FeedingInv, FlowInv
<1>3. rows'[target]["process"] = Q
  <2>1. DOMAIN rows = Databases /\ DOMAIN rows[target] = Tables /\ "process" \in Tables
    BY <1>2 DEF TablesInv, Tidy, Tables, Cached
  <2>2. rows' = [rows EXCEPT ![target]["process"] = Q]
    BY <1>1 DEF AddRow
  <2> HIDE DEF Q
  <2> QED BY <1>2, <2>1, <2>2
<1>4. \A d \in Databases \ {target} : rows'[d] = rows[d]
  BY <1>1, <1>2, OtherRows DEF Tables, Cached
<1>5. r.name = entry.name /\ r.pid = entry.pid /\ r.start = entry.start
  BY DEF Row
<1>6. CASE target = "trace"
  <2>1. \A j \in DOMAIN P : ~(P[j].name = r.name /\ P[j].pid = r.pid)
    BY <1>1 DEF Clashes, Clash
  <2>2. OneStart(P)
    BY <1>6 DEF ReuseInv
  <2> HIDE DEF P, r, i
  <2>3. OneStart(Q)
    BY <2>1, <2>2, MoreOneStart
  <2>4. rows'["archive"] = rows["archive"] /\ DOMAIN rows["archive"]["process"] = {}
    BY <1>1, <1>4, <1>6, NothingArchived DEF Databases
  <2>5. Covers(rows'["trace"]["process"], rows'["archive"]["process"])
    BY <2>4, NoProcesses
  <2> QED BY <1>1, <1>3, <1>6, <2>3, <2>4, <2>5 DEF ReuseInv
<1>7. CASE target = "archive"
  <2>1. rows'["trace"] = rows["trace"]
    BY <1>4, <1>7 DEF Databases
  <2>2. HasProcess(rows["trace"]["process"], r)
    BY <1>5, <1>7 DEF ReuseInv, HasProcess, SameProcess
  <2>3. Covers(rows["trace"]["process"], P)
    BY <1>7 DEF ReuseInv
  <2>4. DOMAIN Q = DOMAIN P \cup {i} /\ Q[i] = r /\ \A j \in DOMAIN P \ {i} : Q[j] = P[j]
    OBVIOUS
  <2> HIDE DEF Q, P, r, i
  <2>5. Covers(rows["trace"]["process"], Q)
    BY <2>2, <2>3, <2>4 DEF Covers
  <2> QED BY <1>1, <1>3, <1>7, <2>1, <2>5 DEF ReuseInv
<1> QED BY <1>2, <1>6, <1>7 DEF Databases

\* The archive is gone and no entry of it is being stored.
LEMMA NoArchiveReuse ==
  ASSUME DOMAIN rows'["archive"]["process"] = {}, target' = "trace",
         OneStart(rows'["trace"]["process"]), OneStart(disk'.rows["process"])
  PROVE  ReuseInv'
BY NoProcesses DEF ReuseInv

\* The same, when the step commits.
LEMMA CommitReuse ==
  ASSUME ReuseInv, DOMAIN rows'["archive"]["process"] = {}, target' = "trace",
         OneStart(rows'["trace"]["process"]), CommitTrace
  PROVE  ReuseInv'
<1>1. disk' = disk \/ disk'.rows = rows'["trace"]
  BY DEF CommitTrace
<1> QED BY <1>1, NoArchiveReuse DEF ReuseInv

LEMMA ReusePreserved ==
  ASSUME FeedingInv, ReuseInv, [Next]_vars
  PROVE  ReuseInv'
<1>0. TablesInv /\ FlowInv /\ target \in Databases
  BY DEF FeedingInv, FlowInv
<1>a. DOMAIN NoRows["process"] = {} /\ "process" \in Tables
  BY DEF NoRows, Tables, Cached
<1>b. target = "trace" \/ target = "archive"
  BY <1>0 DEF Databases
<1>c. step \in {"idle", "commit", "delete", "full"} => target = "trace"
  BY <1>0, <1>b DEF FlowInv, Cached
<1>1. CASE Looking
  BY <1>0, <1>1, LookingReuse
<1>2. CASE Adding
  <2>1. ASSUME NEW t \in Cached \ {"group"}, StoreCreated(t) PROVE ReuseInv'
    <3>1. CASE t = "process"
      BY <2>1, <3>1, CreatedReuse
    <3>2. CASE t # "process"
      <4>1. /\ AddRow(t, Row(t)) /\ UNCHANGED <<disk, target, entry>>
            /\ step = t
        BY <2>1 DEF StoreCreated, Create, Got
      <4>2. t \in Tables \ {"process"} /\ step \notin {"next", "delete"}
        BY <3>2, <4>1 DEF Tables, Cached
      <4> QED BY <1>0, <4>1, <4>2, OtherRowReuse
    <3> QED BY <3>1, <3>2
  <2>2. CASE StoreTraceEntry
    <3>1. /\ \E r : AddRow("entry", r)
          /\ UNCHANGED <<disk, target, entry>> /\ step = "entry"
      BY <2>2 DEF StoreTraceEntry
    <3>2. "entry" \in Tables \ {"process"}
      BY DEF Tables
    <3> QED BY <1>0, <3>1, <3>2, OtherRowReuse
  <2> QED BY <1>2, <2>1, <2>2 DEF Adding
<1>3. CASE RegisterGroup
  <2>1. /\ UNCHANGED <<disk, step, target, entry>> /\ step = "group"
        /\ (UNCHANGED <<rows, seq>>) \/ (\E g : AddRow("group", g))
    BY <1>3 DEF RegisterGroup, Find, Create
  <2>2. CASE UNCHANGED <<rows, seq>>
    BY <2>1, <2>2 DEF ReuseInv
  <2>3. "group" \in Tables \ {"process"}
    BY DEF Tables, Cached
  <2> QED BY <1>0, <2>1, <2>2, <2>3, OtherRowReuse
<1>4. CASE Undoing
  <2>1. /\ rows' = [rows EXCEPT !["trace"] = disk.rows, !["archive"] = NoRows]
        /\ seq' = [seq EXCEPT !["trace"] = disk.seq, !["archive"] = NoSeq]
        /\ UNCHANGED disk
    BY <1>4 DEF Undoing, DatabaseFull, StatementFails, DeleteFails, RequestFails, Crash, Rollback
  <2>2. rows'["trace"] = disk.rows /\ rows'["archive"] = NoRows
    <3>1. DOMAIN rows = Databases
      BY <1>0 DEF TablesInv
    <3> QED BY <2>1, <3>1 DEF Databases
  <2>3. target' = "trace"
    BY <1>4, <1>c
      DEF Undoing, DatabaseFull, StatementFails, DeleteFails, RequestFails, Crash, Return
  <2>4. OneStart(disk.rows["process"])
    BY DEF ReuseInv
  <2> QED BY <1>a, <2>1, <2>2, <2>3, <2>4, NoArchiveReuse
<1>5. CASE Commit
  <2>1. step = "commit" /\ UNCHANGED rows /\ CommitTrace /\ target' = "trace"
    BY <1>5 DEF Commit, Return
  <2>2. DOMAIN rows["archive"]["process"] = {}
    BY <1>c, <2>1, NothingArchived
  <2> QED BY <2>1, <2>2, CommitReuse DEF ReuseInv
<1>6. CASE DeleteArchived
  <2>1. /\ rows' = [rows EXCEPT !["trace"] = Remaining(Oldest(Ids("entry"), numCopy)),
                                !["archive"] = NoRows]
        /\ step = "delete" /\ target' = target /\ CommitTrace
    BY <1>6 DEF DeleteArchived
  <2>2. rows'["archive"] = NoRows
    <3>1. DOMAIN rows = Databases
      BY <1>0 DEF TablesInv
    <3> QED BY <2>1, <3>1 DEF Databases
  <2>3. Fewer(rows["trace"], rows'["trace"])
    BY <1>0, <1>6, DeleteArchivedTables
  <2>4. OneStart(rows'["trace"]["process"])
    BY <1>a, <2>3, FewerOneStart DEF Fewer, SameProcess, ReuseInv
  <2> QED BY <1>a, <1>c, <2>1, <2>2, <2>4, CommitReuse
<1>7. ASSUME NEW e \in Entries, HandleShutdownEvent(e) PROVE ReuseInv'
  <2>1. step = "idle" /\ target' = target /\ CommitTrace
    BY <1>7 DEF HandleShutdownEvent
  <2>2. /\ rows'["archive"] = rows["archive"]
        /\ DOMAIN rows'["trace"]["process"] = DOMAIN rows["trace"]["process"]
        /\ \A i \in DOMAIN rows["trace"]["process"] :
             SameProcess(rows["trace"]["process"][i], rows'["trace"]["process"][i])
    BY <1>0, <1>7, ShutdownRows DEF SameProcess
  <2>3. OneStart(rows'["trace"]["process"])
    BY <2>2, FewerOneStart DEF ReuseInv
  <2>4. DOMAIN rows["archive"]["process"] = {}
    BY <1>c, <2>1, NothingArchived
  <2> QED BY <1>c, <2>1, <2>2, <2>3, <2>4, CommitReuse
<1>8. CASE NukeDatabase
  <2>1. step = "idle" /\ target' = target /\ CommitTrace
    BY <1>8 DEF NukeDatabase
  <2>2. rows'["archive"] = rows["archive"]
    <3>1. DOMAIN rows = Databases
      BY <1>0 DEF TablesInv
    <3>2. \E R : rows' = [rows EXCEPT !["trace"] = R]
      BY <1>8 DEF NukeDatabase
    <3> QED BY <3>1, <3>2 DEF Databases
  <2>3. rows'["trace"]["process"] = NoRows["process"]
    <3>1. rows'["trace"] = [NoRows EXCEPT !["group"] = rows["trace"]["group"]]
      BY <1>0, <1>8, NukeTables
    <3> QED BY <3>1
  <2>4. DOMAIN rows["archive"]["process"] = {}
    BY <1>c, <2>1, NothingArchived
  <2>5. OneStart(rows'["trace"]["process"])
    BY <1>a, <2>3, NoProcesses
  <2> QED BY <1>c, <2>1, <2>2, <2>4, <2>5, CommitReuse
<1>9. CASE UNCHANGED vars
  BY <1>9 DEF vars, ReuseInv
<1> QED BY <1>1, <1>2, <1>3, <1>4, <1>5, <1>6, <1>7, <1>8, <1>9, StepKinds

\* Rows of one name and pid have one start time, in the archive as in the table
\* its rows come from, and the SELECT would find a row of the same start time.
LEMMA ReuseClash ==
  ASSUME FeedingInv, ReuseInv
  PROVE  ClashIsReuse
<1> SUFFICES ASSUME Clashing
             PROVE  /\ step = "process" /\ target = "trace"
                    /\ \A i \in Ids("process") :
                         LET r == rows["trace"]["process"][i]
                         IN  r.name = entry.name /\ r.pid = entry.pid =>
                               /\ r.start # entry.start
                               /\ \E e \in Entries :
                                    e.name = r.name /\ e.pid = r.pid /\ e.start = r.start
  BY DEF ClashIsReuse
<1>1. /\ step \in Cached \ {"group"} /\ Clashes(step, Row(step))
      /\ Selected(step, Row(step)) = {}
  BY DEF Clashing, Inserting, Cached
<1>2. PICK i \in DOMAIN rows[target][step] : Clash(step, rows[target][step][i], Row(step))
  BY <1>1 DEF Clashes
<1>3. ~Selects(step, rows[target][step][i], Row(step))
  BY <1>1 DEF Selected
<1>4. step = "process"
  BY <1>2, <1>3 DEF Clash, Selects
<1>5. /\ Row("process").name = entry.name /\ Row("process").pid = entry.pid
      /\ Row("process").start = entry.start
  BY DEF Row
<1>6. \A j \in DOMAIN rows[target]["process"] :
        rows[target]["process"][j].pid = entry.pid
          => rows[target]["process"][j].start # entry.start
  BY <1>1, <1>4, <1>5 DEF Selected, Selects
<1>7. target = "trace"
  <2>1. target \in Databases
    BY DEF FeedingInv, FlowInv
  <2>2. SUFFICES ASSUME target = "archive" PROVE FALSE
    BY <2>1 DEF Databases
  <2> DEFINE P == rows["trace"]["process"]
             r == rows["archive"]["process"][i]
  <2>3. i \in DOMAIN rows["archive"]["process"]
    BY <1>2, <1>4, <2>2
  <2>4. r.name = entry.name /\ r.pid = entry.pid
    BY <1>2, <1>4, <1>5, <2>2 DEF Clash
  <2>5. PICK j \in DOMAIN P : SameProcess(r, P[j])
    BY <2>3 DEF ReuseInv, Covers, HasProcess
  <2>6. PICK k \in DOMAIN P : SameProcess(entry, P[k])
    BY <2>2 DEF ReuseInv, HasProcess
  <2>7. P[j].start = P[k].start
    BY <2>4, <2>5, <2>6 DEF ReuseInv, OneStart, SameProcess
  <2>8. r.start = entry.start
    BY <2>5, <2>6, <2>7 DEF SameProcess
  <2> QED BY <1>6, <2>2, <2>3, <2>4, <2>8
<1>8. \A j \in Ids("process") : Known(rows["trace"]["process"][j])
  BY DEF FeedingInv, TablesInv, Tidy, Databases, Ids
<1> QED BY <1>4, <1>6, <1>7, <1>8 DEF Ids, Known

LEMMA ReuseSpec == Spec => [](FeedingInv /\ ReuseInv)
<1>1. Init => ReuseInv
  <2>1. ASSUME Init PROVE /\ rows["trace"] = NoRows /\ rows["archive"] = NoRows
                          /\ disk.rows = NoRows /\ target = "trace"
    BY <2>1 DEF Init, Databases
  <2>2. DOMAIN NoRows["process"] = {}
    BY DEF NoRows, Tables, Cached
  <2> QED BY <2>1, <2>2, NoProcesses DEF ReuseInv
<1>2. (FeedingInv /\ ReuseInv) /\ [Next]_vars => (FeedingInv /\ ReuseInv)'
  BY FeedingPreserved, ReusePreserved
<1> QED BY <1>1, <1>2, FeedingInit, PTL DEF Spec

\* Whatever is sent, fails, is cleared or crashes, no table has an id beyond its
\* sequence, and an INSERT meets a UNIQUE clause in one case only: an entry of a
\* process whose name and pid the trace database knows with another start time.
THEOREM FeederSafe == Spec => []FeederInv
<1>1. FeedingInv /\ ReuseInv => FeederInv
  BY FeedingTyped, ReuseClash DEF FeederInv
<1> QED BY <1>1, ReuseSpec, PTL

-----------------------------------------------------------------------------
(* What is durable, if no COMMIT fails.                                    *)

\* A transaction of the trace database is open.
Pending == target = "trace" /\ step \in Cached \cup {"entry", "commit"}

DurableInv ==
  /\ ~Pending => disk = [rows |-> rows["trace"], seq |-> seq["trace"]]
  /\ step # "commit" => rows["trace"]["entry"] = disk.rows["entry"]

LEMMA DiskFields ==
  ASSUME NEW R, NEW S, disk = [rows |-> R, seq |-> S]
  PROVE  disk.rows = R /\ disk.seq = S
OBVIOUS

\* Every step that ends a transaction without a ROLLBACK writes to the disk.
LEMMA CommitDurable ==
  ASSUME "busy" \notin Hazards, CommitTrace
  PROVE  DurableInv'
<1>1. disk' = [rows |-> rows'["trace"], seq |-> seq'["trace"]]
  BY DEF CommitTrace
<1>2. disk'.rows = rows'["trace"]
  BY <1>1
<1> QED BY <1>1, <1>2 DEF DurableInv

LEMMA RollbackDurable ==
  ASSUME TablesInv, rows'["trace"] = disk.rows, seq'["trace"] = disk.seq, UNCHANGED disk
  PROVE  DurableInv'
BY DEF TablesInv, DurableInv

LEMMA DurablePreserved ==
  ASSUME "busy" \notin Hazards, FeedingInv, DurableInv, [Next]_vars
  PROVE  DurableInv'
<1>0. TablesInv /\ FlowInv
  BY DEF FeedingInv
<1>1. ASSUME UNCHANGED <<rows, seq, disk>>, ~Pending' => ~Pending,
             step' # "commit" => step # "commit"
      PROVE  DurableInv'
  BY <1>1 DEF DurableInv
<1>2. CASE Looking
  <2>1. UNCHANGED <<rows, seq, disk>>
    BY <1>2, LookingKeeps
  <2>2. ASSUME NEW t \in Cached \ {"group"}, StoreCached(t) \/ StoreFound(t) PROVE DurableInv'
    <3>1. step = t /\ step' = After(t) /\ target' = target
      BY <2>2 DEF StoreCached, StoreFound, Got
    <3> QED BY <1>1, <2>1, <3>1, AfterSteps DEF Pending, Cached
  <2>3. CASE FetchGroup
    BY <1>1, <2>1, <2>3 DEF FetchGroup, Pending, Cached
  <2>4. CASE OpenArchive \/ OpenArchiveFails \/ ArchiveNext \/ CloseArchive
             \/ \E e \in Entries : Receive(e)
    BY <1>1, <2>1, <2>4
      DEF OpenArchive, OpenArchiveFails, Return, ArchiveNext, CloseArchive, Receive, Pending, Cached
  <2>5. ASSUME NEW n, UnlinkArchive(n) PROVE DurableInv'
    BY <1>1, <2>1, <2>5 DEF UnlinkArchive, Pending
  <2> QED BY <1>2, <2>2, <2>3, <2>4, <2>5 DEF Looking
\* A row of one of the tables of the caches is added.
<1>3. ASSUME NEW t \in Cached, NEW r, AddRow(t, r), UNCHANGED <<disk, target>>,
             step \in Cached, step' \in Cached \cup {"entry"}
      PROVE  DurableInv'
  <2>1. t \in Tables /\ "entry" \in Tables \ {t} /\ target \in Databases
    BY <1>0 DEF FlowInv, Tables, Cached
  <2>2. CASE target = "archive"
    <3>1. rows'["trace"] = rows["trace"] /\ seq'["trace"] = seq["trace"]
      BY <1>0, <1>3, <2>2, OtherTables
    <3> QED BY <1>3, <2>2, <3>1 DEF DurableInv, Pending, Cached
  <2>3. CASE target = "trace"
    <3>1. rows'["trace"]["entry"] = rows["trace"]["entry"]
      BY <1>0, <1>3, <2>1, <2>3, OtherRows
    <3> QED BY <1>3, <2>3, <3>1 DEF DurableInv, Pending, Cached
  <2> QED BY <2>1, <2>2, <2>3 DEF Databases
<1>4. CASE Adding
  <2>1. ASSUME NEW t \in Cached \ {"group"}, StoreCreated(t) PROVE DurableInv'
    <3>1. AddRow(t, Row(t)) /\ step = t /\ step' = After(t) /\ UNCHANGED <<disk, target>>
      BY <2>1 DEF StoreCreated, Create, Got
    <3> QED BY <1>3, <3>1, AfterSteps
  <2>2. CASE StoreTraceEntry
    <3>1. /\ step = "entry" /\ UNCHANGED <<disk, target>>
          /\ step' = IF target = "trace" THEN "commit" ELSE "next"
          /\ \E r : AddRow("entry", r)
      BY <2>2 DEF StoreTraceEntry
    <3>2. CASE target = "archive"
      <4>1. rows'["trace"] = rows["trace"] /\ seq'["trace"] = seq["trace"]
        BY <1>0, <3>1, <3>2, OtherTables
      <4> QED BY <3>1, <3>2, <4>1 DEF DurableInv, Pending
    <3>3. CASE target = "trace"
      BY <3>1, <3>3 DEF DurableInv, Pending
    <3> QED BY <1>0, <3>2, <3>3 DEF FlowInv, Databases
  <2> QED BY <1>4, <2>1, <2>2 DEF Adding
<1>5. CASE RegisterGroup
  <2>1. /\ UNCHANGED <<disk, step, target>> /\ step = "group"
        /\ (UNCHANGED <<rows, seq>>) \/ (\E g : AddRow("group", g))
    BY <1>5 DEF RegisterGroup, Find, Create
  <2>2. CASE UNCHANGED <<rows, seq>>
    BY <1>1, <2>1, <2>2 DEF Pending
  <2>3. "group" \in Cached
    BY DEF Cached
  <2> QED BY <1>3, <2>1, <2>2, <2>3
<1>6. CASE Undoing
  <2>1. rows'["trace"] = disk.rows /\ seq'["trace"] = disk.seq /\ UNCHANGED disk
    BY <1>0, <1>6, RollbackTables
      DEF Undoing, DatabaseFull, StatementFails, DeleteFails, RequestFails, Crash, Rollback
  <2> QED BY <1>0, <2>1, RollbackDurable
<1>7. CASE \/ Commit \/ DeleteArchived \/ NukeDatabase
           \/ \E e \in Entries : HandleShutdownEvent(e)
  BY <1>7, CommitDurable DEF Commit, DeleteArchived, NukeDatabase, HandleShutdownEvent
<1>8. CASE UNCHANGED vars
  BY <1>1, <1>8 DEF vars, Pending
<1> QED BY <1>2, <1>4, <1>5, <1>6, <1>7, <1>8, StepKinds

LEMMA DurableSpec ==
  ASSUME "busy" \notin Hazards
  PROVE  Spec => [](FeedingInv /\ DurableInv)
<1>1. Init => DurableInv
  BY DEF Init, DurableInv, Pending, Databases, NoRows, NoSeq
<1>2. (FeedingInv /\ DurableInv) /\ [Next]_vars => (FeedingInv /\ DurableInv)'
  BY FeedingPreserved, DurablePreserved
<1> QED BY <1>1, <1>2, FeedingInit, PTL DEF Spec

\* If COMMITs succeed, nothing is pending while the daemon waits for data: what
\* it did for the entries handled so far is on disk.
THEOREM FeederDurable ==
  ASSUME "busy" \notin Hazards
  PROVE  Spec => []IdleIsDurable
<1>1. FeedingInv /\ DurableInv => IdleIsDurable
  BY DEF DurableInv, Pending, IdleIsDurable, Cached
<1> QED BY <1>1, DurableSpec, PTL

\* If COMMITs succeed, the ROLLBACK of a failed entry deletes no entry.
THEOREM FeederRollback ==
  ASSUME "busy" \notin Hazards
  PROVE  Spec => RollbackKeepsEntries
<1>1. FeedingInv /\ DurableInv /\ [Next]_vars
        => [DatabaseFull \/ StatementFails => Ids("entry") \subseteq Ids("entry")']_vars
  <2> SUFFICES ASSUME FeedingInv, DurableInv, DatabaseFull \/ StatementFails
               PROVE  Ids("entry") \subseteq Ids("entry")'
    OBVIOUS
  <2>1. rows'["trace"] = disk.rows
    BY RollbackTables DEF DatabaseFull, StatementFails, Rollback, FeedingInv
  <2>2. step # "commit"
    BY DEF DatabaseFull, StatementFails, Inserting, Executing, Cached
  <2> QED BY <2>1, <2>2 DEF DurableInv, Ids
<1> QED BY <1>1, DurableSpec, PTL DEF Spec, RollbackKeepsEntries

-----------------------------------------------------------------------------
(* What an id means.                                                       *)
(*                                                                         *)
(* The following predicates are about tables R with the sequences S.  An   *)
(* id that was handed out is in use for what it was handed out for, or not *)
(* in use at all: a GUI that trims the database leaves ids in the caches   *)
(* whose rows are gone, but nobody gets them again.  Groups are not        *)
(* trimmed: their ids are always in use.                                   *)

TextIs(R, S, t, i, text) ==
  i \in 1 .. S[t] /\ (i \in DOMAIN R[t] => R[t][i] = text)

ProcessIs(R, S, i, e) ==
  /\ i \in 1 .. S["process"]
  /\ i \in DOMAIN R["process"] =>
       /\ R["process"][i].name = e.name
       /\ R["process"][i].pid = e.pid
       /\ R["process"][i].start = e.start

ThreadIs(R, S, i, e) ==
  /\ i \in 1 .. S["thread"]
  /\ i \in DOMAIN R["thread"] =>
       R["thread"][i].tid = e.tid /\ ProcessIs(R, S, R["thread"][i].process, e)

GroupIs(R, i, e) ==
  IF e.group = NoGroup THEN i = 0
  ELSE i \in DOMAIN R["group"] /\ R["group"][i] = e.group

PointIs(R, S, i, e) ==
  /\ i \in 1 .. S["point"]
  /\ i \in DOMAIN R["point"] =>
       /\ TextIs(R, S, "path", R["point"][i].path, e.path)
       /\ TextIs(R, S, "function", R["point"][i].function, e.function)
       /\ GroupIs(R, R["point"][i].group, e)

\* Row r of trace_entry is what e was stored as.
RowIs(R, S, r, e) ==
  /\ r.message = e.message
  /\ ThreadIs(R, S, r.thread, e)
  /\ PointIs(R, S, r.point, e)

\* Every stored trace entry is one that was sent.
Meaningful(R, S) ==
  \A i \in DOMAIN R["entry"] : \E e \in Entries : RowIs(R, S, R["entry"][i], e)

\* A cached id means its key.
Means(t, k, r) == IF t = "process" THEN k = <<r.name, r.pid>> ELSE k = r

CacheMeans(R, S, C) ==
  \A t \in Cached : \A k \in DOMAIN C[t] :
    /\ C[t][k] \in 1 .. S[t]
    /\ t = "group" => C[t][k] \in DOMAIN R[t]
    /\ C[t][k] \in DOMAIN R[t] => Means(t, k, R[t][C[t][k]])

\* The steps at which storeEntry has the id of table t.
Since ==
  [path |-> {"function", "process", "thread", "group", "point", "entry"},
   function |-> {"process", "thread", "group", "point", "entry"},
   process |-> {"thread", "group", "point", "entry"},
   thread |-> {"group", "point", "entry"},
   group |-> {"point", "entry"},
   point |-> {"entry"}]

\* The ids d that storeEntry has before the statement st are those of the entry e.
IdsMean(R, S, e, st, d) ==
  /\ st \in Since["path"] => TextIs(R, S, "path", d["path"], e.path)
  /\ st \in Since["function"] => TextIs(R, S, "function", d["function"], e.function)
  /\ st \in Since["process"] => ProcessIs(R, S, d["process"], e)
  /\ st \in Since["thread"] => ThreadIs(R, S, d["thread"], e)
  /\ st \in Since["group"] => GroupIs(R, d["group"], e)
  /\ st \in Since["point"] => PointIs(R, S, d["point"], e)

\* The caches are those of the trace database: not after a ROLLBACK, until the
\* end of the archiving has cleared them.
CachesInUse == target = "trace" /\ step \in Cached \cup {"idle", "entry", "commit"}

MeaningInv ==
  /\ Meaningful(rows["trace"], seq["trace"])
  /\ Meaningful(disk.rows, disk.seq)
  /\ CachesInUse => CacheMeans(rows["trace"], seq["trace"], cache)
  /\ Pending => entry = received /\ IdsMean(rows["trace"], seq["trace"], entry, step, ids)

\* No archive file is moved away, so the next number is free.
ArchivesInv == \E n \in Nat : archives = 1 .. n

-----------------------------------------------------------------------------
(* From tables R, S to tables Q, T: rows may go, and come under new ids.   *)

SameRow(t, q, r) ==
  IF t = "process" THEN q.name = r.name /\ q.pid = r.pid /\ q.start = r.start ELSE q = r

Follows(R, S, Q, T) ==
  /\ \A t \in Cached : S[t] \in Nat /\ T[t] \in Nat /\ S[t] <= T[t]
  /\ \A t \in Cached : \A i \in DOMAIN Q[t] :
       i \in 1 .. S[t] => i \in DOMAIN R[t] /\ SameRow(t, Q[t][i], R[t][i])
  /\ DOMAIN R["group"] \subseteq 1 .. S["group"]
  /\ \A i \in DOMAIN Q["point"] \cap DOMAIN R["point"] :
       R["point"][i].group \in DOMAIN R["group"] => R["point"][i].group \in DOMAIN Q["group"]

KeepsGroups(R, Q) == DOMAIN R["group"] \subseteq DOMAIN Q["group"]

LEMMA TextFollows ==
  ASSUME NEW R, NEW S, NEW Q, NEW T, Follows(R, S, Q, T),
         NEW t \in {"path", "function"}, NEW i, NEW text, TextIs(R, S, t, i, text)
  PROVE  TextIs(Q, T, t, i, text)
<1>1. t \in Cached /\ t # "process"
  BY DEF Cached
<1>2. /\ S[t] \in Nat /\ T[t] \in Nat /\ S[t] <= T[t]
      /\ i \in DOMAIN Q[t] /\ i \in 1 .. S[t] => i \in DOMAIN R[t] /\ Q[t][i] = R[t][i]
  BY <1>1 DEF Follows, SameRow
<1> QED BY <1>2 DEF TextIs

LEMMA ProcessFollows ==
  ASSUME NEW R, NEW S, NEW Q, NEW T, Follows(R, S, Q, T),
         NEW i, NEW e, ProcessIs(R, S, i, e)
  PROVE  ProcessIs(Q, T, i, e)
<1>1. /\ S["process"] \in Nat /\ T["process"] \in Nat /\ S["process"] <= T["process"]
      /\ i \in DOMAIN Q["process"] /\ i \in 1 .. S["process"]
           => /\ i \in DOMAIN R["process"]
              /\ SameRow("process", Q["process"][i], R["process"][i])
  BY DEF Follows, Cached
<1> QED BY <1>1 DEF ProcessIs, SameRow

LEMMA ThreadFollows ==
  ASSUME NEW R, NEW S, NEW Q, NEW T, Follows(R, S, Q, T),
         NEW i, NEW e, ThreadIs(R, S, i, e)
  PROVE  ThreadIs(Q, T, i, e)
<1>1. /\ S["thread"] \in Nat /\ T["thread"] \in Nat /\ S["thread"] <= T["thread"]
      /\ i \in DOMAIN Q["thread"] /\ i \in 1 .. S["thread"]
           => i \in DOMAIN R["thread"] /\ Q["thread"][i] = R["thread"][i]
  BY DEF Follows, SameRow, Cached
<1>2. i \in 1 .. S["thread"] /\ i \in 1 .. T["thread"]
  BY <1>1 DEF ThreadIs
<1>3. ASSUME i \in DOMAIN Q["thread"]
      PROVE  /\ Q["thread"][i].tid = e.tid
             /\ ProcessIs(Q, T, Q["thread"][i].process, e)
  <2>1. /\ R["thread"][i].tid = e.tid /\ ProcessIs(R, S, R["thread"][i].process, e)
        /\ Q["thread"][i] = R["thread"][i]
    BY <1>1, <1>2, <1>3 DEF ThreadIs
  <2>2. ProcessIs(Q, T, R["thread"][i].process, e)
    BY <2>1, ProcessFollows
  <2> QED BY <2>1, <2>2
<1> QED BY <1>2, <1>3 DEF ThreadIs

LEMMA GroupFollows ==
  ASSUME NEW R, NEW S, NEW Q, NEW T, Follows(R, S, Q, T),
         NEW i, NEW e, GroupIs(R, i, e), i \in DOMAIN R["group"] => i \in DOMAIN Q["group"]
  PROVE  GroupIs(Q, i, e)
<1>1. /\ DOMAIN R["group"] \subseteq 1 .. S["group"]
      /\ i \in DOMAIN Q["group"] /\ i \in 1 .. S["group"]
           => Q["group"][i] = R["group"][i]
  BY DEF Follows, SameRow, Cached
<1> QED BY <1>1 DEF GroupIs

LEMMA PointFollows ==
  ASSUME NEW R, NEW S, NEW Q, NEW T, Follows(R, S, Q, T),
         NEW i, NEW e, PointIs(R, S, i, e)
  PROVE  PointIs(Q, T, i, e)
<1>1. /\ S["point"] \in Nat /\ T["point"] \in Nat /\ S["point"] <= T["point"]
      /\ i \in DOMAIN Q["point"] /\ i \in 1 .. S["point"]
           => i \in DOMAIN R["point"] /\ Q["point"][i] = R["point"][i]
  BY DEF Follows, SameRow, Cached
<1>2. i \in 1 .. S["point"] /\ i \in 1 .. T["point"]
  BY <1>1 DEF PointIs
<1>3. ASSUME i \in DOMAIN Q["point"]
      PROVE  /\ TextIs(Q, T, "path", Q["point"][i].path, e.path)
             /\ TextIs(Q, T, "function", Q["point"][i].function, e.function)
             /\ GroupIs(Q, Q["point"][i].group, e)
  <2>1. i \in DOMAIN R["point"] /\ Q["point"][i] = R["point"][i]
    BY <1>1, <1>2, <1>3
  <2>2. /\ TextIs(R, S, "path", R["point"][i].path, e.path)
        /\ TextIs(R, S, "function", R["point"][i].function, e.function)
        /\ GroupIs(R, R["point"][i].group, e)
    BY <2>1 DEF PointIs
  <2>3. R["point"][i].group \in DOMAIN R["group"] => R["point"][i].group \in DOMAIN Q["group"]
    BY <1>3, <2>1 DEF Follows
  <2>4. GroupIs(Q, R["point"][i].group, e)
    BY <2>2, <2>3, GroupFollows
  <2>5. /\ TextIs(Q, T, "path", R["point"][i].path, e.path)
        /\ TextIs(Q, T, "function", R["point"][i].function, e.function)
    BY <2>2, TextFollows
  <2> QED BY <2>1, <2>4, <2>5
<1> QED BY <1>2, <1>3 DEF PointIs

LEMMA RowFollows ==
  ASSUME NEW R, NEW S, NEW Q, NEW T, Follows(R, S, Q, T),
         NEW r, NEW e, RowIs(R, S, r, e)
  PROVE  RowIs(Q, T, r, e)
BY ThreadFollows, PointFollows DEF RowIs

LEMMA MeaningfulFollows ==
  ASSUME NEW R, NEW S, NEW Q, NEW T, Follows(R, S, Q, T), Meaningful(R, S),
         \A i \in DOMAIN Q["entry"] : i \in DOMAIN R["entry"] /\ Q["entry"][i] = R["entry"][i]
  PROVE  Meaningful(Q, T)
BY RowFollows DEF Meaningful

LEMMA CacheFollows ==
  ASSUME NEW R, NEW S, NEW Q, NEW T, Follows(R, S, Q, T), KeepsGroups(R, Q),
         NEW C, CacheMeans(R, S, C)
  PROVE  CacheMeans(Q, T, C)
<1> SUFFICES ASSUME NEW t \in Cached, NEW k \in DOMAIN C[t]
             PROVE  /\ C[t][k] \in 1 .. T[t]
                    /\ t = "group" => C[t][k] \in DOMAIN Q[t]
                    /\ C[t][k] \in DOMAIN Q[t] => Means(t, k, Q[t][C[t][k]])
  BY DEF CacheMeans
<1> DEFINE i == C[t][k]
<1>1. /\ i \in 1 .. S[t]
      /\ t = "group" => i \in DOMAIN R[t]
      /\ i \in DOMAIN R[t] => Means(t, k, R[t][i])
  BY DEF CacheMeans
<1> HIDE DEF i
<1>2. S[t] \in Nat /\ T[t] \in Nat /\ S[t] <= T[t]
  BY DEF Follows
<1>3. i \in DOMAIN Q[t] => i \in DOMAIN R[t] /\ SameRow(t, Q[t][i], R[t][i])
  BY <1>1 DEF Follows
<1>4. i \in 1 .. T[t]
  BY <1>1, <1>2
<1>5. t = "group" => i \in DOMAIN Q[t]
  BY <1>1 DEF KeepsGroups
<1>6. i \in DOMAIN Q[t] => Means(t, k, Q[t][i])
  BY <1>1, <1>3 DEF Means, SameRow
<1> QED BY <1>4, <1>5, <1>6 DEF i

LEMMA IdsFollow ==
  ASSUME NEW R, NEW S, NEW Q, NEW T, Follows(R, S, Q, T), KeepsGroups(R, Q),
         NEW e, NEW st, NEW d, IdsMean(R, S, e, st, d)
  PROVE  IdsMean(Q, T, e, st, d)
<1>1. st \in Since["path"] => TextIs(Q, T, "path", d["path"], e.path)
  BY TextFollows DEF IdsMean
<1>2. st \in Since["function"] => TextIs(Q, T, "function", d["function"], e.function)
  BY TextFollows DEF IdsMean
<1>3. st \in Since["process"] => ProcessIs(Q, T, d["process"], e)
  BY ProcessFollows DEF IdsMean
<1>4. st \in Since["thread"] => ThreadIs(Q, T, d["thread"], e)
  BY ThreadFollows DEF IdsMean
<1>5. st \in Since["group"] => GroupIs(Q, d["group"], e)
  BY GroupFollows DEF IdsMean, KeepsGroups
<1>6. st \in Since["point"] => PointIs(Q, T, d["point"], e)
  BY PointFollows DEF IdsMean
<1> QED BY <1>1, <1>2, <1>3, <1>4, <1>5, <1>6 DEF IdsMean

-----------------------------------------------------------------------------
(* What the actions do to the tables of the trace database.                *)

\* Row r is added to table t under the id i.
Added(R, S, Q, T, t, r, i) ==
  /\ i = S[t] + 1 /\ i \in Nat /\ i \notin DOMAIN R[t]
  /\ DOMAIN Q[t] = DOMAIN R[t] \cup {i} /\ Q[t][i] = r
  /\ \A j \in DOMAIN R[t] : Q[t][j] = R[t][j]
  /\ \A u \in Tables \ {t} : Q[u] = R[u] /\ T[u] = S[u]
  /\ T[t] = i

LEMMA AddRowAdds ==
  ASSUME TablesInv, target = "trace", NEW t \in Tables, NEW r, AddRow(t, r)
  PROVE  Added(rows["trace"], seq["trace"], rows'["trace"], seq'["trace"], t, r,
               seq["trace"][t] + 1)
<1> DEFINE R == rows["trace"]
           S == seq["trace"]
           i == S[t] + 1
           f == [j \in DOMAIN R[t] \cup {i} |-> IF j = i THEN r ELSE R[t][j]]
<1>1. /\ rows' = [rows EXCEPT !["trace"] = [R EXCEPT ![t] = f]]
      /\ seq' = [seq EXCEPT !["trace"] = [S EXCEPT ![t] = i]]
  BY DEF AddRow
<1>2. /\ DOMAIN rows = Databases /\ DOMAIN seq = Databases
      /\ DOMAIN R = Tables /\ S \in [Tables -> Nat] /\ DOMAIN R[t] \subseteq 1 .. S[t]
  BY DEF TablesInv, Tidy, Databases
<1>3. i \in Nat /\ i \notin DOMAIN R[t]
  BY <1>2
<1>4. DOMAIN f = DOMAIN R[t] \cup {i} /\ f[i] = r /\ \A j \in DOMAIN R[t] : f[j] = R[t][j]
  BY <1>3
<1> HIDE DEF f
<1>5. rows'["trace"] = [R EXCEPT ![t] = f] /\ seq'["trace"] = [S EXCEPT ![t] = i]
  BY <1>1, <1>2 DEF Databases
<1>6. /\ rows'["trace"][t] = f /\ seq'["trace"][t] = i
      /\ \A u \in Tables \ {t} : rows'["trace"][u] = R[u] /\ seq'["trace"][u] = S[u]
  BY <1>2, <1>5
<1> QED BY <1>3, <1>4, <1>6 DEF Added

LEMMA AddedFollows ==
  ASSUME NEW R, NEW S, NEW Q, NEW T, Tidy(R, S), Tidy(Q, T),
         NEW t \in Tables, NEW r, NEW i, Added(R, S, Q, T, t, r, i)
  PROVE  Follows(R, S, Q, T) /\ KeepsGroups(R, Q)
<1>1. ASSUME NEW u \in Cached
      PROVE  /\ S[u] \in Nat /\ T[u] \in Nat /\ S[u] <= T[u]
             /\ DOMAIN R[u] \subseteq DOMAIN Q[u]
             /\ \A j \in DOMAIN Q[u] :
                  j \in 1 .. S[u] => j \in DOMAIN R[u] /\ Q[u][j] = R[u][j]
  <2>1. u \in Tables
    BY DEF Tables
  <2>2. S[u] \in Nat /\ T[u] \in Nat
    BY <2>1 DEF Tidy
  <2>3. CASE u = t
    BY <2>2, <2>3 DEF Added
  <2>4. CASE u # t
    <3>1. Q[u] = R[u] /\ T[u] = S[u] /\ DOMAIN R[u] \subseteq 1 .. S[u]
      BY <2>1, <2>4 DEF Added, Tidy
    <3> QED BY <2>2, <3>1
  <2> QED BY <2>3, <2>4
<1>2. "group" \in Cached /\ "group" \in Tables
  BY DEF Cached, Tables
<1>3. DOMAIN R["group"] \subseteq DOMAIN Q["group"]
  BY <1>1, <1>2
<1>4. DOMAIN R["group"] \subseteq 1 .. S["group"]
  BY <1>2 DEF Tidy
<1>5. \A u \in Cached : \A j \in DOMAIN Q[u] :
        j \in 1 .. S[u] => j \in DOMAIN R[u] /\ SameRow(u, Q[u][j], R[u][j])
  BY <1>1 DEF SameRow
<1> QED BY <1>1, <1>3, <1>4, <1>5 DEF Follows, KeepsGroups

LEMMA SameFollows ==
  ASSUME NEW R, NEW S, Tidy(R, S)
  PROVE  Follows(R, S, R, S) /\ KeepsGroups(R, R)
<1>1. \A t \in Cached : S[t] \in Nat /\ DOMAIN R[t] \subseteq 1 .. S[t]
  BY DEF Tidy, Tables
<1> QED BY <1>1 DEF Follows, KeepsGroups, SameRow, Cached

LEMMA NukeFollows ==
  ASSUME TablesInv, NukeDatabase
  PROVE  /\ Follows(rows["trace"], seq["trace"], rows'["trace"], seq'["trace"])
         /\ KeepsGroups(rows["trace"], rows'["trace"])
         /\ DOMAIN rows'["trace"]["entry"] = {}
<1> DEFINE R == rows["trace"]
           S == seq["trace"]
           Q == rows'["trace"]
           T == seq'["trace"]
<1>1. Tidy(R, S)
  BY DEF TablesInv, Databases
<1>2. Q = [NoRows EXCEPT !["group"] = R["group"]] /\ T = [S EXCEPT !["entry"] = 0]
  BY NukeTables
<1> HIDE DEF Q, T, R, S
<1>3. Q["group"] = R["group"] /\ \A t \in Tables \ {"group"} : DOMAIN Q[t] = {}
  BY <1>2 DEF NoRows, Tables, Cached
<1>4. \A t \in Cached : T[t] = S[t] /\ S[t] \in Nat
  BY <1>1, <1>2 DEF Tidy, Tables, Cached
<1>5. Follows(R, S, Q, T) /\ KeepsGroups(R, Q)
  BY <1>1, <1>3, <1>4 DEF Tidy, Follows, KeepsGroups, SameRow, Tables, Cached
<1>6. DOMAIN Q["entry"] = {}
  BY <1>3 DEF Tables
<1> QED BY <1>5, <1>6 DEF R, S, Q, T

LEMMA ShutdownFollows ==
  ASSUME TablesInv, NEW e, HandleShutdownEvent(e)
  PROVE  /\ Follows(rows["trace"], seq["trace"], rows'["trace"], seq'["trace"])
         /\ KeepsGroups(rows["trace"], rows'["trace"])
         /\ rows'["trace"]["entry"] = rows["trace"]["entry"]
<1> DEFINE R == rows["trace"]
           S == seq["trace"]
           Q == rows'["trace"]
<1>1. Tidy(R, S)
  BY DEF TablesInv, Databases
<1>2. /\ \A t \in Tables \ {"process"} : Q[t] = R[t]
      /\ DOMAIN Q["process"] = DOMAIN R["process"]
      /\ \A i \in DOMAIN R["process"] :
           /\ R["process"][i].name = Q["process"][i].name
           /\ R["process"][i].pid = Q["process"][i].pid
           /\ R["process"][i].start = Q["process"][i].start
  BY ShutdownRows
<1>3. seq'["trace"] = S
  BY DEF HandleShutdownEvent
<1> HIDE DEF R, S, Q
<1>4. \A t \in Cached : S[t] \in Nat
  BY <1>1 DEF Tidy, Tables
<1>5. ASSUME NEW t \in Cached, NEW i \in DOMAIN Q[t]
      PROVE  i \in DOMAIN R[t] /\ SameRow(t, Q[t][i], R[t][i])
  <2>1. CASE t = "process"
    BY <1>2, <1>5, <2>1 DEF SameRow
  <2>2. CASE t # "process"
    BY <1>2, <1>5, <2>2 DEF SameRow, Tables
  <2> QED BY <2>1, <2>2
<1>6. Q["group"] = R["group"] /\ Q["entry"] = R["entry"]
  BY <1>2 DEF Tables, Cached
<1>7. DOMAIN R["group"] \subseteq 1 .. S["group"]
  BY <1>1 DEF Tidy, Tables, Cached
<1>8. Follows(R, S, Q, S)
  BY <1>4, <1>5, <1>6, <1>7 DEF Follows
<1> QED BY <1>3, <1>6, <1>8 DEF KeepsGroups, R, S, Q

\* P is Q without the rows of table t that are not used.
Cut(R, Q, P, t, used) ==
  /\ Fewer(R, P)
  /\ DOMAIN P[t] = DOMAIN Q[t] \cap used
  /\ \A u \in Tables \ {t} : P[u] = Q[u]

LEMMA WithoutRows ==
  ASSUME NEW R, NEW Q, NEW P, NEW t \in Tables, NEW used, DOMAIN R = Tables, Fewer(R, Q),
         P = Without(t, used, Q)
  PROVE  Cut(R, Q, P, t, used)
BY WithoutFewer DEF Cut

\* What the cascade of DELETEs leaves: the other entries, and of every other
\* table what the rows left refer to.
LEMMA RemainingRows ==
  ASSUME NEW gone, DOMAIN rows["trace"] = Tables
  PROVE  LET R == rows["trace"]
             Q == Remaining(gone)
         IN  /\ Fewer(R, Q)
             /\ DOMAIN Q["entry"] = Ids("entry") \ gone
             /\ \A i \in DOMAIN Q["entry"] :
                  /\ Q["entry"][i].point \in DOMAIN R["point"]
                       => Q["entry"][i].point \in DOMAIN Q["point"]
                  /\ Q["entry"][i].thread \in DOMAIN R["thread"]
                       => Q["entry"][i].thread \in DOMAIN Q["thread"]
             /\ \A i \in DOMAIN Q["point"] :
                  /\ Q["point"][i].path \in DOMAIN R["path"]
                       => Q["point"][i].path \in DOMAIN Q["path"]
                  /\ Q["point"][i].function \in DOMAIN R["function"]
                       => Q["point"][i].function \in DOMAIN Q["function"]
                  /\ Q["point"][i].group \in DOMAIN R["group"]
                       => Q["point"][i].group \in DOMAIN Q["group"]
             /\ \A i \in DOMAIN Q["thread"] :
                  Q["thread"][i].process \in DOMAIN R["process"]
                       => Q["thread"][i].process \in DOMAIN Q["process"]
<1> DEFINE R == rows["trace"]
           u1 == Ids("entry") \ gone
           R1 == Without("entry", u1, R)
           u2 == {r.point : r \in Range(R1["entry"])}
           R2 == Without("point", u2, R1)
           u3 == {r.function : r \in Range(R2["point"])}
           R3 == Without("function", u3, R2)
           u4 == {r.path : r \in Range(R3["point"])}
           R4 == Without("path", u4, R3)
           u5 == {r.group : r \in Range(R4["point"])}
           R5 == Without("group", u5, R4)
           u6 == {r.thread : r \in Range(R5["entry"])}
           R6 == Without("thread", u6, R5)
           u7 == {r.process : r \in Range(R6["thread"])}
           R7 == Without("process", u7, R6)
<1>a. R7 = Remaining(gone)
  BY DEF Remaining
<1>b1. "entry" \in Tables /\ R1 = Without("entry", u1, R)
  BY DEF Tables, Cached
<1>b2. "point" \in Tables /\ R2 = Without("point", u2, R1)
  BY DEF Tables, Cached
<1>b3. "function" \in Tables /\ R3 = Without("function", u3, R2)
  BY DEF Tables, Cached
<1>b4. "path" \in Tables /\ R4 = Without("path", u4, R3)
  BY DEF Tables, Cached
<1>b5. "group" \in Tables /\ R5 = Without("group", u5, R4)
  BY DEF Tables, Cached
<1>b6. "thread" \in Tables /\ R6 = Without("thread", u6, R5)
  BY DEF Tables, Cached
<1>b7. "process" \in Tables /\ R7 = Without("process", u7, R6)
  BY DEF Tables, Cached
<1> HIDE DEF u1, u2, u3, u4, u5, u6, u7, R1, R2, R3, R4, R5, R6, R7
<1>0. {"entry", "point", "function", "path", "group", "thread", "process"} \subseteq Tables
  BY DEF Tables, Cached
<1>1. Fewer(R, R) /\ DOMAIN R = Tables
  BY DEF Fewer
<1>2. /\ Fewer(R, R1) /\ DOMAIN R1["entry"] = DOMAIN R["entry"] \cap u1
      /\ \A u \in Tables \ {"entry"} : R1[u] = R[u]
  <2>1. Fewer(R, R) /\ DOMAIN R = Tables
    BY <1>1
  <2> HIDE DEF R
  <2>2. Cut(R, R, R1, "entry", u1)
    BY <1>b1, <2>1, WithoutRows
  <2> QED BY <2>2 DEF Cut
<1>3. /\ Fewer(R, R2)
      /\ DOMAIN R2["point"] = DOMAIN R1["point"] \cap u2
      /\ \A u \in Tables \ {"point"} : R2[u] = R1[u]
  <2>1. Fewer(R, R1) /\ DOMAIN R = Tables
    BY <1>1, <1>2
  <2> HIDE DEF R
  <2>2. Cut(R, R1, R2, "point", u2)
    BY <1>b2, <2>1, WithoutRows
  <2> QED BY <2>2 DEF Cut
<1>4. /\ Fewer(R, R3)
      /\ DOMAIN R3["function"] = DOMAIN R2["function"] \cap u3
      /\ \A u \in Tables \ {"function"} : R3[u] = R2[u]
  <2>1. Fewer(R, R2) /\ DOMAIN R = Tables
    BY <1>1, <1>3
  <2> HIDE DEF R
  <2>2. Cut(R, R2, R3, "function", u3)
    BY <1>b3, <2>1, WithoutRows
  <2> QED BY <2>2 DEF Cut
<1>5. /\ Fewer(R, R4)
      /\ DOMAIN R4["path"] = DOMAIN R3["path"] \cap u4
      /\ \A u \in Tables \ {"path"} : R4[u] = R3[u]
  <2>1. Fewer(R, R3) /\ DOMAIN R = Tables
    BY <1>1, <1>4
  <2> HIDE DEF R
  <2>2. Cut(R, R3, R4, "path", u4)
    BY <1>b4, <2>1, WithoutRows
  <2> QED BY <2>2 DEF Cut
<1>6. /\ Fewer(R, R5)
      /\ DOMAIN R5["group"] = DOMAIN R4["group"] \cap u5
      /\ \A u \in Tables \ {"group"} : R5[u] = R4[u]
  <2>1. Fewer(R, R4) /\ DOMAIN R = Tables
    BY <1>1, <1>5
  <2> HIDE DEF R
  <2>2. Cut(R, R4, R5, "group", u5)
    BY <1>b5, <2>1, WithoutRows
  <2> QED BY <2>2 DEF Cut
<1>7. /\ Fewer(R, R6)
      /\ DOMAIN R6["thread"] = DOMAIN R5["thread"] \cap u6
      /\ \A u \in Tables \ {"thread"} : R6[u] = R5[u]
  <2>1. Fewer(R, R5) /\ DOMAIN R = Tables
    BY <1>1, <1>6
  <2> HIDE DEF R
  <2>2. Cut(R, R5, R6, "thread", u6)
    BY <1>b6, <2>1, WithoutRows
  <2> QED BY <2>2 DEF Cut
<1>8. /\ Fewer(R, R7)
      /\ DOMAIN R7["process"] = DOMAIN R6["process"] \cap u7
      /\ \A u \in Tables \ {"process"} : R7[u] = R6[u]
  <2>1. Fewer(R, R6) /\ DOMAIN R = Tables
    BY <1>1, <1>7
  <2> HIDE DEF R
  <2>2. Cut(R, R6, R7, "process", u7)
    BY <1>b7, <2>1, WithoutRows
  <2> QED BY <2>2 DEF Cut
<1>10. /\ R7["entry"] = R1["entry"] /\ R2["entry"] = R1["entry"] /\ R5["entry"] = R1["entry"]
       /\ R7["point"] = R2["point"] /\ R3["point"] = R2["point"] /\ R4["point"] = R2["point"]
       /\ R7["function"] = R3["function"] /\ R7["path"] = R4["path"]
       /\ R7["group"] = R5["group"] /\ R7["thread"] = R6["thread"]
  BY <1>0, <1>2, <1>3, <1>4, <1>5, <1>6, <1>7, <1>8
<1>11. /\ R1["point"] = R["point"] /\ R2["function"] = R["function"]
       /\ R3["path"] = R["path"] /\ R4["group"] = R["group"]
       /\ R5["thread"] = R["thread"] /\ R6["process"] = R["process"]
  BY <1>0, <1>2, <1>3, <1>4, <1>5, <1>6, <1>7
<1>12. DOMAIN R7["entry"] = Ids("entry") \ gone
  BY <1>2, <1>10 DEF Ids, u1
<1>13. ASSUME NEW i \in DOMAIN R7["entry"]
       PROVE  /\ R7["entry"][i].point \in DOMAIN R["point"]
                   => R7["entry"][i].point \in DOMAIN R7["point"]
              /\ R7["entry"][i].thread \in DOMAIN R["thread"]
                   => R7["entry"][i].thread \in DOMAIN R7["thread"]
  <2>1. R1["entry"][i] \in Range(R1["entry"])
    BY <1>10, <1>13 DEF Range
  <2> QED BY <2>1, <1>3, <1>7, <1>10, <1>11 DEF u2, u6
<1>14. ASSUME NEW i \in DOMAIN R7["point"]
       PROVE  /\ R7["point"][i].path \in DOMAIN R["path"]
                   => R7["point"][i].path \in DOMAIN R7["path"]
              /\ R7["point"][i].function \in DOMAIN R["function"]
                   => R7["point"][i].function \in DOMAIN R7["function"]
              /\ R7["point"][i].group \in DOMAIN R["group"]
                   => R7["point"][i].group \in DOMAIN R7["group"]
  <2>1. R2["point"][i] \in Range(R2["point"])
    BY <1>10, <1>14 DEF Range
  <2> QED BY <2>1, <1>4, <1>5, <1>6, <1>10, <1>11 DEF u3, u4, u5
<1>15. ASSUME NEW i \in DOMAIN R7["thread"]
       PROVE  R7["thread"][i].process \in DOMAIN R["process"]
                   => R7["thread"][i].process \in DOMAIN R7["process"]
  <2>1. R6["thread"][i] \in Range(R6["thread"])
    BY <1>10, <1>15 DEF Range
  <2> QED BY <2>1, <1>8, <1>10, <1>11 DEF u7
<1> QED BY <1>a, <1>8, <1>12, <1>13, <1>14, <1>15

LEMMA RemainingFollows ==
  ASSUME TablesInv, DeleteArchived
  PROVE  /\ Follows(rows["trace"], seq["trace"], rows'["trace"], seq'["trace"])
         /\ \A i \in DOMAIN rows'["trace"]["entry"] :
              /\ i \in DOMAIN rows["trace"]["entry"]
              /\ rows'["trace"]["entry"][i] = rows["trace"]["entry"][i]
<1> DEFINE R == rows["trace"]
           S == seq["trace"]
           Q == rows'["trace"]
<1>1. Tidy(R, S)
  BY DEF TablesInv, Databases
<1>2. /\ Q = Remaining(Oldest(Ids("entry"), numCopy)) /\ seq'["trace"] = S
      /\ Fewer(R, Q)
  BY DeleteArchivedTables
<1>3. DOMAIN R = Tables
  BY <1>1 DEF Tidy
<1>4. \A i \in DOMAIN Q["point"] :
        Q["point"][i].group \in DOMAIN R["group"] => Q["point"][i].group \in DOMAIN Q["group"]
  BY <1>2, <1>3, RemainingRows
<1> HIDE DEF R, S, Q
<1>5. /\ \A t \in Cached : S[t] \in Nat /\ S[t] <= S[t] /\ t \in Tables
      /\ DOMAIN R["group"] \subseteq 1 .. S["group"]
  BY <1>1 DEF Tidy, Tables, Cached
<1>6. \A t \in Cached : \A i \in DOMAIN Q[t] : i \in DOMAIN R[t] /\ SameRow(t, Q[t][i], R[t][i])
  BY <1>2, <1>5 DEF Fewer, SameRow
<1>7. \A i \in DOMAIN Q["point"] : Q["point"][i] = R["point"][i]
  BY <1>2 DEF Fewer, Tables, Cached
<1>8. Follows(R, S, Q, S)
  BY <1>4, <1>5, <1>6, <1>7 DEF Follows
<1>9. \A i \in DOMAIN Q["entry"] : i \in DOMAIN R["entry"] /\ Q["entry"][i] = R["entry"][i]
  BY <1>2 DEF Fewer, Tables
<1> QED BY <1>2, <1>8, <1>9 DEF R, S, Q

-----------------------------------------------------------------------------
(* Storing an entry of the trace database.                                 *)

\* What the applications send tells processes apart by pid and start time.
PidStartTells ==
  \A e, f \in Entries : e.pid = f.pid /\ e.start = f.start => e.name = f.name

\* Row r of table t is for the entry that is being stored.
RowFor(t, r) ==
  IF t = "process" THEN r.name = entry.name /\ r.pid = entry.pid /\ r.start = entry.start
  ELSE r = Row(t)

\* The id i of table t is that of the entry e.
Right(R, S, t, i, e) ==
  /\ t = "path" => TextIs(R, S, "path", i, e.path)
  /\ t = "function" => TextIs(R, S, "function", i, e.function)
  /\ t = "process" => ProcessIs(R, S, i, e)
  /\ t = "thread" => ThreadIs(R, S, i, e)
  /\ t = "point" => PointIs(R, S, i, e)

LEMMA RightId ==
  ASSUME NEW R, NEW S, NEW t \in Cached \ {"group"}, step = t,
         IdsMean(R, S, entry, step, ids),
         NEW i \in 1 .. S[t], i \in DOMAIN R[t] => RowFor(t, R[t][i])
  PROVE  Right(R, S, t, i, entry)
<1>1. CASE t = "path"
  BY <1>1 DEF Right, RowFor, Row, TextIs
<1>2. CASE t = "function"
  BY <1>2 DEF Right, RowFor, Row, TextIs
<1>3. CASE t = "process"
  BY <1>3 DEF Right, RowFor, ProcessIs
<1>4. CASE t = "thread"
  <2>1. ProcessIs(R, S, ids["process"], entry)
    BY <1>4 DEF IdsMean, Since
  <2>2. Row(t).process = ids["process"] /\ Row(t).tid = entry.tid
    BY <1>4 DEF Row
  <2>3. ThreadIs(R, S, i, entry)
    BY <1>4, <2>1, <2>2 DEF RowFor, ThreadIs
  <2> QED BY <1>4, <2>3 DEF Right
<1>5. CASE t = "point"
  <2>1. /\ TextIs(R, S, "path", ids["path"], entry.path)
        /\ TextIs(R, S, "function", ids["function"], entry.function)
        /\ GroupIs(R, ids["group"], entry)
    BY <1>5 DEF IdsMean, Since
  <2>2. /\ Row(t).path = ids["path"] /\ Row(t).function = ids["function"]
        /\ Row(t).group = ids["group"]
    BY <1>5 DEF Row
  <2>3. PointIs(R, S, i, entry)
    BY <1>5, <2>1, <2>2 DEF RowFor, PointIs
  <2> QED BY <1>5, <2>3 DEF Right
<1> QED BY <1>1, <1>2, <1>3, <1>4, <1>5 DEF Cached

\* storeEntry goes on with the id in its locals.
LEMMA GotIds ==
  ASSUME NEW R, NEW S, NEW e, NEW t \in Cached \ {"group"}, NEW d, NEW i,
         DOMAIN d = Cached, IdsMean(R, S, e, t, d), Right(R, S, t, i, e)
  PROVE  IdsMean(R, S, e, After(t), [d EXCEPT ![t] = i])
<1>1. CASE t = "path"
  BY <1>1 DEF IdsMean, Right, After, Since, Cached
<1>2. CASE t = "function"
  BY <1>2 DEF IdsMean, Right, After, Since, Cached
<1>3. CASE t = "process"
  BY <1>3 DEF IdsMean, Right, After, Since, Cached
<1>4. CASE t = "thread"
  BY <1>4 DEF IdsMean, Right, After, Since, Cached
<1>5. CASE t = "point"
  BY <1>5 DEF IdsMean, Right, After, Since, Cached
<1> QED BY <1>1, <1>2, <1>3, <1>4, <1>5 DEF Cached

\* The row of a cached id is for the entry: two entries with the key of one
\* process have its start time.
LEMMA CachedFor ==
  ASSUME NamePidTells, NEW R, NEW S, Tidy(R, S), CacheMeans(R, S, cache),
         entry \in Entries, NEW t \in Cached \ {"group"}, Key(t) \in DOMAIN cache[t]
  PROVE  /\ cache[t][Key(t)] \in 1 .. S[t]
         /\ cache[t][Key(t)] \in DOMAIN R[t] => RowFor(t, R[t][cache[t][Key(t)]])
<1> DEFINE i == cache[t][Key(t)]
<1>1. i \in 1 .. S[t] /\ (i \in DOMAIN R[t] => Means(t, Key(t), R[t][i]))
  BY DEF CacheMeans
<1> HIDE DEF i
<1>2. ASSUME i \in DOMAIN R[t], t # "process" PROVE RowFor(t, R[t][i])
  BY <1>1, <1>2 DEF Means, Key, RowFor
<1>3. ASSUME i \in DOMAIN R[t], t = "process" PROVE RowFor(t, R[t][i])
  <2>1. R[t][i].name = entry.name /\ R[t][i].pid = entry.pid
    BY <1>1, <1>3 DEF Means, Key
  <2>2. Known(R[t][i])
    BY <1>3 DEF Tidy
  <2>3. R[t][i].start = entry.start
    BY <2>1, <2>2 DEF Known, NamePidTells
  <2> QED BY <1>3, <2>1, <2>3 DEF RowFor
<1> QED BY <1>1, <1>2, <1>3 DEF i

\* So is the row that a SELECT finds, and means the key it is cached under.
LEMMA SelectedFor ==
  ASSUME PidStartTells, NEW R, NEW S, Tidy(R, S), entry \in Entries,
         NEW t \in Cached \ {"group"}, NEW i \in DOMAIN R[t], Selects(t, R[t][i], Row(t))
  PROVE  RowFor(t, R[t][i]) /\ Means(t, Key(t), R[t][i])
<1>1. CASE t # "process"
  BY <1>1 DEF Selects, RowFor, Means, Key
<1>2. CASE t = "process"
  <2>1. R[t][i].pid = entry.pid /\ R[t][i].start = entry.start
    BY <1>2 DEF Selects, Row
  <2>2. Known(R[t][i])
    BY <1>2 DEF Tidy
  <2>3. R[t][i].name = entry.name
    BY <2>1, <2>2 DEF Known, PidStartTells
  <2> QED BY <1>2, <2>1, <2>3 DEF RowFor, Means, Key
<1> QED BY <1>1, <1>2

\* So is the row that is inserted.
LEMMA CreatedFor ==
  ASSUME NEW t \in Cached \ {"group"}
  PROVE  RowFor(t, Row(t)) /\ Means(t, Key(t), Row(t))
<1>1. CASE t # "process"
  BY <1>1 DEF RowFor, Means, Key
<1>2. CASE t = "process"
  BY <1>2 DEF RowFor, Means, Key, Row
<1> QED BY <1>1, <1>2

LEMMA RememberMeans ==
  ASSUME NEW R, NEW S, CacheMeans(R, S, cache), DOMAIN cache = Cached,
         NEW t \in Cached, NEW k, NEW i \in 1 .. S[t], Remember(t, k, i),
         t = "group" => i \in DOMAIN R[t],
         i \in DOMAIN R[t] => Means(t, k, R[t][i])
  PROVE  CacheMeans(R, S, cache')
<1>1. PICK kept \in SUBSET (DOMAIN cache[t] \cup {k}) :
        cache' = [cache EXCEPT ![t] =
                    [x \in kept |-> IF x = k THEN i ELSE cache[t][x]]]
  BY DEF Remember
<1> DEFINE f == [x \in kept |-> IF x = k THEN i ELSE cache[t][x]]
<1>2. /\ DOMAIN f = kept
      /\ \A x \in kept : (x = k /\ f[x] = i) \/ (x # k /\ x \in DOMAIN cache[t] /\ f[x] = cache[t][x])
  OBVIOUS
<1> HIDE DEF f
<1>3. cache'[t] = f /\ \A u \in Cached \ {t} : cache'[u] = cache[u]
  BY <1>1 DEF f
<1>4. ASSUME NEW u \in Cached, NEW x \in DOMAIN cache'[u]
      PROVE  /\ cache'[u][x] \in 1 .. S[u]
             /\ u = "group" => cache'[u][x] \in DOMAIN R[u]
             /\ cache'[u][x] \in DOMAIN R[u] => Means(u, x, R[u][cache'[u][x]])
  <2>1. CASE u = t
    <3>1. x \in kept /\ cache'[u][x] = f[x]
      BY <1>2, <1>3, <2>1
    <3>2. CASE x = k
      BY <1>2, <2>1, <3>1, <3>2
    <3>3. CASE x # k
      <4>1. x \in DOMAIN cache[t] /\ cache'[u][x] = cache[t][x]
        BY <1>2, <3>1, <3>3
      <4> QED BY <2>1, <4>1 DEF CacheMeans
    <3> QED BY <3>2, <3>3
  <2>2. CASE u # t
    BY <1>3, <2>2 DEF CacheMeans
  <2> QED BY <2>1, <2>2
<1> QED BY <1>4 DEF CacheMeans

-----------------------------------------------------------------------------
(* The meaning of ids, step by step.                                       *)

\* No statement fails but for a full database, nobody moves archive files
\* away, and name and pid tell processes apart.  Crashes, GUIs that trim the
\* database and COMMITs that fail remain.
Orderly ==
  /\ NamePidTells
  /\ Hazards \subseteq {"crash", "nuke", "busy"}

LEMMA NothingElseFails ==
  ASSUME Orderly, FeedingInv, ArchivesInv
  PROVE  /\ ~StatementFails /\ ~OpenArchiveFails /\ ~DeleteFails /\ ~RequestFails
         /\ \A n : ~UnlinkArchive(n)
<1>1. "error" \notin Hazards /\ "unlink" \notin Hazards
  BY DEF Orderly
<1>2. ~Clashing
  BY SelectFindsClash DEF Orderly
<1>3. NextArchive \notin archives
  <2>1. PICK n \in Nat : archives = 1 .. n
    BY DEF ArchivesInv
  <2>2. Cardinality(archives) = n
    BY <2>1, FS_Interval
  <2> QED BY <2>1, <2>2 DEF NextArchive
<1> QED BY <1>1, <1>2, <1>3
      DEF StatementFails, OpenArchiveFails, DeleteFails, RequestFails, UnlinkArchive

LEMMA ArchivesPreserved ==
  ASSUME Orderly, FeedingInv, ArchivesInv, [Next]_vars
  PROVE  ArchivesInv'
<1>1. CASE UNCHANGED archives
  BY <1>1 DEF ArchivesInv
<1>2. CASE OpenArchive
  <2>1. PICK n \in Nat : archives = 1 .. n
    BY DEF ArchivesInv
  <2>2. NextArchive = n + 1
    <3>1. Cardinality(archives) = n
      BY <2>1, FS_Interval
    <3> QED BY <3>1 DEF NextArchive
  <2>3. archives' = archives \/ archives' = archives \cup {n + 1}
    BY <1>2, <2>2 DEF OpenArchive
  <2>4. archives' = 1 .. n \/ archives' = 1 .. (n + 1)
    <3>1. (1 .. n) \cup {n + 1} = 1 .. (n + 1)
      OBVIOUS
    <3> QED BY <2>1, <2>3, <3>1
  <2> QED BY <2>4 DEF ArchivesInv
<1>3. CASE Looking /\ ~OpenArchive
  BY <1>1, <1>3, NothingElseFails
    DEF Looking, StoreCached, StoreFound, Got, FetchGroup, ArchiveNext, CloseArchive, Receive
<1>4. CASE Adding
  BY <1>1, <1>4 DEF Adding, StoreCreated, Got, StoreTraceEntry
<1>5. CASE Undoing
  BY <1>1, <1>5, NothingElseFails DEF Undoing, DatabaseFull, Crash
<1>6. CASE \/ RegisterGroup \/ Commit \/ DeleteArchived \/ NukeDatabase
           \/ \E e \in Entries : HandleShutdownEvent(e)
  BY <1>1, <1>6 DEF RegisterGroup, Commit, DeleteArchived, NukeDatabase, HandleShutdownEvent
<1>7. CASE UNCHANGED vars
  BY <1>1, <1>7 DEF vars
<1> QED BY <1>2, <1>3, <1>4, <1>5, <1>6, <1>7, StepKinds

LEMMA TraceTidy ==
  ASSUME TablesInv PROVE Tidy(rows["trace"], seq["trace"])
BY DEF TablesInv, Databases

\* The tables stay as they are, and so do the caches if they are in use.
LEMMA SameMeaning ==
  ASSUME MeaningInv, rows'["trace"] = rows["trace"], seq'["trace"] = seq["trace"],
         UNCHANGED disk,
         CachesInUse' => CachesInUse /\ UNCHANGED cache,
         Pending' => /\ entry' = received'
                     /\ IdsMean(rows["trace"], seq["trace"], entry', step', ids')
  PROVE  MeaningInv'
BY DEF MeaningInv

\* While an archive is written ids and caches mean nothing.
LEMMA ArchiveMeaning ==
  ASSUME TablesInv, MeaningInv, target = "archive", UNCHANGED <<disk, target>>,
         (UNCHANGED <<rows, seq>>) \/ (\E t, r : AddRow(t, r))
  PROVE  MeaningInv'
<1>1. rows'["trace"] = rows["trace"] /\ seq'["trace"] = seq["trace"]
  BY OtherTables
<1>2. ~CachesInUse' /\ ~Pending'
  BY DEF CachesInUse, Pending
<1> QED BY <1>1, <1>2, SameMeaning

\* A store() of an entry for the trace database answers the id i.
LEMMA StoredMeaning ==
  ASSUME MeaningInv, LocalsInv, target = "trace", NEW t \in Cached \ {"group"}, step = t,
         NEW i, Got(t, i), i \in 1 .. seq'["trace"][t],
         i \in DOMAIN rows'["trace"][t] => RowFor(t, rows'["trace"][t][i]),
         Meaningful(rows'["trace"], seq'["trace"]),
         CacheMeans(rows'["trace"], seq'["trace"], cache'),
         IdsMean(rows'["trace"], seq'["trace"], entry, step, ids)
  PROVE  MeaningInv'
<1> DEFINE Q == rows'["trace"]
           T == seq'["trace"]
<1>1. Right(Q, T, t, i, entry)
  <2> HIDE DEF Q, T
  <2>1. i \in 1 .. T[t] /\ (i \in DOMAIN Q[t] => RowFor(t, Q[t][i]))
    BY DEF Q, T
  <2>2. IdsMean(Q, T, entry, step, ids)
    BY DEF Q, T
  <2> QED BY <2>1, <2>2, RightId
<1>2. /\ ids' = [ids EXCEPT ![t] = i] /\ step' = After(t)
      /\ UNCHANGED <<disk, entry, received, target>>
  BY DEF Got
<1>3. DOMAIN ids = Cached
  BY DEF LocalsInv
<1>4. IdsMean(Q, T, entry', step', ids')
  <2>1. IdsMean(Q, T, entry, t, ids)
    OBVIOUS
  <2> HIDE DEF Q, T
  <2>2. IdsMean(Q, T, entry, After(t), [ids EXCEPT ![t] = i])
    BY <1>1, <1>3, <2>1, GotIds
  <2> QED BY <1>2, <2>2
<1>5. entry = received
  BY DEF MeaningInv, Pending
<1> QED BY <1>2, <1>4, <1>5 DEF MeaningInv

LEMMA StoringTrace ==
  ASSUME FeedingInv, MeaningInv, target = "trace", step \in Cached \cup {"entry"}
  PROVE  /\ entry \in Entries /\ TablesInv /\ LocalsInv
         /\ Tidy(rows["trace"], seq["trace"])
         /\ Meaningful(rows["trace"], seq["trace"])
         /\ CacheMeans(rows["trace"], seq["trace"], cache) /\ DOMAIN cache = Cached
         /\ IdsMean(rows["trace"], seq["trace"], entry, step, ids)
<1>1. Pending /\ CachesInUse /\ step # "idle"
  BY DEF Pending, CachesInUse, Cached
<1> QED BY <1>1, TraceTidy DEF MeaningInv, FeedingInv, FlowInv, AnswersInv

LEMMA StoreCachedMeaning ==
  ASSUME Orderly, FeedingInv, MeaningInv, target = "trace",
         NEW t \in Cached \ {"group"}, StoreCached(t)
  PROVE  MeaningInv'
<1> DEFINE i == cache[t][Key(t)]
<1>1. step = t /\ Key(t) \in DOMAIN cache[t] /\ Got(t, i) /\ UNCHANGED <<rows, seq, cache>>
  BY DEF StoreCached
<1>2. /\ entry \in Entries /\ LocalsInv
      /\ Tidy(rows["trace"], seq["trace"])
      /\ Meaningful(rows["trace"], seq["trace"])
      /\ CacheMeans(rows["trace"], seq["trace"], cache)
      /\ IdsMean(rows["trace"], seq["trace"], entry, step, ids)
  BY <1>1, StoringTrace
<1>3. /\ i \in 1 .. seq["trace"][t]
      /\ i \in DOMAIN rows["trace"][t] => RowFor(t, rows["trace"][t][i])
  BY <1>1, <1>2, CachedFor DEF Orderly
<1> HIDE DEF i
<1> QED BY <1>1, <1>2, <1>3, StoredMeaning

LEMMA StoreFoundMeaning ==
  ASSUME Orderly, PidStartTells, FeedingInv, MeaningInv, target = "trace",
         NEW t \in Cached \ {"group"}, StoreFound(t)
  PROVE  MeaningInv'
<1> DEFINE R == rows["trace"]
           S == seq["trace"]
<1>1. step = t
  BY DEF StoreFound
<1>2. PICK i \in Selected(t, Row(t)) : Find(t, Key(t), Row(t), i) /\ Got(t, i)
  BY DEF StoreFound
<1>3. /\ i \in DOMAIN R[t] /\ Selects(t, R[t][i], Row(t))
      /\ Remember(t, Key(t), i) /\ UNCHANGED <<rows, seq>>
  BY <1>2 DEF Find, Selected
<1>4. /\ entry \in Entries /\ LocalsInv
      /\ Tidy(R, S) /\ Meaningful(R, S)
      /\ CacheMeans(R, S, cache) /\ DOMAIN cache = Cached
      /\ IdsMean(R, S, entry, step, ids)
  BY <1>1, StoringTrace
<1>5. rows'["trace"] = R /\ seq'["trace"] = S
  BY <1>3
<1> HIDE DEF R, S
<1>6. i \in 1 .. S[t]
  BY <1>3, <1>4 DEF Tidy, Tables
<1>7. RowFor(t, R[t][i]) /\ Means(t, Key(t), R[t][i])
  BY <1>3, <1>4, SelectedFor
<1>8. CacheMeans(R, S, cache')
  BY <1>3, <1>4, <1>6, <1>7, RememberMeans
<1> QED BY <1>1, <1>2, <1>4, <1>5, <1>6, <1>7, <1>8, StoredMeaning

\* What adding a row means for ids and caches, before the new id is in either.
LEMMA AddingMeaning ==
  ASSUME FeedingInv, TablesInv', MeaningInv, target = "trace", step \in Cached \cup {"entry"},
         NEW t \in Tables, NEW r, AddRow(t, r)
  PROVE  /\ Added(rows["trace"], seq["trace"], rows'["trace"], seq'["trace"], t, r,
                  seq["trace"][t] + 1)
         /\ Follows(rows["trace"], seq["trace"], rows'["trace"], seq'["trace"])
         /\ CacheMeans(rows'["trace"], seq'["trace"], cache)
         /\ IdsMean(rows'["trace"], seq'["trace"], entry, step, ids)
         /\ seq["trace"][t] + 1 \in 1 .. seq'["trace"][t]
<1> DEFINE R == rows["trace"]
           S == seq["trace"]
           Q == rows'["trace"]
           T == seq'["trace"]
           i == S[t] + 1
<1>1. Tidy(R, S) /\ TablesInv /\ CacheMeans(R, S, cache) /\ IdsMean(R, S, entry, step, ids)
  BY StoringTrace
<1>2. Added(R, S, Q, T, t, r, i)
  BY <1>1, AddRowAdds
<1>3. Tidy(Q, T)
  BY DEF TablesInv, Databases
<1> HIDE DEF R, S, Q, T
<1>4. Follows(R, S, Q, T) /\ KeepsGroups(R, Q)
  BY <1>1, <1>2, <1>3, AddedFollows
<1>5. CacheMeans(Q, T, cache) /\ IdsMean(Q, T, entry, step, ids)
  BY <1>1, <1>4, CacheFollows, IdsFollow
<1>6. i \in 1 .. T[t]
  BY <1>1, <1>2 DEF Added, Tidy
<1> QED BY <1>2, <1>4, <1>5, <1>6 DEF R, S, Q, T

LEMMA StoreCreatedMeaning ==
  ASSUME FeedingInv, TablesInv', MeaningInv, target = "trace",
         NEW t \in Cached \ {"group"}, StoreCreated(t)
  PROVE  MeaningInv'
<1> DEFINE R == rows["trace"]
           S == seq["trace"]
           Q == rows'["trace"]
           T == seq'["trace"]
           i == S[t] + 1
<1>1. step = t /\ AddRow(t, Row(t)) /\ Remember(t, Key(t), i) /\ Got(t, i)
  BY DEF StoreCreated, Create
<1>2. LocalsInv /\ Meaningful(R, S) /\ DOMAIN cache = Cached
  BY <1>1, StoringTrace
<1>3. /\ Added(R, S, Q, T, t, Row(t), i) /\ Follows(R, S, Q, T)
      /\ CacheMeans(Q, T, cache) /\ IdsMean(Q, T, entry, step, ids)
      /\ i \in 1 .. T[t] /\ t \in Tables
  BY <1>1, AddingMeaning DEF Tables
<1> HIDE DEF R, S, i
<1>4. Q[t][i] = Row(t) /\ Q["entry"] = R["entry"]
  BY <1>3 DEF Added, Tables, Cached
<1>5. RowFor(t, Q[t][i]) /\ Means(t, Key(t), Q[t][i])
  BY <1>4, CreatedFor
<1>6. Meaningful(Q, T)
  <2> HIDE DEF Q, T
  <2> QED BY <1>2, <1>3, <1>4, MeaningfulFollows
<1>7. CacheMeans(Q, T, cache')
  <2> HIDE DEF Q, T
  <2> QED BY <1>1, <1>2, <1>3, <1>5, RememberMeans
<1> QED BY <1>1, <1>2, <1>3, <1>5, <1>6, <1>7, StoredMeaning

\* TraceKeyCache::update registers one more name.
LEMMA RegisterGroupMeaning ==
  ASSUME FeedingInv, TablesInv', MeaningInv, target = "trace", RegisterGroup
  PROVE  MeaningInv'
<1> DEFINE R == rows["trace"]
           S == seq["trace"]
           Q == rows'["trace"]
           T == seq'["trace"]
<1>1. step = "group" /\ UNCHANGED <<disk, step, target, entry, ids, received>>
  BY DEF RegisterGroup
<1>2. /\ Tidy(R, S) /\ Meaningful(R, S) /\ CacheMeans(R, S, cache) /\ DOMAIN cache = Cached
      /\ IdsMean(R, S, entry, step, ids)
  BY <1>1, StoringTrace DEF Cached
<1>3. Pending /\ entry = received /\ Meaningful(disk.rows, disk.seq)
  BY <1>1 DEF Pending, Cached, MeaningInv
<1>4. PICK g : (\E i \in Selected("group", g) : Find("group", g, g, i)) \/ Create("group", g, g)
  BY DEF RegisterGroup
<1>5. "group" \in Cached /\ "group" \in Tables
  BY DEF Tables, Cached
<1>6. ASSUME NEW i \in Selected("group", g), Find("group", g, g, i)
      PROVE  MeaningInv'
  <2>1. /\ i \in DOMAIN R["group"] /\ R["group"][i] = g
        /\ Remember("group", g, i) /\ UNCHANGED <<rows, seq>>
    BY <1>6 DEF Find, Selected, Selects
  <2>2. Q = R /\ T = S
    BY <2>1
  <2> HIDE DEF R, S
  <2>3. i \in 1 .. S["group"] /\ Means("group", g, R["group"][i])
    BY <1>2, <1>5, <2>1 DEF Tidy, Means
  <2>4. CacheMeans(R, S, cache')
    BY <1>2, <1>5, <2>1, <2>3, RememberMeans
  <2> QED BY <1>1, <1>2, <1>3, <2>2, <2>4 DEF MeaningInv
<1>7. CASE Create("group", g, g)
  <2> DEFINE i == S["group"] + 1
  <2>1. AddRow("group", g) /\ Remember("group", g, i)
    BY <1>1, <1>7 DEF Create
  <2>2. /\ Added(R, S, Q, T, "group", g, i) /\ Follows(R, S, Q, T)
        /\ CacheMeans(Q, T, cache) /\ IdsMean(Q, T, entry, step, ids)
        /\ i \in 1 .. T["group"]
    BY <1>1, <1>5, <2>1, AddingMeaning
  <2> HIDE DEF R, S, i
  <2>3. /\ i \in DOMAIN Q["group"] /\ Q["group"][i] = g /\ Q["entry"] = R["entry"]
        /\ Means("group", g, Q["group"][i])
    BY <2>2 DEF Added, Means, Tables, Cached
  <2>4. Meaningful(Q, T)
    <3> HIDE DEF Q, T
    <3> QED BY <1>2, <2>2, <2>3, MeaningfulFollows
  <2>5. CacheMeans(Q, T, cache')
    <3> HIDE DEF Q, T
    <3> QED BY <1>2, <1>5, <2>1, <2>2, <2>3, RememberMeans
  <2> QED BY <1>1, <1>3, <2>2, <2>4, <2>5 DEF MeaningInv
<1> QED BY <1>4, <1>6, <1>7

\* The id of the entry's group is that of a row with its name.
LEMMA FetchGroupMeaning ==
  ASSUME FeedingInv, MeaningInv, target = "trace", FetchGroup
  PROVE  MeaningInv'
<1> DEFINE R == rows["trace"]
           S == seq["trace"]
           g == IF entry.group = NoGroup THEN 0 ELSE cache["group"][entry.group]
<1>1. /\ step = "group" /\ step' = "point" /\ Unregistered = {}
      /\ ids' = [ids EXCEPT !["group"] = g]
      /\ UNCHANGED <<rows, seq, disk, cache, target, entry, received>>
  BY DEF FetchGroup
<1>2. LocalsInv /\ CacheMeans(R, S, cache) /\ IdsMean(R, S, entry, step, ids)
  BY <1>1, StoringTrace DEF Cached
<1>3. CachesInUse /\ Pending /\ entry = received
  BY <1>1 DEF CachesInUse, Pending, Cached, MeaningInv
<1> HIDE DEF R, S
<1>4. GroupIs(R, g, entry)
  <2>1. CASE entry.group = NoGroup
    BY <2>1 DEF GroupIs
  <2>2. CASE entry.group # NoGroup
    <3>1. entry.group \in DOMAIN cache["group"]
      BY <1>1, <2>2 DEF Unregistered
    <3>2. g \in DOMAIN R["group"] /\ Means("group", entry.group, R["group"][g])
      BY <1>2, <2>2, <3>1 DEF CacheMeans, Cached
    <3> QED BY <2>2, <3>2 DEF GroupIs, Means
  <2> QED BY <2>1, <2>2
<1> HIDE DEF g
<1>5. IdsMean(R, S, entry, "point", ids')
  BY <1>1, <1>2, <1>4 DEF IdsMean, Since, LocalsInv, Cached
<1> QED BY <1>1, <1>3, <1>5, SameMeaning DEF R, S

\* The trace_entry row refers to the ids collected.
LEMMA StoreTraceEntryMeaning ==
  ASSUME FeedingInv, TablesInv', MeaningInv, target = "trace", StoreTraceEntry
  PROVE  MeaningInv'
<1> DEFINE R == rows["trace"]
           S == seq["trace"]
           Q == rows'["trace"]
           T == seq'["trace"]
           r == [thread |-> ids["thread"], point |-> ids["point"], message |-> entry.message]
           i == S["entry"] + 1
<1>1. /\ step = "entry" /\ step' = "commit" /\ AddRow("entry", r)
      /\ UNCHANGED <<disk, cache, target, entry, ids, received>>
  BY DEF StoreTraceEntry
<1>2. entry \in Entries /\ Meaningful(R, S) /\ IdsMean(R, S, entry, step, ids)
  BY <1>1, StoringTrace
<1>3. entry = received
  BY <1>1 DEF Pending, MeaningInv
<1>4. r.message = entry.message /\ r.thread = ids["thread"] /\ r.point = ids["point"]
  OBVIOUS
<1> HIDE DEF r
<1>5. /\ Added(R, S, Q, T, "entry", r, i) /\ Follows(R, S, Q, T)
      /\ CacheMeans(Q, T, cache)
  BY <1>1, AddingMeaning DEF Tables
<1> HIDE DEF R, S, i
<1>6. RowIs(R, S, r, entry)
  BY <1>1, <1>2, <1>4 DEF RowIs, IdsMean, Since
<1>7. Meaningful(Q, T)
  <2> HIDE DEF Q, T
  <2>1. RowIs(Q, T, r, entry)
    BY <1>5, <1>6, RowFollows
  <2>2. ASSUME NEW j \in DOMAIN Q["entry"]
        PROVE  \E e \in Entries : RowIs(Q, T, Q["entry"][j], e)
    <3>1. CASE j = i
      BY <1>2, <1>5, <2>1, <3>1 DEF Added
    <3>2. CASE j # i
      <4>1. j \in DOMAIN R["entry"] /\ Q["entry"][j] = R["entry"][j]
        BY <1>5, <2>2, <3>2 DEF Added
      <4>2. PICK e \in Entries : RowIs(R, S, R["entry"][j], e)
        BY <1>2, <4>1 DEF Meaningful
      <4>3. RowIs(Q, T, R["entry"][j], e)
        BY <1>5, <4>2, RowFollows
      <4> QED BY <4>1, <4>3
    <3> QED BY <3>1, <3>2
  <2> QED BY <2>2 DEF Meaningful
<1>8. IdsMean(Q, T, entry', step', ids')
  BY <1>1 DEF IdsMean, Since
<1> QED BY <1>1, <1>3, <1>5, <1>7, <1>8 DEF MeaningInv

\* A COMMIT writes what the tables are.
LEMMA CommittedMeaning ==
  ASSUME MeaningInv, CommitTrace, Meaningful(rows'["trace"], seq'["trace"])
  PROVE  Meaningful(disk'.rows, disk'.seq)
<1>1. CASE UNCHANGED disk
  BY <1>1 DEF MeaningInv
<1>2. CASE disk' = [rows |-> rows'["trace"], seq |-> seq'["trace"]]
  <2>1. disk'.rows = rows'["trace"] /\ disk'.seq = seq'["trace"]
    BY <1>2
  <2> QED BY <2>1
<1> QED BY <1>1, <1>2 DEF CommitTrace

LEMMA NoCacheMeans == ASSUME NEW R, NEW S PROVE CacheMeans(R, S, NoCache)
BY DEF CacheMeans, NoCache, Cached

LEMMA FirstIdsMean == ASSUME NEW R, NEW S, NEW e, NEW d PROVE IdsMean(R, S, e, "path", d)
BY DEF IdsMean, Since

LEMMA DeleteArchivedMeaning ==
  ASSUME FeedingInv, MeaningInv, DeleteArchived
  PROVE  MeaningInv'
<1> DEFINE R == rows["trace"]
           S == seq["trace"]
           Q == rows'["trace"]
           T == seq'["trace"]
<1>1. /\ cache' = NoCache /\ CommitTrace /\ entry' = received /\ received' = received
      /\ step' = "path"
  BY DEF DeleteArchived
<1>2. /\ Follows(R, S, Q, T)
      /\ \A i \in DOMAIN Q["entry"] : i \in DOMAIN R["entry"] /\ Q["entry"][i] = R["entry"][i]
  BY RemainingFollows DEF FeedingInv
<1>3. Meaningful(R, S)
  BY DEF MeaningInv
<1>4. Meaningful(Q, T)
  <2> HIDE DEF R, S, Q, T
  <2> QED BY <1>2, <1>3, MeaningfulFollows
<1>5. Meaningful(disk'.rows, disk'.seq)
  BY <1>1, <1>4, CommittedMeaning
<1>6. CacheMeans(Q, T, cache') /\ IdsMean(Q, T, entry', step', ids')
  BY <1>1, NoCacheMeans, FirstIdsMean
<1> QED BY <1>1, <1>4, <1>5, <1>6 DEF MeaningInv

\* A request of the event loop: the rows it leaves follow from those before.
LEMMA RequestMeaning ==
  ASSUME MeaningInv, CommitTrace, step = "idle", UNCHANGED <<cache, step, target>>,
         Follows(rows["trace"], seq["trace"], rows'["trace"], seq'["trace"]),
         KeepsGroups(rows["trace"], rows'["trace"]),
         \A i \in DOMAIN rows'["trace"]["entry"] :
           /\ i \in DOMAIN rows["trace"]["entry"]
           /\ rows'["trace"]["entry"][i] = rows["trace"]["entry"][i]
  PROVE  MeaningInv'
<1> DEFINE R == rows["trace"]
           S == seq["trace"]
           Q == rows'["trace"]
           T == seq'["trace"]
<1>1. Meaningful(R, S) /\ (CachesInUse => CacheMeans(R, S, cache))
  BY DEF MeaningInv
<1>2. /\ Follows(R, S, Q, T) /\ KeepsGroups(R, Q)
      /\ \A i \in DOMAIN Q["entry"] : i \in DOMAIN R["entry"] /\ Q["entry"][i] = R["entry"][i]
  OBVIOUS
<1>3. Meaningful(Q, T) /\ (CachesInUse => CacheMeans(Q, T, cache))
  <2> HIDE DEF R, S, Q, T
  <2> QED BY <1>1, <1>2, MeaningfulFollows, CacheFollows
<1>4. Meaningful(disk'.rows, disk'.seq)
  BY <1>3, CommittedMeaning
<1>5. ~Pending' /\ (CachesInUse' => CachesInUse)
  BY DEF Pending, CachesInUse, Cached
<1> QED BY <1>3, <1>4, <1>5 DEF MeaningInv

LEMMA MeaningPreserved ==
  ASSUME Orderly, PidStartTells, FeedingInv, ArchivesInv, MeaningInv, [Next]_vars
  PROVE  MeaningInv'
<1>0. TablesInv /\ TablesInv' /\ FlowInv /\ target \in Databases
  BY FeedingPreserved DEF FeedingInv, FlowInv
<1>1. CASE Looking
  <2>1. UNCHANGED <<rows, seq, disk>>
    BY <1>1, LookingKeeps
  <2>2. ASSUME NEW t \in Cached \ {"group"}, StoreCached(t) \/ StoreFound(t)
        PROVE  MeaningInv'
    <3>1. CASE target = "trace"
      BY <2>2, <3>1, StoreCachedMeaning, StoreFoundMeaning
    <3>2. CASE target = "archive"
      <4>1. UNCHANGED target
        BY <2>2 DEF StoreCached, StoreFound, Got
      <4> QED BY <1>0, <2>1, <3>2, <4>1, ArchiveMeaning
    <3> QED BY <1>0, <3>1, <3>2 DEF Databases
  <2>3. CASE FetchGroup
    <3>1. CASE target = "trace"
      BY <2>3, <3>1, FetchGroupMeaning
    <3>2. CASE target = "archive"
      <4>1. UNCHANGED target
        BY <2>3 DEF FetchGroup
      <4> QED BY <1>0, <2>1, <3>2, <4>1, ArchiveMeaning
    <3> QED BY <1>0, <3>1, <3>2 DEF Databases
  <2>4. CASE OpenArchive \/ ArchiveNext \/ CloseArchive
    <3>1. \/ step' \in {"next", "delete"}
          \/ target' = "archive"
      BY <2>4 DEF OpenArchive, ArchiveNext, CloseArchive
    <3>2. ~CachesInUse' /\ ~Pending'
      BY <3>1 DEF CachesInUse, Pending, Cached
    <3> QED BY <2>1, <3>2, SameMeaning
  <2>5. ASSUME NEW e \in Entries, Receive(e) PROVE MeaningInv'
    <3>1. /\ step = "idle" /\ step' = "path" /\ entry' = e /\ received' = e
          /\ UNCHANGED <<cache, target>>
      BY <2>5 DEF Receive
    <3>2. CachesInUse' => CachesInUse
      BY <3>1 DEF CachesInUse
    <3>3. IdsMean(rows["trace"], seq["trace"], entry', step', ids')
      BY <3>1, FirstIdsMean
    <3> QED BY <2>1, <3>1, <3>2, <3>3, SameMeaning
  <2> QED BY <1>1, <2>2, <2>3, <2>4, <2>5, NothingElseFails DEF Looking
<1>2. CASE Adding
  <2>1. ASSUME NEW t \in Cached \ {"group"}, StoreCreated(t) PROVE MeaningInv'
    <3>1. CASE target = "trace"
      BY <1>0, <2>1, <3>1, StoreCreatedMeaning
    <3>2. CASE target = "archive"
      <4>1. UNCHANGED <<disk, target>> /\ AddRow(t, Row(t))
        BY <2>1 DEF StoreCreated, Create, Got
      <4> QED BY <1>0, <3>2, <4>1, ArchiveMeaning
    <3> QED BY <1>0, <3>1, <3>2 DEF Databases
  <2>2. CASE StoreTraceEntry
    <3>1. CASE target = "trace"
      BY <1>0, <2>2, <3>1, StoreTraceEntryMeaning
    <3>2. CASE target = "archive"
      <4>1. UNCHANGED <<disk, target>> /\ \E r : AddRow("entry", r)
        BY <2>2 DEF StoreTraceEntry
      <4> QED BY <1>0, <3>2, <4>1, ArchiveMeaning
    <3> QED BY <1>0, <3>1, <3>2 DEF Databases
  <2> QED BY <1>2, <2>1, <2>2 DEF Adding
<1>3. CASE RegisterGroup
  <2>1. CASE target = "trace"
    BY <1>0, <1>3, <2>1, RegisterGroupMeaning
  <2>2. CASE target = "archive"
    <3>1. /\ UNCHANGED <<disk, target>>
          /\ (UNCHANGED <<rows, seq>>) \/ (\E g : AddRow("group", g))
      BY <1>3 DEF RegisterGroup, Find, Create
    <3> QED BY <1>0, <2>2, <3>1, ArchiveMeaning
  <2> QED BY <1>0, <2>1, <2>2 DEF Databases
<1>4. CASE DatabaseFull \/ Crash
  <2>1. rows'["trace"] = disk.rows /\ seq'["trace"] = disk.seq /\ UNCHANGED disk
    BY <1>0, <1>4, RollbackTables DEF DatabaseFull, Crash, Rollback
  <2>2. Meaningful(rows'["trace"], seq'["trace"]) /\ Meaningful(disk'.rows, disk'.seq)
    BY <2>1 DEF MeaningInv
  <2>3. CASE DatabaseFull
    <3>1. ~CachesInUse' /\ ~Pending'
      BY <2>3 DEF DatabaseFull, CachesInUse, Pending, Cached
    <3> QED BY <2>2, <3>1 DEF MeaningInv
  <2>4. CASE Crash
    <3>1. ~Pending' /\ cache' = NoCache
      BY <2>4 DEF Crash, Return, Pending, Cached
    <3> QED BY <2>2, <3>1, NoCacheMeans DEF MeaningInv
  <2> QED BY <1>4, <2>3, <2>4
<1>5. CASE Commit
  <2>1. /\ step = "commit" /\ UNCHANGED <<rows, seq, cache>> /\ CommitTrace
        /\ step' = "idle" /\ target' = "trace"
    BY <1>5 DEF Commit, Return
  <2>2. target = "trace"
    BY <1>0, <2>1 DEF FlowInv, Cached, Databases
  <2>3. CachesInUse /\ ~Pending'
    BY <2>1, <2>2 DEF CachesInUse, Pending, Cached
  <2>4. Meaningful(disk'.rows, disk'.seq)
    BY <2>1, CommittedMeaning DEF MeaningInv
  <2> QED BY <2>1, <2>3, <2>4 DEF MeaningInv
<1>6. CASE DeleteArchived
  BY <1>6, DeleteArchivedMeaning
<1>7. ASSUME NEW e \in Entries, HandleShutdownEvent(e) PROVE MeaningInv'
  <2>1. step = "idle" /\ CommitTrace /\ UNCHANGED <<cache, step, target>>
    BY <1>7 DEF HandleShutdownEvent
  <2> QED BY <1>0, <1>7, <2>1, ShutdownFollows, RequestMeaning
<1>8. CASE NukeDatabase
  <2>1. step = "idle" /\ CommitTrace /\ UNCHANGED <<cache, step, target>>
    BY <1>8 DEF NukeDatabase
  <2> QED BY <1>0, <1>8, <2>1, NukeFollows, RequestMeaning
<1>9. CASE UNCHANGED vars
  BY <1>9 DEF vars, MeaningInv, CachesInUse, Pending
<1> QED BY <1>1, <1>2, <1>3, <1>4, <1>5, <1>6, <1>7, <1>8, <1>9, StepKinds, NothingElseFails
      DEF Undoing

LEMMA MeaningSpec ==
  ASSUME Orderly, PidStartTells
  PROVE  Spec => [](FeedingInv /\ ArchivesInv /\ MeaningInv)
<1>1. Init => ArchivesInv /\ MeaningInv
  <2> SUFFICES ASSUME Init PROVE ArchivesInv /\ MeaningInv
    OBVIOUS
  <2>1. archives = 1 .. 0
    BY DEF Init
  <2>2. Meaningful(NoRows, NoSeq)
    BY DEF Meaningful, NoRows, Tables
  <2>3. /\ rows["trace"] = NoRows /\ seq["trace"] = NoSeq
        /\ disk.rows = NoRows /\ disk.seq = NoSeq /\ cache = NoCache /\ ~Pending
    BY DEF Init, Databases, Pending, Cached
  <2> QED BY <2>1, <2>2, <2>3, NoCacheMeans DEF ArchivesInv, MeaningInv
<1>2. (FeedingInv /\ ArchivesInv /\ MeaningInv) /\ [Next]_vars
        => (FeedingInv /\ ArchivesInv /\ MeaningInv)'
  BY FeedingPreserved, ArchivesPreserved, MeaningPreserved
<1> QED BY <1>1, <1>2, FeedingInit, PTL DEF Spec

\* The message of an entry tells what else it says: by it Attributed knows the
\* entry that was sent.
MessagesTell ==
  \A e, f \in Entries : e.message = f.message => Content(e) = Content(f)

LEMMA ContentIs ==
  ASSUME NEW e \in Entries
  PROVE  Content(e) = [path |-> e.path, function |-> e.function, name |-> e.name,
                       pid |-> e.pid, start |-> e.start, tid |-> e.tid,
                       group |-> e.group, message |-> e.message, keys |-> {}]
<1>1. e = [f \in Fields |-> e[f]]
  BY EntriesAssumption
<1> QED BY <1>1 DEF Content, Fields

LEMMA MeaningAttributes ==
  ASSUME MessagesTell, TablesInv, MeaningInv
  PROVE  Attributed
<1> SUFFICES ASSUME NEW i \in Ids("entry"), NEW e \in Entries,
                    rows["trace"]["entry"][i].message = e.message, Joined("trace", i)
             PROVE  ReadEntry("trace", i) = Content(e)
  BY DEF Attributed
<1> DEFINE R == rows["trace"]
           S == seq["trace"]
           r == R["entry"][i]
           t == R["thread"][r.thread]
           p == R["process"][t.process]
           q == R["point"][r.point]
<1>1. PICK f \in Entries : RowIs(R, S, r, f)
  BY DEF MeaningInv, Meaningful, Ids
<1>2. Content(f) = Content(e)
  BY <1>1 DEF RowIs, MessagesTell
<1>3. /\ r.thread \in DOMAIN R["thread"] /\ t.process \in DOMAIN R["process"]
      /\ r.point \in DOMAIN R["point"]
      /\ q.path \in DOMAIN R["path"] /\ q.function \in DOMAIN R["function"]
  BY DEF Joined, Resolves
<1>4. r.message = f.message /\ ThreadIs(R, S, r.thread, f) /\ PointIs(R, S, r.point, f)
  BY <1>1 DEF RowIs
<1>5. t.tid = f.tid /\ p.name = f.name /\ p.pid = f.pid /\ p.start = f.start
  BY <1>3, <1>4 DEF ThreadIs, ProcessIs
<1>6. /\ R["path"][q.path] = f.path /\ R["function"][q.function] = f.function
      /\ GroupIs(R, q.group, f)
  BY <1>3, <1>4 DEF PointIs, TextIs
<1>7. 0 \notin DOMAIN R["group"]
  BY TraceTidy DEF Tidy, Tables, Cached
<1>8. (IF Resolves("trace", "group", q.group) THEN R["group"][q.group] ELSE NoGroup) = f.group
  BY <1>6, <1>7 DEF GroupIs, Resolves
<1>9. ReadEntry("trace", i) =
        [path |-> R["path"][q.path], function |-> R["function"][q.function],
         name |-> p.name, pid |-> p.pid, start |-> p.start, tid |-> t.tid,
         group |-> IF Resolves("trace", "group", q.group)
                     THEN R["group"][q.group] ELSE NoGroup,
         message |-> r.message, keys |-> {}]
  BY DEF ReadEntry
<1>10. ReadEntry("trace", i) = Content(f)
  <2> HIDE DEF R, S, r, t, p, q
  <2> QED BY <1>4, <1>5, <1>6, <1>8, <1>9, ContentIs
<1> QED BY <1>2, <1>10

\* Whatever a stored trace entry is joined with is what its application sent,
\* whether the ids came from a cache, a SELECT or an INSERT, before and after
\* crashes, archivings and trimmings.
THEOREM FeederAttributes ==
  ASSUME Orderly, PidStartTells, MessagesTell
  PROVE  Spec => []Attributed
<1>1. FeedingInv /\ ArchivesInv /\ MeaningInv => Attributed
  BY MeaningAttributes DEF FeedingInv
<1> QED BY <1>1, MeaningSpec, PTL

-----------------------------------------------------------------------------
(* References.                                                             *)

\* Whatever a row of the tables R refers to is there.
Complete(R) ==
  /\ \A i \in DOMAIN R["thread"] : R["thread"][i].process \in DOMAIN R["process"]
  /\ \A i \in DOMAIN R["point"] :
       /\ R["point"][i].path \in DOMAIN R["path"]
       /\ R["point"][i].function \in DOMAIN R["function"]
  /\ \A i \in DOMAIN R["entry"] :
       /\ R["entry"][i].thread \in DOMAIN R["thread"]
       /\ R["entry"][i].point \in DOMAIN R["point"]

\* So is what the caches C answer ...
CacheIn(R, C) == \A t \in Cached : \A k \in DOMAIN C[t] : C[t][k] \in DOMAIN R[t]

\* ... and what storeEntry has collected in d before the statement st.
IdsIn(R, st, d) ==
  \A t \in Cached \ {"group"} : st \in Since[t] => d[t] \in DOMAIN R[t]

CompleteInv ==
  ~trimmed =>
    /\ Complete(rows["trace"]) /\ Complete(disk.rows)
    /\ CachesInUse => CacheIn(rows["trace"], cache)
    /\ Pending => IdsIn(rows["trace"], step, ids)

\* What row r refers to.
RefsIn(R, t, r) ==
  /\ t = "thread" => r.process \in DOMAIN R["process"]
  /\ t = "point" => r.path \in DOMAIN R["path"] /\ r.function \in DOMAIN R["function"]
  /\ t = "entry" => r.thread \in DOMAIN R["thread"] /\ r.point \in DOMAIN R["point"]

LEMMA AddedComplete ==
  ASSUME NEW R, NEW S, NEW Q, NEW T, NEW t \in Tables, NEW r, NEW i,
         Added(R, S, Q, T, t, r, i), Complete(R), RefsIn(R, t, r)
  PROVE  Complete(Q) /\ \A u \in Tables : DOMAIN R[u] \subseteq DOMAIN Q[u]
<1>1. ASSUME NEW u \in Tables
      PROVE  /\ DOMAIN R[u] \subseteq DOMAIN Q[u]
             /\ \A j \in DOMAIN Q[u] :
                  \/ j \in DOMAIN R[u] /\ Q[u][j] = R[u][j]
                  \/ u = t /\ Q[u][j] = r
  BY DEF Added
<1>2. {"thread", "process", "point", "path", "function", "entry"} \subseteq Tables
  BY DEF Tables, Cached
<1>3. \A j \in DOMAIN Q["thread"] : Q["thread"][j].process \in DOMAIN Q["process"]
  BY <1>1, <1>2 DEF Complete, RefsIn
<1>4. \A j \in DOMAIN Q["point"] :
        /\ Q["point"][j].path \in DOMAIN Q["path"]
        /\ Q["point"][j].function \in DOMAIN Q["function"]
  BY <1>1, <1>2 DEF Complete, RefsIn
<1>5. \A j \in DOMAIN Q["entry"] :
        /\ Q["entry"][j].thread \in DOMAIN Q["thread"]
        /\ Q["entry"][j].point \in DOMAIN Q["point"]
  BY <1>1, <1>2 DEF Complete, RefsIn
<1> QED BY <1>1, <1>3, <1>4, <1>5 DEF Complete

LEMMA MoreIn ==
  ASSUME NEW R, NEW Q, \A u \in Tables : DOMAIN R[u] \subseteq DOMAIN Q[u]
  PROVE  /\ \A C : CacheIn(R, C) => CacheIn(Q, C)
         /\ \A st, d : IdsIn(R, st, d) => IdsIn(Q, st, d)
BY DEF CacheIn, IdsIn, Tables

\* The ids of the entry being stored complete the row that comes next.
LEMMA RowRefsIn ==
  ASSUME NEW R, NEW t \in Cached \ {"group"}, step = t, IdsIn(R, step, ids)
  PROVE  RefsIn(R, t, Row(t))
<1>1. CASE t = "thread"
  <2>1. Row(t).process = ids["process"]
    BY <1>1 DEF Row
  <2> QED BY <1>1, <2>1 DEF IdsIn, RefsIn, Since, Cached
<1>2. CASE t = "point"
  <2>1. Row(t).path = ids["path"] /\ Row(t).function = ids["function"]
    BY <1>2 DEF Row
  <2> QED BY <1>2, <2>1 DEF IdsIn, RefsIn, Since, Cached
<1>3. CASE t \notin {"thread", "point"}
  BY <1>3 DEF RefsIn, Cached
<1> QED BY <1>1, <1>2, <1>3

LEMMA GotIn ==
  ASSUME NEW R, NEW t \in Cached \ {"group"}, NEW d, NEW i \in DOMAIN R[t],
         DOMAIN d = Cached, IdsIn(R, t, d)
  PROVE  IdsIn(R, After(t), [d EXCEPT ![t] = i])
<1> DEFINE f == [d EXCEPT ![t] = i]
<1>1. f[t] = i /\ \A u \in Cached \ {t} : f[u] = d[u]
  OBVIOUS
<1> HIDE DEF f
<1>2. \A u \in Cached \ {"group"} : After(t) \in Since[u] => t \in Since[u] \/ u = t
  BY DEF After, Since, Cached
<1>3. IdsIn(R, After(t), f)
  BY <1>1, <1>2 DEF IdsIn
<1> QED BY <1>3 DEF f

LEMMA RememberIn ==
  ASSUME NEW R, CacheIn(R, cache), DOMAIN cache = Cached,
         NEW t \in Cached, NEW k, NEW i \in DOMAIN R[t], Remember(t, k, i)
  PROVE  CacheIn(R, cache')
<1>1. PICK kept \in SUBSET (DOMAIN cache[t] \cup {k}) :
        cache' = [cache EXCEPT ![t] =
                    [x \in kept |-> IF x = k THEN i ELSE cache[t][x]]]
  BY DEF Remember
<1> DEFINE f == [x \in kept |-> IF x = k THEN i ELSE cache[t][x]]
<1>2. DOMAIN f = kept /\ \A x \in kept : f[x] \in DOMAIN R[t]
  BY DEF CacheIn
<1> HIDE DEF f
<1>3. cache'[t] = f /\ \A u \in Cached \ {t} : cache'[u] = cache[u]
  BY <1>1 DEF f
<1>4. ASSUME NEW u \in Cached, NEW x \in DOMAIN cache'[u] PROVE cache'[u][x] \in DOMAIN R[u]
  BY <1>2, <1>3 DEF CacheIn
<1> QED BY <1>4 DEF CacheIn

LEMMA SameComplete ==
  ASSUME CompleteInv, UNCHANGED <<trimmed, disk>>, rows'["trace"] = rows["trace"],
         CachesInUse' => CachesInUse /\ UNCHANGED cache,
         Pending' /\ ~trimmed => IdsIn(rows["trace"], step', ids')
  PROVE  CompleteInv'
BY DEF CompleteInv

LEMMA ArchiveComplete ==
  ASSUME TablesInv, CompleteInv, target = "archive", UNCHANGED <<disk, target, trimmed>>,
         (UNCHANGED <<rows, seq>>) \/ (\E t, r : AddRow(t, r))
  PROVE  CompleteInv'
<1>1. rows'["trace"] = rows["trace"]
  BY OtherTables
<1>2. ~CachesInUse' /\ ~Pending'
  BY DEF CachesInUse, Pending
<1> QED BY <1>1, <1>2, SameComplete

LEMMA FirstIdsIn == ASSUME NEW R, NEW d PROVE IdsIn(R, "path", d)
BY DEF IdsIn, Since, Cached

LEMMA NoCacheIn == ASSUME NEW R PROVE CacheIn(R, NoCache)
BY DEF CacheIn, NoCache, Cached

LEMMA CommittedComplete ==
  ASSUME CommitTrace, Complete(rows'["trace"]), Complete(disk.rows)
  PROVE  Complete(disk'.rows)
<1>1. CASE disk' = [rows |-> rows'["trace"], seq |-> seq'["trace"]]
  <2>1. disk'.rows = rows'["trace"]
    BY <1>1
  <2> QED BY <2>1
<1>2. CASE UNCHANGED disk
  BY <1>2
<1> QED BY <1>1, <1>2 DEF CommitTrace

LEMMA RemainingComplete ==
  ASSUME TablesInv, DeleteArchived, Complete(rows["trace"])
  PROVE  Complete(rows'["trace"])
<1> DEFINE R == rows["trace"]
           Q == Remaining(Oldest(Ids("entry"), numCopy))
<1>1. rows'["trace"] = Q
  BY DeleteArchivedTables
<1>2. DOMAIN R = Tables
  BY TraceTidy DEF Tidy
<1>3. /\ Fewer(R, Q)
      /\ \A i \in DOMAIN Q["entry"] :
           /\ Q["entry"][i].point \in DOMAIN R["point"]
                => Q["entry"][i].point \in DOMAIN Q["point"]
           /\ Q["entry"][i].thread \in DOMAIN R["thread"]
                => Q["entry"][i].thread \in DOMAIN Q["thread"]
      /\ \A i \in DOMAIN Q["point"] :
           /\ Q["point"][i].path \in DOMAIN R["path"]
                => Q["point"][i].path \in DOMAIN Q["path"]
           /\ Q["point"][i].function \in DOMAIN R["function"]
                => Q["point"][i].function \in DOMAIN Q["function"]
      /\ \A i \in DOMAIN Q["thread"] :
           Q["thread"][i].process \in DOMAIN R["process"]
                => Q["thread"][i].process \in DOMAIN Q["process"]
  BY <1>2, RemainingRows
<1> HIDE DEF Q
<1>4. /\ \A i \in DOMAIN Q["entry"] : i \in DOMAIN R["entry"] /\ Q["entry"][i] = R["entry"][i]
      /\ \A i \in DOMAIN Q["point"] : i \in DOMAIN R["point"] /\ Q["point"][i] = R["point"][i]
      /\ \A i \in DOMAIN Q["thread"] :
           i \in DOMAIN R["thread"] /\ Q["thread"][i] = R["thread"][i]
  BY <1>3 DEF Fewer, Tables, Cached
<1>5. Complete(Q)
  BY <1>3, <1>4 DEF Complete
<1> QED BY <1>1, <1>5

LEMMA ShutdownComplete ==
  ASSUME TablesInv, NEW e, HandleShutdownEvent(e)
  PROVE  /\ Complete(rows["trace"]) => Complete(rows'["trace"])
         /\ \A u \in Tables : DOMAIN rows["trace"][u] \subseteq DOMAIN rows'["trace"][u]
<1> DEFINE R == rows["trace"]
           Q == rows'["trace"]
<1>1. /\ \A t \in Tables \ {"process"} : Q[t] = R[t]
      /\ DOMAIN Q["process"] = DOMAIN R["process"]
  BY ShutdownRows
<1> HIDE DEF R, Q
<1>2. Complete(R) => Complete(Q)
  BY <1>1 DEF Complete, Tables, Cached
<1> QED BY <1>1, <1>2 DEF R, Q

LEMMA StoringComplete ==
  ASSUME FeedingInv, CompleteInv, ~trimmed, target = "trace", step \in Cached \cup {"entry"}
  PROVE  /\ TablesInv /\ DOMAIN ids = Cached /\ DOMAIN cache = Cached
         /\ Complete(rows["trace"]) /\ Complete(disk.rows)
         /\ CacheIn(rows["trace"], cache) /\ IdsIn(rows["trace"], step, ids)
BY DEF FeedingInv, LocalsInv, AnswersInv, CompleteInv, CachesInUse, Pending

LEMMA StoreComplete ==
  ASSUME FeedingInv, CompleteInv, ~trimmed, target = "trace", UNCHANGED trimmed,
         NEW t \in Cached \ {"group"}, StoreCached(t) \/ StoreFound(t) \/ StoreCreated(t)
  PROVE  CompleteInv'
<1> DEFINE R == rows["trace"]
           Q == rows'["trace"]
<1>1. step = t
  BY DEF StoreCached, StoreFound, StoreCreated
<1>2. /\ TablesInv /\ DOMAIN ids = Cached /\ DOMAIN cache = Cached
      /\ Complete(R) /\ Complete(disk.rows)
      /\ CacheIn(R, cache) /\ IdsIn(R, step, ids)
  BY <1>1, StoringComplete
<1>3. ASSUME NEW i, Got(t, i), i \in DOMAIN Q[t], Complete(Q), CacheIn(Q, cache'),
             IdsIn(Q, step, ids)
      PROVE  CompleteInv'
  <2>1. ids' = [ids EXCEPT ![t] = i] /\ step' = After(t) /\ UNCHANGED disk
    BY <1>3 DEF Got
  <2>2. IdsIn(Q, t, ids)
    BY <1>1, <1>3
  <2>3. IdsIn(Q, After(t), [ids EXCEPT ![t] = i])
    <3> HIDE DEF Q
    <3> QED BY <1>2, <1>3, <2>2, GotIn
  <2> QED BY <1>2, <1>3, <2>1, <2>3 DEF CompleteInv
<1>4. CASE StoreCached(t)
  <2>1. /\ Key(t) \in DOMAIN cache[t] /\ Got(t, cache[t][Key(t)])
        /\ UNCHANGED <<rows, cache>>
    BY <1>4 DEF StoreCached
  <2>2. cache[t][Key(t)] \in DOMAIN Q[t]
    BY <1>2, <2>1 DEF CacheIn
  <2> QED BY <1>2, <1>3, <2>1, <2>2
<1>5. CASE StoreFound(t)
  <2>1. PICK i \in Selected(t, Row(t)) : Find(t, Key(t), Row(t), i) /\ Got(t, i)
    BY <1>5 DEF StoreFound
  <2>2. i \in DOMAIN R[t] /\ Remember(t, Key(t), i) /\ Q = R
    BY <2>1 DEF Find, Selected
  <2>3. CacheIn(R, cache')
    BY <1>2, <2>2, RememberIn
  <2> QED BY <1>2, <1>3, <2>1, <2>2, <2>3
<1>6. CASE StoreCreated(t)
  <2> DEFINE i == seq["trace"][t] + 1
  <2>1. AddRow(t, Row(t)) /\ Remember(t, Key(t), i) /\ Got(t, i) /\ t \in Tables
    BY <1>6 DEF StoreCreated, Create, Tables
  <2>2. Added(R, seq["trace"], Q, seq'["trace"], t, Row(t), i)
    BY <1>2, <2>1, AddRowAdds
  <2>3. RefsIn(R, t, Row(t))
    BY <1>1, <1>2, RowRefsIn
  <2> HIDE DEF R, Q, i
  <2>4. Complete(Q) /\ \A u \in Tables : DOMAIN R[u] \subseteq DOMAIN Q[u]
    BY <1>2, <2>1, <2>2, <2>3, AddedComplete
  <2>5. i \in DOMAIN Q[t]
    BY <2>2 DEF Added
  <2>6. CacheIn(Q, cache) /\ IdsIn(Q, step, ids)
    BY <1>2, <2>4, MoreIn
  <2>7. CacheIn(Q, cache')
    BY <1>2, <2>1, <2>5, <2>6, RememberIn
  <2> QED BY <1>3, <2>1, <2>4, <2>5, <2>6, <2>7
<1> QED BY <1>4, <1>5, <1>6

LEMMA RegisterComplete ==
  ASSUME FeedingInv, CompleteInv, ~trimmed, target = "trace", UNCHANGED trimmed, RegisterGroup
  PROVE  CompleteInv'
<1> DEFINE R == rows["trace"]
           Q == rows'["trace"]
<1>1. step = "group" /\ UNCHANGED <<disk, step, ids>>
  BY DEF RegisterGroup
<1>2. /\ TablesInv /\ DOMAIN cache = Cached /\ Complete(R) /\ Complete(disk.rows)
      /\ CacheIn(R, cache) /\ IdsIn(R, step, ids)
  BY <1>1, StoringComplete DEF Cached
<1>3. "group" \in Cached /\ "group" \in Tables
  BY DEF Tables, Cached
<1>4. PICK g : (\E i \in Selected("group", g) : Find("group", g, g, i)) \/ Create("group", g, g)
  BY DEF RegisterGroup
<1>5. ASSUME NEW i \in Selected("group", g), Find("group", g, g, i) PROVE CompleteInv'
  <2>1. i \in DOMAIN R["group"] /\ Remember("group", g, i) /\ Q = R
    BY <1>5 DEF Find, Selected
  <2>2. CacheIn(R, cache')
    BY <1>2, <1>3, <2>1, RememberIn
  <2> QED BY <1>1, <1>2, <2>1, <2>2 DEF CompleteInv
<1>6. CASE Create("group", g, g)
  <2> DEFINE i == seq["trace"]["group"] + 1
  <2>1. AddRow("group", g) /\ Remember("group", g, i)
    BY <1>1, <1>6 DEF Create
  <2>2. Added(R, seq["trace"], Q, seq'["trace"], "group", g, i)
    BY <1>2, <1>3, <2>1, AddRowAdds
  <2>3. RefsIn(R, "group", g)
    BY DEF RefsIn
  <2> HIDE DEF R, Q, i
  <2>4. Complete(Q) /\ \A u \in Tables : DOMAIN R[u] \subseteq DOMAIN Q[u]
    BY <1>2, <1>3, <2>2, <2>3, AddedComplete
  <2>5. i \in DOMAIN Q["group"]
    BY <2>2 DEF Added
  <2>6. CacheIn(Q, cache) /\ IdsIn(Q, step, ids)
    BY <1>2, <2>4, MoreIn
  <2>7. CacheIn(Q, cache')
    BY <1>2, <1>3, <2>1, <2>5, <2>6, RememberIn
  <2> QED BY <1>1, <1>2, <2>4, <2>6, <2>7 DEF CompleteInv, Q
<1> QED BY <1>4, <1>5, <1>6

LEMMA EntryComplete ==
  ASSUME FeedingInv, CompleteInv, ~trimmed, target = "trace", UNCHANGED trimmed,
         StoreTraceEntry
  PROVE  CompleteInv'
<1> DEFINE R == rows["trace"]
           Q == rows'["trace"]
           r == [thread |-> ids["thread"], point |-> ids["point"], message |-> entry.message]
           i == seq["trace"]["entry"] + 1
<1>1. step = "entry" /\ step' = "commit" /\ AddRow("entry", r) /\ UNCHANGED <<disk, cache>>
  BY DEF StoreTraceEntry
<1>2. /\ TablesInv /\ Complete(R) /\ Complete(disk.rows)
      /\ CacheIn(R, cache) /\ IdsIn(R, step, ids)
  BY <1>1, StoringComplete
<1>3. RefsIn(R, "entry", r)
  BY <1>1, <1>2 DEF IdsIn, RefsIn, Since, Cached
<1> HIDE DEF r
<1>4. Added(R, seq["trace"], Q, seq'["trace"], "entry", r, i)
  BY <1>1, <1>2, AddRowAdds DEF Tables
<1>5. IdsIn(Q, step', ids')
  BY <1>1 DEF IdsIn, Since, Cached
<1>6. Complete(Q) /\ CacheIn(Q, cache)
  <2> HIDE DEF R, Q, i
  <2>1. Complete(Q) /\ \A u \in Tables : DOMAIN R[u] \subseteq DOMAIN Q[u]
    BY <1>2, <1>3, <1>4, AddedComplete DEF Tables
  <2> QED BY <1>2, <2>1, MoreIn
<1> QED BY <1>1, <1>2, <1>5, <1>6 DEF CompleteInv

LEMMA CompletePreserved ==
  ASSUME Orderly, FeedingInv, ArchivesInv, CompleteInv, [Next]_vars
  PROVE  CompleteInv'
<1>0. TablesInv /\ FlowInv /\ target \in Databases
  BY DEF FeedingInv, FlowInv
<1>1. CASE trimmed' = TRUE
  BY <1>1 DEF CompleteInv
<1>2. CASE UNCHANGED vars
  BY <1>2 DEF vars, CompleteInv, CachesInUse, Pending
<1>3. CASE NukeDatabase /\ trimmed' = TRUE
  BY <1>1, <1>3
<1> SUFFICES ASSUME UNCHANGED trimmed, ~trimmed, Next PROVE CompleteInv'
  BY <1>1, <1>2, <1>3, TrimmedSteps
<1>4. Complete(rows["trace"]) /\ Complete(disk.rows)
  BY DEF CompleteInv
<1>5. CASE Looking
  <2>1. UNCHANGED <<rows, seq, disk>>
    BY <1>5, LookingKeeps
  <2>2. ASSUME NEW t \in Cached \ {"group"}, StoreCached(t) \/ StoreFound(t)
        PROVE  CompleteInv'
    <3>1. UNCHANGED target
      BY <2>2 DEF StoreCached, StoreFound, Got
    <3> QED BY <1>0, <2>1, <2>2, <3>1, StoreComplete, ArchiveComplete DEF Databases
  <2>3. CASE FetchGroup
    <3>1. /\ step = "group" /\ step' = "point" /\ UNCHANGED <<cache, target>>
          /\ \E i : ids' = [ids EXCEPT !["group"] = i]
      BY <2>3 DEF FetchGroup
    <3>2. CASE target = "archive"
      BY <1>0, <2>1, <3>1, <3>2, ArchiveComplete
    <3>3. CASE target = "trace"
      <4>1. IdsIn(rows["trace"], step, ids) /\ DOMAIN ids = Cached
        BY <3>1, <3>3, StoringComplete DEF Cached
      <4>2. \A u \in Cached \ {"group"} : ids'[u] = ids[u]
        BY <3>1, <4>1
      <4>3. IdsIn(rows["trace"], step', ids')
        BY <3>1, <4>1, <4>2 DEF IdsIn, Since, Cached
      <4>4. CachesInUse
        BY <3>1, <3>3 DEF CachesInUse, Cached
      <4> QED BY <2>1, <3>1, <4>3, <4>4, SameComplete
    <3> QED BY <1>0, <3>2, <3>3 DEF Databases
  <2>4. CASE OpenArchive \/ ArchiveNext \/ CloseArchive
    <3>1. step' \in {"next", "delete"} \/ target' = "archive"
      BY <2>4 DEF OpenArchive, ArchiveNext, CloseArchive
    <3>2. ~CachesInUse' /\ ~Pending'
      BY <3>1 DEF CachesInUse, Pending, Cached
    <3> QED BY <2>1, <3>2, SameComplete
  <2>5. ASSUME NEW e \in Entries, Receive(e) PROVE CompleteInv'
    <3>1. step = "idle" /\ step' = "path" /\ UNCHANGED <<cache, target>>
      BY <2>5 DEF Receive
    <3>2. CachesInUse' => CachesInUse
      BY <3>1 DEF CachesInUse
    <3> QED BY <2>1, <3>1, <3>2, FirstIdsIn, SameComplete
  <2> QED BY <1>5, <2>2, <2>3, <2>4, <2>5, NothingElseFails DEF Looking
<1>6. CASE Adding
  <2>1. ASSUME NEW t \in Cached \ {"group"}, StoreCreated(t) PROVE CompleteInv'
    <3>1. UNCHANGED <<disk, target>> /\ AddRow(t, Row(t))
      BY <2>1 DEF StoreCreated, Create, Got
    <3> QED BY <1>0, <2>1, <3>1, StoreComplete, ArchiveComplete DEF Databases
  <2>2. CASE StoreTraceEntry
    <3>1. UNCHANGED <<disk, target>> /\ \E r : AddRow("entry", r)
      BY <2>2 DEF StoreTraceEntry
    <3> QED BY <1>0, <2>2, <3>1, EntryComplete, ArchiveComplete DEF Databases
  <2> QED BY <1>6, <2>1, <2>2 DEF Adding
<1>7. CASE RegisterGroup
  <2>1. /\ UNCHANGED <<disk, target>>
        /\ (UNCHANGED <<rows, seq>>) \/ (\E g : AddRow("group", g))
    BY <1>7 DEF RegisterGroup, Find, Create
  <2> QED BY <1>0, <1>7, <2>1, RegisterComplete, ArchiveComplete DEF Databases
<1>8. CASE DatabaseFull \/ Crash
  <2>1. rows'["trace"] = disk.rows /\ UNCHANGED disk
    BY <1>0, <1>8, RollbackTables DEF DatabaseFull, Crash, Rollback
  <2>2. ~Pending' /\ (CachesInUse' => cache' = NoCache)
    BY <1>8 DEF DatabaseFull, Crash, Return, CachesInUse, Pending, Cached
  <2> QED BY <1>4, <2>1, <2>2, NoCacheIn DEF CompleteInv
<1>9. CASE Commit
  <2>1. /\ step = "commit" /\ UNCHANGED <<rows, cache>> /\ CommitTrace /\ step' = "idle"
    BY <1>9 DEF Commit, Return
  <2>2. CachesInUse /\ ~Pending'
    BY <1>0, <2>1 DEF FlowInv, Databases, CachesInUse, Pending, Cached
  <2>3. Complete(disk'.rows)
    BY <1>4, <2>1, CommittedComplete
  <2> QED BY <1>4, <2>1, <2>2, <2>3 DEF CompleteInv
<1>10. CASE DeleteArchived
  <2>1. cache' = NoCache /\ step' = "path" /\ CommitTrace
    BY <1>10 DEF DeleteArchived
  <2>2. Complete(rows'["trace"])
    BY <1>0, <1>4, <1>10, RemainingComplete
  <2>3. Complete(disk'.rows)
    BY <1>4, <2>1, <2>2, CommittedComplete
  <2> QED BY <2>1, <2>2, <2>3, NoCacheIn, FirstIdsIn DEF CompleteInv
<1>11. ASSUME NEW e \in Entries, HandleShutdownEvent(e) PROVE CompleteInv'
  <2>1. step = "idle" /\ CommitTrace /\ UNCHANGED <<cache, step, target>>
    BY <1>11 DEF HandleShutdownEvent
  <2>2. /\ Complete(rows'["trace"])
        /\ \A u \in Tables : DOMAIN rows["trace"][u] \subseteq DOMAIN rows'["trace"][u]
    BY <1>0, <1>4, <1>11, ShutdownComplete
  <2>3. Complete(disk'.rows)
    BY <1>4, <2>1, <2>2, CommittedComplete
  <2>4. ~Pending' /\ (CachesInUse' => CachesInUse)
    BY <2>1 DEF Pending, CachesInUse, Cached
  <2>5. CacheIn(rows["trace"], cache) => CacheIn(rows'["trace"], cache)
    BY <2>2, MoreIn
  <2> QED BY <2>1, <2>2, <2>3, <2>4, <2>5 DEF CompleteInv
\* The first trim is the end of it.
<1>12. CASE NukeDatabase /\ trimmed' = TRUE
  BY <1>1, <1>12
<1> QED BY <1>5, <1>6, <1>7, <1>8, <1>9, <1>10, <1>11, <1>12, StepKinds, NothingElseFails
      DEF Undoing

LEMMA CompleteSpec ==
  ASSUME Orderly
  PROVE  Spec => [](FeedingInv /\ ArchivesInv /\ CompleteInv)
<1>1. Init => ArchivesInv /\ CompleteInv
  <2> SUFFICES ASSUME Init PROVE ArchivesInv /\ CompleteInv
    OBVIOUS
  <2>1. archives = 1 .. 0
    BY DEF Init
  <2>2. Complete(NoRows)
    BY DEF Complete, NoRows, Tables, Cached
  <2>3. rows["trace"] = NoRows /\ disk.rows = NoRows /\ cache = NoCache /\ ~Pending
    BY DEF Init, Databases, Pending, Cached
  <2> QED BY <2>1, <2>2, <2>3, NoCacheIn DEF ArchivesInv, CompleteInv
<1>2. (FeedingInv /\ ArchivesInv /\ CompleteInv) /\ [Next]_vars
        => (FeedingInv /\ ArchivesInv /\ CompleteInv)'
  BY FeedingPreserved, ArchivesPreserved, CompletePreserved
<1> QED BY <1>1, <1>2, FeedingInit, PTL DEF Spec

LEMMA CompleteResolves == CompleteInv => RefsResolve
BY DEF CompleteInv, Complete, RefsResolve, Joined, Resolves, Ids

\* Until a GUI trims the database every stored trace entry can be read: all the
\* rows it refers to exist, after any number of crashes and archivings.
THEOREM FeederRefsResolve ==
  ASSUME Orderly
  PROVE  Spec => []RefsResolve
<1>1. FeedingInv /\ ArchivesInv /\ CompleteInv => RefsResolve
  BY CompleteResolves
<1> QED BY <1>1, CompleteSpec, PTL

-----------------------------------------------------------------------------
(* What is deleted was archived.                                           *)

\* The entries D of the rows R have copies of their own among the rows A.
Copied(D, R, A) ==
  \E f \in [D -> DOMAIN A] :
    /\ \A i, j \in D : f[i] = f[j] => i = j
    /\ \A i \in D : A[f[i]].message = R[i].message

\* What archiveEntries copies and then deletes, and of it what it has read.
ToDelete == Oldest(Ids("entry"), numCopy)
Done == ToDelete \ toArchive

Archived(D) == Copied(D, rows["trace"]["entry"], rows["archive"]["entry"])

\* The entry read last is in the archive only when it has been stored.
ArchivingInv ==
  ~trimmed =>
    /\ step = "next" \/ target = "archive" => toArchive \subseteq ToDelete
    /\ step \in {"next", "delete"} => Archived(Done)
    /\ target = "archive" /\ step # "next" =>
         \E c \in Done : /\ entry.message = rows["trace"]["entry"][c].message
                         /\ Archived(Done \ {c})

LEMMA NothingCopied ==
  ASSUME NEW D, D = {}, NEW R, NEW A
  PROVE  Copied(D, R, A)
<1> DEFINE f == [i \in D |-> i]
<1>1. f \in [D -> DOMAIN A]
  OBVIOUS
<1> QED BY <1>1 DEF Copied

\* One more copy, under a new id.
LEMMA OneMoreCopied ==
  ASSUME NEW D, NEW R, NEW A, NEW B, NEW c \in D, NEW n,
         Copied(D \ {c}, R, A), n \notin DOMAIN A, DOMAIN B = DOMAIN A \cup {n},
         \A j \in DOMAIN A : B[j] = A[j], B[n].message = R[c].message
  PROVE  Copied(D, R, B)
<1>1. PICK f \in [D \ {c} -> DOMAIN A] :
        /\ \A i, j \in D \ {c} : f[i] = f[j] => i = j
        /\ \A i \in D \ {c} : A[f[i]].message = R[i].message
  BY DEF Copied
<1> DEFINE g == [i \in D |-> IF i = c THEN n ELSE f[i]]
<1>2. g \in [D -> DOMAIN B]
  BY <1>1
<1>3. g[c] = n /\ \A i \in D \ {c} : g[i] = f[i] /\ f[i] \in DOMAIN A
  BY <1>1
<1> HIDE DEF g
<1>4. \A i, j \in D : g[i] = g[j] => i = j
  BY <1>1, <1>3
<1>5. \A i \in D : B[g[i]].message = R[i].message
  BY <1>1, <1>3
<1> QED BY <1>2, <1>4, <1>5 DEF Copied

\* Neither the trace database nor the entries of the archive change.
LEMMA SameArchived ==
  ASSUME rows'["trace"] = rows["trace"],
         rows'["archive"]["entry"] = rows["archive"]["entry"],
         UNCHANGED <<numCopy, toArchive>>
  PROVE  /\ ToDelete' = ToDelete /\ Done' = Done
         /\ \A D : Archived(D)' = Archived(D)
BY DEF ToDelete, Done, Archived, Ids, Oldest

LEMMA SameArchiving ==
  ASSUME ArchivingInv, UNCHANGED <<trimmed, target, entry, numCopy, toArchive>>,
         target = "archive" =>
           /\ rows'["trace"] = rows["trace"]
           /\ rows'["archive"]["entry"] = rows["archive"]["entry"],
         step \in Cached \cup {"entry"}, step' \in Cached \cup {"entry", "commit"}
  PROVE  ArchivingInv'
<1>1. step # "next" /\ step' \notin {"next", "delete"}
  BY DEF Cached
<1>2. CASE target = "archive"
  <2>1. /\ ToDelete' = ToDelete /\ Done' = Done
        /\ \A D : Archived(D)' = Archived(D)
    BY <1>2, SameArchived
  <2> QED BY <1>1, <1>2, <2>1 DEF ArchivingInv
<1>3. CASE target # "archive"
  BY <1>1, <1>3 DEF ArchivingInv
<1> QED BY <1>2, <1>3

\* Outside of the archiving there is nothing to say.
LEMMA NotArchiving ==
  ASSUME step' \notin {"next", "delete"}, target' # "archive"
  PROVE  ArchivingInv'
BY DEF ArchivingInv

\* A row added to another table leaves the archive's entries as they are.
LEMMA AddedElsewhere ==
  ASSUME TablesInv, target \in Databases, NEW t \in Cached, NEW r, AddRow(t, r)
  PROVE  target = "archive" =>
           /\ rows'["trace"] = rows["trace"]
           /\ rows'["archive"]["entry"] = rows["archive"]["entry"]
<1>1. t \in Tables /\ "entry" \in Tables \ {t}
  BY DEF Tables, Cached
<1>2. "trace" \in Databases \ {"archive"}
  BY DEF Databases
<1> QED BY <1>1, <1>2, OtherRows

LEMMA StoreArchivedEntry ==
  ASSUME TablesInv, ArchivingInv, ~trimmed, target = "archive", UNCHANGED trimmed,
         StoreTraceEntry
  PROVE  ArchivingInv'
<1> DEFINE R == rows["trace"]["entry"]
           A == rows["archive"]["entry"]
           B == rows'["archive"]["entry"]
           r == [thread |-> ids["thread"], point |-> ids["point"], message |-> entry.message]
           n == seq["archive"]["entry"] + 1
<1>1. /\ step = "entry" /\ step' = "next" /\ AddRow("entry", r)
      /\ UNCHANGED <<target, entry, numCopy, toArchive>>
  BY DEF StoreTraceEntry
<1>2. rows'["trace"] = rows["trace"]
  BY <1>1, ArchiveRowsApart
<1>3. ToDelete' = ToDelete /\ Done' = Done /\ toArchive \subseteq ToDelete
  BY <1>1, <1>2 DEF ToDelete, Done, Ids, Oldest, ArchivingInv
<1>4. PICK c \in Done : entry.message = R[c].message /\ Archived(Done \ {c})
  BY <1>1 DEF ArchivingInv
<1>5. n \notin DOMAIN A /\ DOMAIN B = DOMAIN A \cup {n} /\ B[n] = r
      /\ \A j \in DOMAIN A : B[j] = A[j]
  <2> DEFINE f == [j \in DOMAIN A \cup {n} |-> IF j = n THEN r ELSE A[j]]
  <2>1. rows' = [rows EXCEPT !["archive"] = [rows["archive"] EXCEPT !["entry"] = f]]
    BY <1>1 DEF AddRow
  <2>2. DOMAIN rows = Databases /\ DOMAIN rows["archive"] = Tables
    BY DEF TablesInv, Tidy, Databases
  <2>3. n \notin DOMAIN A
    BY IdIsNat DEF Databases, Tables
  <2> HIDE DEF f
  <2>4. B = f
    BY <2>1, <2>2 DEF Databases, Tables
  <2> QED BY <2>3, <2>4 DEF f
<1>6. r.message = entry.message
  OBVIOUS
<1> HIDE DEF r
<1>7. Copied(Done \ {c}, R, A)
  BY <1>4 DEF Archived
<1>8. Copied(Done, R, B)
  <2> HIDE DEF R, A, B, n
  <2>1. B[n].message = R[c].message
    BY <1>4, <1>5, <1>6
  <2> QED BY <1>5, <1>7, <2>1, OneMoreCopied
<1>9. Archived(Done)'
  BY <1>2, <1>3, <1>8 DEF Archived
<1> QED BY <1>1, <1>3, <1>9 DEF ArchivingInv

LEMMA ArchivingPreserved ==
  ASSUME Orderly, FeedingInv, ArchivesInv, CompleteInv, ArchivingInv, [Next]_vars
  PROVE  ArchivingInv'
<1>0. TablesInv /\ FlowInv /\ target \in Databases
  BY DEF FeedingInv, FlowInv
<1>1. CASE trimmed' = TRUE
  BY <1>1 DEF ArchivingInv
<1>2. CASE UNCHANGED vars
  <2>1. UNCHANGED <<rows, step, target, entry, numCopy, toArchive, trimmed>>
    BY <1>2 DEF vars
  <2>2. /\ ToDelete' = ToDelete /\ Done' = Done
        /\ \A D : Archived(D)' = Archived(D)
    BY <2>1, SameArchived
  <2> QED BY <2>1, <2>2 DEF ArchivingInv
<1> SUFFICES ASSUME UNCHANGED trimmed, ~trimmed, Next PROVE ArchivingInv'
  BY <1>1, <1>2, TrimmedSteps
<1>3. CASE Looking
  <2>1. UNCHANGED rows
    BY <1>3, LookingKeeps
  <2>2. ASSUME NEW t \in Cached \ {"group"}, StoreCached(t) \/ StoreFound(t)
        PROVE  ArchivingInv'
    <3>1. /\ UNCHANGED <<target, entry, numCopy, toArchive>>
          /\ step = t /\ step' = After(t)
      BY <2>2 DEF StoreCached, StoreFound, Got
    <3> QED BY <2>1, <3>1, AfterSteps, SameArchiving
  <2>3. CASE FetchGroup
    BY <2>1, <2>3, SameArchiving DEF FetchGroup, Cached
  <2>4. CASE OpenArchive
    <3>1. /\ step = "full" /\ step' = "next" /\ UNCHANGED target
          /\ toArchive' = Oldest({i \in Ids("entry") : Joined("trace", i)}, numCopy')
      BY <2>4 DEF OpenArchive
    <3>2. target = "trace"
      BY <1>0, <3>1 DEF FlowInv, Cached, Databases
    <3>3. RefsResolve
      BY CompleteResolves
    <3>4. {i \in Ids("entry") : Joined("trace", i)} = Ids("entry")
      BY <3>3 DEF RefsResolve
    <3>5. toArchive' = Oldest(Ids("entry"), numCopy') /\ Ids("entry")' = Ids("entry")
      BY <2>1, <3>1, <3>4 DEF Ids
    <3>6. toArchive' = ToDelete' /\ Done' = {}
      BY <3>5 DEF ToDelete, Done, Oldest
    <3>7. Archived(Done)'
      BY <3>6, NothingCopied DEF Archived
    <3> QED BY <3>1, <3>2, <3>6, <3>7 DEF ArchivingInv
  <2>5. CASE ArchiveNext
    <3>1. PICK i \in toArchive :
            entry' = ReadEntry("trace", i) /\ toArchive' = toArchive \ {i}
      BY <2>5 DEF ArchiveNext
    <3>2. step = "next" /\ step' = "path" /\ target' = "archive" /\ UNCHANGED numCopy
      BY <2>5 DEF ArchiveNext
    <3>3. toArchive \subseteq ToDelete /\ Archived(Done)
      BY <3>2 DEF ArchivingInv
    <3>4. ToDelete' = ToDelete /\ \A D : Archived(D)' = Archived(D)
      BY <2>1, <3>2 DEF ToDelete, Archived, Ids, Oldest
    <3>5. i \in Done' /\ Done' \ {i} = Done
      BY <3>1, <3>3, <3>4 DEF Done
    <3>6. entry'.message = rows'["trace"]["entry"][i].message
      BY <2>1, <3>1 DEF ReadEntry
    <3>7. Archived(Done \ {i})'
      BY <2>1, <3>3, <3>5 DEF Archived
    <3>8. toArchive' \subseteq ToDelete'
      BY <3>1, <3>3, <3>4
    <3> QED BY <3>2, <3>5, <3>6, <3>7, <3>8 DEF ArchivingInv, Cached
  <2>6. CASE CloseArchive
    <3>1. /\ step = "next" /\ step' = "delete" /\ target' = "trace"
          /\ UNCHANGED <<numCopy, toArchive>>
      BY <2>6 DEF CloseArchive
    <3>2. /\ ToDelete' = ToDelete /\ Done' = Done
          /\ \A D : Archived(D)' = Archived(D)
      BY <2>1, <3>1, SameArchived
    <3> QED BY <3>1, <3>2 DEF ArchivingInv
  <2>7. ASSUME NEW e \in Entries, Receive(e) PROVE ArchivingInv'
    <3>1. step = "idle" /\ step' = "path" /\ target' = target
      BY <2>7 DEF Receive
    <3>2. target # "archive"
      BY <1>0, <3>1 DEF FlowInv, Cached
    <3> QED BY <3>1, <3>2, NotArchiving
  <2> QED BY <1>3, <2>2, <2>3, <2>4, <2>5, <2>6, <2>7, NothingElseFails DEF Looking
<1>4. CASE Adding
  <2>1. ASSUME NEW t \in Cached \ {"group"}, StoreCreated(t) PROVE ArchivingInv'
    <3>1. /\ UNCHANGED <<target, entry, numCopy, toArchive>> /\ AddRow(t, Row(t))
          /\ step = t /\ step' = After(t)
      BY <2>1 DEF StoreCreated, Create, Got
    <3>2. target = "archive" =>
            /\ rows'["trace"] = rows["trace"]
            /\ rows'["archive"]["entry"] = rows["archive"]["entry"]
      BY <1>0, <3>1, AddedElsewhere
    <3> QED BY <3>1, <3>2, AfterSteps, SameArchiving
  <2>2. CASE StoreTraceEntry
    <3>1. CASE target = "archive"
      BY <1>0, <2>2, <3>1, StoreArchivedEntry
    <3>2. CASE target = "trace"
      BY <2>2, <3>2, NotArchiving DEF StoreTraceEntry
    <3> QED BY <1>0, <3>1, <3>2 DEF Databases
  <2> QED BY <1>4, <2>1, <2>2 DEF Adding
<1>5. CASE RegisterGroup
  <2>1. /\ UNCHANGED <<step, target, entry, numCopy, toArchive>> /\ step = "group"
        /\ (UNCHANGED <<rows, seq>>) \/ (\E g : AddRow("group", g))
    BY <1>5 DEF RegisterGroup, Find, Create
  <2>2. target = "archive" =>
          /\ rows'["trace"] = rows["trace"]
          /\ rows'["archive"]["entry"] = rows["archive"]["entry"]
    BY <1>0, <2>1, AddedElsewhere DEF Cached
  <2> QED BY <2>1, <2>2, SameArchiving DEF Cached
<1>6. CASE \/ DatabaseFull \/ Crash \/ Commit \/ DeleteArchived
           \/ NukeDatabase /\ trimmed' = TRUE
           \/ \E e \in Entries : HandleShutdownEvent(e)
  <2>1. CASE DatabaseFull
    BY <2>1, NotArchiving DEF DatabaseFull
  <2>2. CASE Crash \/ Commit
    BY <2>2, NotArchiving DEF Crash, Commit, Return
  <2>3. CASE DeleteArchived
    <3>1. step = "delete" /\ step' = "path" /\ target' = target
      BY <2>3 DEF DeleteArchived
    <3>2. target # "archive"
      BY <1>0, <3>1 DEF FlowInv, Cached
    <3> QED BY <3>1, <3>2, NotArchiving
  <2>4. ASSUME NEW e \in Entries, HandleShutdownEvent(e) PROVE ArchivingInv'
    <3>1. step = "idle" /\ step' = step /\ target' = target
      BY <2>4 DEF HandleShutdownEvent
    <3>2. target # "archive"
      BY <1>0, <3>1 DEF FlowInv, Cached
    <3> QED BY <3>1, <3>2, NotArchiving
  <2> QED BY <1>1, <1>6, <2>1, <2>2, <2>3, <2>4
<1> QED BY <1>3, <1>4, <1>5, <1>6, StepKinds, NothingElseFails DEF Undoing

LEMMA ArchivingSpec ==
  ASSUME Orderly
  PROVE  Spec => [](FeedingInv /\ ArchivesInv /\ CompleteInv /\ ArchivingInv)
<1>1. Init => ArchivingInv
  BY DEF Init, ArchivingInv
<1>2. (FeedingInv /\ ArchivesInv /\ CompleteInv) /\ ArchivingInv /\ [Next]_vars => ArchivingInv'
  BY ArchivingPreserved
<1> QED BY <1>1, <1>2, CompleteSpec, PTL DEF Spec

\* The rows R[i], i \in D, with message m.
Saying(D, R, m) == {i \in D : R[i].message = m}

\* As many copies as originals, message by message.
LEMMA CopiedCount ==
  ASSUME NEW D, NEW R, NEW A, Copied(D, R, A), IsFiniteSet(DOMAIN A), NEW m
  PROVE  Cardinality(Saying(D, R, m)) <= Cardinality(Saying(DOMAIN A, A, m))
<1> DEFINE X == {i \in D : R[i].message = m}
           Y == {j \in DOMAIN A : A[j].message = m}
<1>1. PICK f \in [D -> DOMAIN A] :
        /\ \A i, j \in D : f[i] = f[j] => i = j
        /\ \A i \in D : A[f[i]].message = R[i].message
  BY DEF Copied
<1> DEFINE g == [i \in X |-> f[i]]
<1>2. g \in [X -> Y]
  BY <1>1
<1>3. \A i, j \in X : g[i] = g[j] => i = j
  BY <1>1
<1>4. g \in Injection(X, Y)
  BY <1>2, <1>3 DEF Injection, IsInjective
<1>5. IsFiniteSet(Y)
  BY FS_Subset
<1> HIDE DEF X, Y, g
<1>6. Cardinality(X) <= Cardinality(Y)
  BY <1>4, <1>5, FS_Injection
<1> QED BY <1>6 DEF X, Y, Saying

\* Until a GUI trims the database, an entry that archiveEntries deletes has a
\* copy in the archive, which is complete by then.
THEOREM FeederArchives ==
  ASSUME Orderly
  PROVE  Spec => ArchivedBeforeDeleted
<1> DEFINE Deletes(e) == {i \in Ids("entry") \ Ids("entry")' :
                            rows["trace"]["entry"][i].message = e.message}
           Copies(e) == {i \in DOMAIN rows["archive"]["entry"] :
                            rows["archive"]["entry"][i].message = e.message}
<1>1. FeedingInv /\ ArchivesInv /\ CompleteInv /\ ArchivingInv /\ [Next]_vars
        => [step = "delete" /\ ~trimmed =>
              \A e \in Entries :
                Cardinality(Deletes(e)) <= Cardinality(Copies(e)) \/ step' = "idle"]_vars
  <2> SUFFICES ASSUME FeedingInv, ArchivesInv, CompleteInv, ArchivingInv, Next,
                      step = "delete", ~trimmed, step' # "idle", NEW e \in Entries
               PROVE  Cardinality(Deletes(e)) <= Cardinality(Copies(e))
    OBVIOUS
  <2>1. TablesInv /\ FlowInv
    BY DEF FeedingInv
  <2>2. DeleteArchived
    BY Orderly, StepKinds, NothingElseFails, AfterSteps
      DEF Looking, StoreCached, StoreFound, FetchGroup, OpenArchive, ArchiveNext, CloseArchive,
          Receive, Adding, StoreCreated, StoreTraceEntry, RegisterGroup, Undoing,
          DatabaseFull, Inserting, Crash, Return, Commit, HandleShutdownEvent, NukeDatabase,
          Cached
  <2>3. rows'["trace"] = Remaining(ToDelete)
    BY <2>1, <2>2, DeleteArchivedTables DEF ToDelete
  <2>4. DOMAIN rows'["trace"]["entry"] = Ids("entry") \ ToDelete
    BY <2>1, <2>3, TraceTidy, RemainingRows DEF Tidy
  <2>5. Ids("entry") \ Ids("entry")' = ToDelete
    BY <2>4 DEF Ids, ToDelete, Oldest
  <2>6. toArchive = {}
    BY <2>1 DEF FlowInv, Cached
  <2>7. Copied(ToDelete, rows["trace"]["entry"], rows["archive"]["entry"])
    BY <2>6 DEF ArchivingInv, Done, Archived
  <2>8. IsFiniteSet(DOMAIN rows["archive"]["entry"])
    <3>1. /\ DOMAIN rows["archive"]["entry"] \subseteq 1 .. seq["archive"]["entry"]
          /\ seq["archive"]["entry"] \in Nat
      BY <2>1, IdIsNat DEF Databases, Tables
    <3>2. IsFiniteSet(1 .. seq["archive"]["entry"])
      BY <3>1, FS_Interval
    <3> QED BY <3>1, <3>2, FS_Subset
  <2> DEFINE R == rows["trace"]["entry"]
             A == rows["archive"]["entry"]
             m == e.message
  <2>9. Copied(ToDelete, R, A) /\ IsFiniteSet(DOMAIN A)
    BY <2>7, <2>8
  <2>10. Deletes(e) = Saying(ToDelete, R, m)
    BY <2>5 DEF Saying
  <2>11. Copies(e) = Saying(DOMAIN A, A, m)
    BY DEF Saying
  <2> HIDE DEF R, A, m, Deletes, Copies
  <2>12. Cardinality(Saying(ToDelete, R, m)) <= Cardinality(Saying(DOMAIN A, A, m))
    BY <2>9, CopiedCount
  <2> QED BY <2>10, <2>11, <2>12
<1> QED BY <1>1, ArchivingSpec, PTL DEF Spec, ArchivedBeforeDeleted
==============================================================================
