------------------------------- MODULE Feeder -------------------------------
(***************************************************************************)
(* The trace daemon's database feeder (server/databasefeeder.cpp over the  *)
(* transactions and the schema of server/database.cpp).                    *)
(*                                                                         *)
(* A trace entry is stored by a chain of fetch-or-create calls, each of    *)
(* which answers from a cache, from a SELECT or with the id of a row it    *)
(* inserts; the trace_entry row then refers to the ids collected.  A       *)
(* statement that fails rolls the transaction back.  If it failed because  *)
(* the database is full, the oldest entries are copied to an archive       *)
(* database and deleted, and the entry is stored again.                    *)
(*                                                                         *)
(* The caches are global: the same ones serve the trace database and the   *)
(* archive database, and neither a rollback nor trimTo touches them.  They *)
(* are modelled by their contract, LossyCache.  Rows of "variable" and     *)
(* "stackframe" live and die with their trace_entry and are part of it;    *)
(* type and line of a trace point are part of its function.                *)
(***************************************************************************)
EXTENDS Naturals, FiniteSets, Sequences, Functions

CONSTANTS
  Entries,      \* the trace entries the traced applications send
  NoGroup,      \* groupName of an entry without a group: a null string
  ShrinkBy,     \* m_shrinkBy as clamped by applyStorageConfiguration
  Capacity,     \* number of rows that fit into max_page_count pages
  MaxEntries,   \* bound: number of entries the daemon receives
  MaxBusy,      \* bound: COMMITs fail only up to this number of entries
  MaxArchives,  \* bound: archive files that are told apart by their number
  Hazards       \* what the environment does: a subset of HazardKinds

HazardKinds == {"crash", "nuke", "busy", "error", "unlink"}

ASSUME ShrinkByAssumption == ShrinkBy \in 1 .. 100
ASSUME CapacityAssumption == Capacity \in Nat
ASSUME HazardsAssumption == Hazards \subseteq HazardKinds
ASSUME BoundsAssumption == MaxEntries \in Nat /\ MaxArchives \in Nat

\* The fields of a TraceEntry that the tables hold.
Fields == {"path", "function", "name", "pid", "start", "tid", "group", "message",
           "keys"}

ASSUME EntriesAssumption ==
  \A e \in Entries : e = [f \in Fields |-> e[f]]

VARIABLES
  rows,         \* the tables of both databases: id -> row
  seq,          \* sqlite_sequence: the last id handed out in each table
  disk,         \* the trace database as of the last COMMIT
  cache,        \* the five StorageCaches and traceKeyCache: key -> id
  step,         \* the statement the daemon executes next
  target,       \* the database storeEntry was called with
  entry,        \* the entry storeEntry was called with
  ids,          \* the ids storeEntry has collected in its locals
  received,     \* the entry handleTraceEntry was called with
  toArchive,    \* ids the archiving SELECT has still to yield, lowest first
  numCopy,      \* number of entries to archive
  archives,     \* numbers of the files in the archive directory
  count,        \* number of entries received so far
  trimmed       \* history: the database was trimmed

vars == <<rows, seq, disk, cache, step, target, entry, ids, received,
          toArchive, numCopy, archives, count, trimmed>>

Databases == {"trace", "archive"}
Cached == {"path", "function", "process", "thread", "group", "point"}
Tables == Cached \cup {"entry"}
Steps == Cached \cup {"idle", "entry", "commit", "full", "next", "delete"}

NoRows == [t \in Tables |-> [i \in {} |-> i]]
NoSeq == [t \in Tables |-> 0]
NoCache == [t \in Cached |-> [k \in {} |-> k]]
NoIds == [t \in Cached |-> 0]
NoEntry == [path |-> NoGroup]

Init ==
  /\ rows = [d \in Databases |-> NoRows]
  /\ seq = [d \in Databases |-> NoSeq]
  /\ disk = [rows |-> NoRows, seq |-> NoSeq]
  /\ cache = NoCache
  /\ step = "idle"
  /\ target = "trace"
  /\ entry = NoEntry /\ received = NoEntry
  /\ ids = NoIds
  /\ toArchive = {} /\ numCopy = 0
  /\ archives = {}
  /\ count = 0 /\ trimmed = FALSE

-----------------------------------------------------------------------------
(* Reading the tables.                                                     *)

Ids(t) == DOMAIN rows["trace"][t]

\* The row the foreign key i refers to exists.
Resolves(d, t, i) == i \in DOMAIN rows[d][t]

\* The joins of the SELECTs by which the archiving and the GUI read an entry.
Joined(d, i) ==
  LET R == rows[d]
      e == R["entry"][i]
  IN  /\ Resolves(d, "thread", e.thread)
      /\ Resolves(d, "process", R["thread"][e.thread].process)
      /\ Resolves(d, "point", e.point)
      /\ Resolves(d, "path", R["point"][e.point].path)
      /\ Resolves(d, "function", R["point"][e.point].function)

\* The entry those SELECTs put together; the group is looked up separately,
\* and the names of all trace keys are not part of the result.
ReadEntry(d, i) ==
  LET R == rows[d]
      e == R["entry"][i]
      thread == R["thread"][e.thread]
      process == R["process"][thread.process]
      point == R["point"][e.point]
  IN  [path |-> R["path"][point.path],
       function |-> R["function"][point.function],
       name |-> process.name, pid |-> process.pid, start |-> process.start,
       tid |-> thread.tid,
       group |-> IF Resolves(d, "group", point.group)
                   THEN R["group"][point.group] ELSE NoGroup,
       message |-> e.message,
       keys |-> {}]

\* What of an entry an archive can hold.
Content(e) == [e EXCEPT !.keys = {}]

\* "ORDER BY id LIMIT n"
Oldest(S, n) == {i \in S : Cardinality({j \in S : j < i}) < n}

\* max_page_count is reached: no row can be added to the trace database.
Full ==
  Cardinality(UNION {{t} \X Ids(t) : t \in Tables}) >= Capacity

-----------------------------------------------------------------------------
(* One fetch-or-create call.                                               *)

\* The row an entry needs in table t, and the key of its cache.
Row(t) ==
  CASE t = "path" -> entry.path
    [] t = "function" -> entry.function
    [] t = "process" -> [name |-> entry.name, pid |-> entry.pid,
                         start |-> entry.start, ended |-> FALSE]
    [] t = "thread" -> [process |-> ids["process"], tid |-> entry.tid]
    [] t = "point" -> [path |-> ids["path"], function |-> ids["function"],
                       group |-> ids["group"]]

Key(t) == IF t = "process" THEN <<entry.name, entry.pid>> ELSE Row(t)

\* Mutant: a process that ended is not found.
SelectsRunning(t, r, s) ==
  IF t = "process" THEN r.pid = s.pid /\ r.start = s.start /\ ~r.ended ELSE r = s

\* Row r is found by the SELECT that looks for row s.
Selects(t, r, s) ==
  IF t = "process" THEN r.pid = s.pid /\ r.start = s.start ELSE r = s

\* Rows r and s cannot both be in table t: the UNIQUE clauses of the schema.
Clash(t, r, s) ==
  IF t = "process" THEN r.name = s.name /\ r.pid = s.pid ELSE r = s

Selected(t, s) == {i \in DOMAIN rows[target][t] : Selects(t, rows[target][t][i], s)}

Clashes(t, s) == \E i \in DOMAIN rows[target][t] : Clash(t, rows[target][t][i], s)

\* A StorageCache may forget anything when it stores the id i under the key k
\* (LossyCache!LossyInsert); traceKeyCache is a map and forgets nothing.
Remember(t, k, i) ==
  \E kept \in SUBSET (DOMAIN cache[t] \cup {k}) :
    /\ t = "group" => kept = DOMAIN cache[t] \cup {k}
    /\ cache' = [cache EXCEPT ![t] =
                   [x \in kept |-> IF x = k THEN i ELSE cache[t][x]]]

AddRow(t, r) ==
  LET i == seq[target][t] + 1
  IN  /\ seq' = [seq EXCEPT ![target][t] = i]
      /\ rows' = [rows EXCEPT ![target][t] =
                    [j \in DOMAIN rows[target][t] \cup {i} |->
                       IF j = i THEN r ELSE rows[target][t][j]]]

\* The SELECT finds the row: its id is cached.
Find(t, k, r, i) ==
  /\ i \in Selected(t, r)
  /\ Remember(t, k, i)
  /\ UNCHANGED <<rows, seq>>

\* There is no such row: it is inserted and its id cached.
Create(t, k, r) ==
  /\ Selected(t, r) = {}
  /\ target = "trace" => ~Full
  /\ ~Clashes(t, r)
  /\ AddRow(t, r)
  /\ Remember(t, k, seq[target][t] + 1)

After(t) ==
  CASE t = "path" -> "function"
    [] t = "function" -> "process"
    [] t = "process" -> "thread"
    [] t = "thread" -> "group"
    [] t = "point" -> "entry"

Got(t, i) ==
  /\ ids' = [ids EXCEPT ![t] = i]
  /\ step' = After(t)
  /\ UNCHANGED <<disk, target, entry, received, toArchive, numCopy, archives, count>>

\* PathCache::store, FunctionCache::store, ... TracePointCache::store.
StoreCached(t) ==
  /\ step = t
  /\ Key(t) \in DOMAIN cache[t]
  /\ Got(t, cache[t][Key(t)])
  /\ UNCHANGED <<rows, seq, cache>>

StoreFound(t) ==
  /\ step = t
  /\ Key(t) \notin DOMAIN cache[t]
  /\ \E i \in Selected(t, Row(t)) : Find(t, Key(t), Row(t), i) /\ Got(t, i)

StoreCreated(t) ==
  /\ step = t
  /\ Key(t) \notin DOMAIN cache[t]
  /\ Create(t, Key(t), Row(t))
  /\ Got(t, seq[target][t] + 1)

\* The trace key names storeGroup registers that traceKeyCache does not have.
Unregistered ==
  (entry.keys \cup ({entry.group} \ {NoGroup})) \ DOMAIN cache["group"]

\* TraceKeyCache::update, one name; getGroupId.
RegisterGroup ==
  /\ step = "group"
  /\ \E g \in Unregistered :
       \/ \E i \in Selected("group", g) : Find("group", g, g, i)
       \/ Create("group", g, g)
  /\ UNCHANGED <<disk, step, target, entry, ids, received, toArchive, numCopy,
                 archives, count>>

\* The end of storeGroup; an entry without a group gets the id 0.
FetchGroup ==
  /\ step = "group"
  /\ Unregistered = {}
  /\ ids' = [ids EXCEPT !["group"] =
               IF entry.group = NoGroup THEN 0 ELSE cache["group"][entry.group]]
  /\ step' = "point"
  /\ UNCHANGED <<rows, seq, disk, cache, target, entry, received, toArchive,
                 numCopy, archives, count>>

\* storeTraceEntry, storeVariables and storeBacktrace: the end of storeEntry.
StoreTraceEntry ==
  /\ step = "entry"
  /\ target = "trace" => ~Full
  /\ AddRow("entry", [thread |-> ids["thread"], point |-> ids["point"],
                      message |-> entry.message])
  /\ step' = IF target = "trace" THEN "commit" ELSE "next"
  /\ UNCHANGED <<disk, cache, target, entry, ids, received, toArchive, numCopy,
                 archives, count>>

\* ~Transaction: a COMMIT that fails because a reader holds a lock is ignored,
\* and the transaction stays open (the next BEGIN fails and is ignored too).
CommitTrace ==
  \/ disk' = [rows |-> rows'["trace"], seq |-> seq'["trace"]]
  \/ "busy" \in Hazards /\ count <= MaxBusy /\ UNCHANGED disk

-----------------------------------------------------------------------------
(* handleTraceEntry and archiveEntries.                                    *)

Locals == <<entry, ids, received, toArchive, numCopy>>

\* The daemon waits for data; the locals of handleTraceEntry are gone.
Return ==
  /\ step' = "idle"
  /\ target' = "trace"
  /\ entry' = NoEntry /\ received' = NoEntry
  /\ ids' = NoIds
  /\ toArchive' = {} /\ numCopy' = 0

\* The trace entry is handed to the feeder.
Receive(e) ==
  /\ step = "idle"
  /\ count < MaxEntries
  /\ received' = e
  /\ entry' = e
  /\ step' = "path"
  /\ count' = count + 1
  /\ UNCHANGED <<rows, seq, disk, cache, target, ids, toArchive, numCopy, archives>>

\* Mutant: the transaction of the entry is left open.
CommitForgotten ==
  /\ step = "commit"
  /\ Return
  /\ UNCHANGED <<rows, seq, disk, cache, archives, count>>

Commit ==
  /\ step = "commit"
  /\ UNCHANGED <<rows, seq, cache, archives, count>>
  /\ CommitTrace
  /\ Return

\* Mutant: m_commitChanges = false is executed, the ROLLBACK is not.
RollbackOmitted == UNCHANGED <<rows, seq, disk, cache>>

\* Everything since the last COMMIT is undone, in the cached ids nothing is.
Rollback ==
  /\ rows' = [rows EXCEPT !["trace"] = disk.rows, !["archive"] = NoRows]
  /\ seq' = [seq EXCEPT !["trace"] = disk.seq, !["archive"] = NoSeq]
  /\ UNCHANGED <<disk, cache>>

\* The statement to be executed is a SELECT or an INSERT ...
Executing ==
  \/ step \in Cached \ {"group"} /\ Key(step) \notin DOMAIN cache[step]
  \/ step = "group" /\ Unregistered # {}
  \/ step = "entry"

\* ... or after a SELECT without result an INSERT.
Inserting ==
  \/ /\ step \in Cached \ {"group"}
     /\ Key(step) \notin DOMAIN cache[step]
     /\ Selected(step, Row(step)) = {}
  \/ step = "group" /\ \E g \in Unregistered : Selected("group", g) = {}
  \/ step = "entry"

\* The INSERT violates a UNIQUE clause of the schema.
Clashing ==
  /\ step \in Cached \ {"group"}
  /\ Inserting
  /\ Clashes(step, Row(step))

\* SQLITE_FULL: handleTraceEntry goes on to archive.
DatabaseFull ==
  /\ Inserting
  /\ target = "trace" /\ Full
  /\ step' = "full"
  /\ Rollback
  /\ UNCHANGED <<target, archives, count>> /\ UNCHANGED Locals

\* Any other error, while an entry is stored or archived: the exception leaves
\* handleTraceEntry and is logged by Server::handleIncomingData.
StatementFails ==
  /\ Executing
  /\ Clashing \/ "error" \in Hazards
  /\ Rollback
  /\ Return
  /\ UNCHANGED <<archives, count>>

\* archiveFileName: the number of files there are, plus one.
NextArchive == Cardinality(archives) + 1

\* Mutant: integer division instead of ROUND.
RoundedDown(n) == (n * ShrinkBy) \div 100

Rounded(n) == (n * ShrinkBy + 50) \div 100

\* Count, name and create the archive database, run the SELECT.
OpenArchive ==
  /\ step = "full"
  /\ NextArchive \notin archives
  /\ archives' = IF NextArchive <= MaxArchives
                   THEN archives \cup {NextArchive} ELSE archives
  /\ numCopy' = Rounded(Cardinality(Ids("entry")))
  /\ toArchive' = Oldest({i \in Ids("entry") : Joined("trace", i)}, numCopy')
  /\ step' = "next"
  /\ UNCHANGED <<rows, seq, disk, cache, target, entry, ids, received, count>>

\* Database::create finds the tables of an earlier archive and fails, or the
\* directory cannot be made, or the SELECT does not work.
OpenArchiveFails ==
  /\ step = "full"
  /\ NextArchive \in archives \/ "error" \in Hazards
  /\ Return
  /\ UNCHANGED <<rows, seq, disk, cache, archives, count>>

\* The next row of the SELECT is stored in the archive.
ArchiveNext ==
  /\ step = "next"
  /\ \E i \in toArchive :
       /\ \A j \in toArchive : i <= j
       /\ entry' = ReadEntry("trace", i)
       /\ toArchive' = toArchive \ {i}
  /\ target' = "archive"
  /\ ids' = NoIds
  /\ step' = "path"
  /\ UNCHANGED <<rows, seq, disk, cache, received, numCopy, archives, count>>

\* ~Transaction of the archive database: its file is complete.
CloseArchive ==
  /\ step = "next"
  /\ toArchive = {}
  /\ target' = "trace"
  /\ step' = "delete"
  /\ UNCHANGED <<rows, seq, disk, cache, entry, ids, received, toArchive,
                 numCopy, archives, count>>

Without(t, used, R) == [R EXCEPT ![t] = Restrict(R[t], DOMAIN R[t] \cap used)]

\* The rows that are left when the entries gone are deleted, and after them,
\* table by table, whatever the remaining rows do not refer to.
Remaining(gone) ==
  LET R0 == rows["trace"]
      R1 == Without("entry", Ids("entry") \ gone, R0)
      R2 == Without("point", {r.point : r \in Range(R1["entry"])}, R1)
      R3 == Without("function", {r.function : r \in Range(R2["point"])}, R2)
      R4 == Without("path", {r.path : r \in Range(R3["point"])}, R3)
      R5 == Without("group", {r.group : r \in Range(R4["point"])}, R4)
      R6 == Without("thread", {r.thread : r \in Range(R5["entry"])}, R5)
  IN  Without("process", {r.process : r \in Range(R6["thread"])}, R6)

\* Mutant: tracePointCache.clear() is missing.
DeleteArchivedKeepsPoints ==
  /\ step = "delete"
  /\ rows' = [rows EXCEPT !["trace"] = Remaining(Oldest(Ids("entry"), numCopy)),
                          !["archive"] = NoRows]
  /\ seq' = [seq EXCEPT !["archive"] = NoSeq]
  /\ cache' = [NoCache EXCEPT !["point"] = cache["point"]]
  /\ CommitTrace
  /\ entry' = received
  /\ ids' = NoIds
  /\ numCopy' = 0
  /\ step' = "path"
  /\ UNCHANGED <<target, received, toArchive, archives, count>>

\* Mutant: one entry more is deleted than was copied.
DeleteArchivedOneMore ==
  /\ step = "delete"
  /\ rows' = [rows EXCEPT !["trace"] = Remaining(Oldest(Ids("entry"), numCopy + 1)),
                          !["archive"] = NoRows]
  /\ seq' = [seq EXCEPT !["archive"] = NoSeq]
  /\ cache' = NoCache
  /\ CommitTrace
  /\ entry' = received
  /\ ids' = NoIds
  /\ numCopy' = 0
  /\ step' = "path"
  /\ UNCHANGED <<target, received, toArchive, archives, count>>

\* The end of archiveEntries: one transaction, all caches cleared; then the
\* entry is stored again.
DeleteArchived ==
  /\ step = "delete"
  /\ rows' = [rows EXCEPT !["trace"] = Remaining(Oldest(Ids("entry"), numCopy)),
                          !["archive"] = NoRows]
  /\ seq' = [seq EXCEPT !["archive"] = NoSeq]
  /\ cache' = NoCache
  /\ CommitTrace
  /\ entry' = received
  /\ ids' = NoIds
  /\ numCopy' = 0
  /\ step' = "path"
  /\ UNCHANGED <<target, received, toArchive, archives, count>>

\* The order in which the caches are cleared, each after its table's DELETE.
ClearOrder == <<"point", "function", "path", "group", "thread", "process">>

\* A DELETE fails: the rows are back, the caches cleared so far stay empty.
DeleteFails ==
  /\ "error" \in Hazards
  /\ step = "delete"
  /\ rows' = [rows EXCEPT !["trace"] = disk.rows, !["archive"] = NoRows]
  /\ seq' = [seq EXCEPT !["trace"] = disk.seq, !["archive"] = NoSeq]
  /\ \E n \in 0 .. Len(ClearOrder) :
       cache' = [t \in Cached |-> IF t \in {ClearOrder[k] : k \in 1 .. n}
                                    THEN NoCache[t] ELSE cache[t]]
  /\ Return
  /\ UNCHANGED <<disk, archives, count>>

-----------------------------------------------------------------------------
(* The other requests of the daemon's event loop, and its environment.     *)

\* handleShutdownEvent: UPDATE process SET end_time.
HandleShutdownEvent(e) ==
  /\ step = "idle"
  /\ rows' = [rows EXCEPT !["trace"]["process"] =
                [i \in DOMAIN @ |-> IF @[i].pid = e.pid /\ @[i].start = e.start
                                      THEN [@[i] EXCEPT !.ended = TRUE]
                                      ELSE @[i]]]
  /\ UNCHANGED <<seq, cache, step, target, archives, count>> /\ UNCHANGED Locals
  /\ CommitTrace

\* Mutant: "DELETE FROM sqlite_sequence" without its WHERE.
NukeResetsAllIds ==
  /\ "nuke" \in Hazards
  /\ step = "idle"
  /\ rows' = [rows EXCEPT !["trace"] =
                [NoRows EXCEPT !["group"] = rows["trace"]["group"]]]
  /\ seq' = [seq EXCEPT !["trace"] = NoSeq]
  /\ CommitTrace
  /\ UNCHANGED <<cache, step, target, archives, count>> /\ UNCHANGED Locals

\* Database::trimTo(0): every table but trace_point_group is emptied, and only
\* the ids of trace_entry start from 1 again.
NukeDatabase ==
  /\ "nuke" \in Hazards
  /\ step = "idle"
  /\ rows' = [rows EXCEPT !["trace"] =
                [NoRows EXCEPT !["group"] = rows["trace"]["group"]]]
  /\ seq' = [seq EXCEPT !["trace"]["entry"] = 0]
  /\ CommitTrace
  /\ UNCHANGED <<cache, step, target, archives, count>> /\ UNCHANGED Locals

\* The one statement of a shutdown event, or one of trimTo, fails.
RequestFails ==
  /\ "error" \in Hazards
  /\ step = "idle"
  /\ Rollback
  /\ UNCHANGED <<step, target, archives, count>> /\ UNCHANGED Locals

\* The daemon dies and is started again on the same file.
Crash ==
  /\ "crash" \in Hazards
  /\ rows' = [rows EXCEPT !["trace"] = disk.rows, !["archive"] = NoRows]
  /\ seq' = [seq EXCEPT !["trace"] = disk.seq, !["archive"] = NoSeq]
  /\ cache' = NoCache
  /\ Return
  /\ UNCHANGED <<disk, archives, count>>

\* Somebody moves an archive file elsewhere.
UnlinkArchive(n) ==
  /\ "unlink" \in Hazards
  /\ archives' = archives \ {n}
  /\ UNCHANGED <<rows, seq, disk, cache, step, target, count>> /\ UNCHANGED Locals

Storing ==
  \/ \E t \in Cached \ {"group"} : StoreCached(t) \/ StoreFound(t) \/ StoreCreated(t)
  \/ RegisterGroup
  \/ FetchGroup
  \/ StoreTraceEntry

Archiving == OpenArchive \/ OpenArchiveFails \/ ArchiveNext \/ CloseArchive
             \/ DeleteArchived \/ DeleteFails

Handling ==
  /\ Storing \/ Commit \/ DatabaseFull \/ StatementFails \/ Archiving
  /\ UNCHANGED trimmed

Other ==
  \/ \E e \in Entries : Receive(e) \/ HandleShutdownEvent(e)
  \/ RequestFails
  \/ Crash
  \/ \E n \in archives : UnlinkArchive(n)

Next ==
  \/ Handling
  \/ Other /\ UNCHANGED trimmed
  \/ NukeDatabase /\ trimmed' = TRUE

\* The daemon is single threaded and never waits while it handles an entry.
Spec == Init /\ [][Next]_vars /\ WF_vars(Handling)

-----------------------------------------------------------------------------
(* Properties.                                                             *)

\* The variables are of their types; no table has an id beyond its sequence.
FeederTypeOK ==
  /\ \A d \in Databases, t \in Tables : DOMAIN rows[d][t] \subseteq 1 .. seq[d][t]
  /\ \A t \in Tables : DOMAIN disk.rows[t] \subseteq 1 .. disk.seq[t]
  /\ step \in Steps /\ target \in Databases
  /\ received \in Entries \cup {NoEntry}
  /\ ids \in [Cached -> Nat]
  /\ toArchive \subseteq Nat /\ numCopy \in Nat
  /\ archives \subseteq 1 .. MaxArchives
  /\ count \in 0 .. MaxEntries /\ trimmed \in BOOLEAN

\* Whatever a stored trace entry is joined with is what its application sent:
\* a cached or a collected id never comes to mean another row.
Attributed ==
  \A i \in Ids("entry"), e \in Entries :
    rows["trace"]["entry"][i].message = e.message /\ Joined("trace", i)
      => ReadEntry("trace", i) = Content(e)

\* Every stored trace entry can be read back, at least until a GUI trims the
\* database: all rows it refers to exist, so the joins of the GUI and of the
\* archiving miss none.
RefsResolve == trimmed \/ \A i \in Ids("entry") : Joined("trace", i)

\* The SELECT of processes asks for pid and start time, the UNIQUE clause is
\* about name and pid.  An INSERT fails on a UNIQUE clause only for a process
\* sent while the table has an earlier one of its name and pid, sent with
\* another start time; it never fails while entries are archived, as the rows of
\* the archive come from a table that satisfies the clause itself.
ClashIsReuse ==
  Clashing =>
    /\ step = "process" /\ target = "trace"
    /\ \A i \in Ids("process") :
         LET r == rows["trace"]["process"][i]
         IN  r.name = entry.name /\ r.pid = entry.pid =>
               /\ r.start # entry.start
               /\ \E e \in Entries : e.name = r.name /\ e.pid = r.pid /\ e.start = r.start

\* The tables are in a state the schema allows, whatever failed or crashed
\* before, and only a process id that is used again makes them refuse an entry.
FeederInv == FeederTypeOK /\ ClashIsReuse

\* A trace entry is deleted by archiving only if the archive database, already
\* committed by then, has an entry for it, again until the database is trimmed:
\* entries that cannot be read are deleted without being archived.
ArchivedBeforeDeleted ==
  [][step = "delete" /\ ~trimmed =>
       \A e \in Entries :
         Cardinality({i \in Ids("entry") \ Ids("entry")' :
                        rows["trace"]["entry"][i].message = e.message})
           <= Cardinality({i \in DOMAIN rows["archive"]["entry"] :
                        rows["archive"]["entry"][i].message = e.message})
       \/ step' = "idle"]_vars

\* While the daemon waits for data nothing it did is pending: a crash loses no
\* entry that was handled, and the next entry starts from what is on disk.
IdleIsDurable ==
  step = "idle" => disk = [rows |-> rows["trace"], seq |-> seq["trace"]]

\* Undoing a failed entry undoes no other: a ROLLBACK removes the rows of the
\* entry being stored and never a trace entry that was handled before.
RollbackKeepsEntries ==
  [][DatabaseFull \/ StatementFails => Ids("entry") \subseteq Ids("entry")']_vars

\* handleTraceEntry returns: an entry that finds the database full is retried,
\* but not for ever.
EntryHandled == (step # "idle") ~> (step = "idle")

\* The following property states the documentation and does not hold.

\* tracelib_xml_config.dox:248: the archive contains "the entries removed from
\* the database": they can be read from it as they were sent.
ArchiveReadable ==
  step = "delete" =>
    \A i \in DOMAIN rows["archive"]["entry"] : Joined("archive", i)
=============================================================================
