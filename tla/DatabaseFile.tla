----------------------------- MODULE DatabaseFile -----------------------------
(***************************************************************************)
(* The trace database as a file that several programs open, create and     *)
(* convert (server/database.cpp, and the main functions of traced,         *)
(* tracegui, trace2xml, xml2trace and convertdb).                          *)
(*                                                                         *)
(* The version of a database is the number of rows of schema_downgrade.    *)
(* The rest of the schema is abstracted to what the conversions change:    *)
(* the format of the time columns.  A transaction works on a copy that     *)
(* COMMIT makes the file; SQLite lets one process write at a time, and a   *)
(* second one fails when its busy timeout has passed.                      *)
(***************************************************************************)
EXTENDS Naturals, FiniteSets

CONSTANTS
  Programs,      \* the processes
  Does,          \* Does[p]: what p's main does with the file
  Implemented,   \* versions whose downgrade statements are real SQL
  InitialFiles,  \* the files there may be at the start
  CheckOptions,  \* whether convertdb's main looks at its options first
  MaxStarts      \* bound: how often a program is started

Operations == {"openOrCreate", "open", "upgrade", "downgrade"}

ASSUME DoesAssumption == Does \in [Programs -> Operations]

expectedVersion == 5

VARIABLES
  file,      \* the file as of the last COMMIT
  pc,        \* where each program is
  version,   \* the version a conversion goes on from
  writer,    \* the program that holds the write lock
  work,      \* its copy of the file
  starts     \* how often each program was started

vars == <<file, pc, version, writer, work, starts>>

NoFile == [exists |-> FALSE, tables |-> FALSE, rows |-> {}, times |-> "none", by |-> "none"]
EmptyFile == [NoFile EXCEPT !.exists = TRUE]
\* A row of schema_downgrade; the id is SQLite's and tells equal rows apart.
Row(id, from) == [id |-> id, from_version |-> from]

\* A database of version v; times became milliseconds in version 5.  "by"
\* stands for all that was stored in it since it was created.
FileOf(v) ==
  [exists |-> TRUE, tables |-> TRUE,
   rows |-> {Row(i, i) : i \in 1 .. v},
   times |-> IF v < 5 THEN "text" ELSE "msecs", by |-> "before"]

\* The file, if there is one, was made by some version of the programs.
ASSUME FilesAssumption ==
  \A f \in InitialFiles :
     \/ f \in {NoFile, EmptyFile}
     \/ \E v \in 0 .. Cardinality(f.rows) : f = FileOf(v)

Nobody == "nobody"
ASSUME NobodyAssumption == Nobody \notin Programs
Ended == {"off", "serving", "failed", "converted"}
Labels == Ended \cup {"exists", "create", "schema", "open", "convert", "step", "statements",
                    "commit"}

Init ==
  /\ file \in InitialFiles
  /\ pc = [p \in Programs |-> "off"]
  /\ version = [p \in Programs |-> 0]
  /\ writer = Nobody
  /\ work = NoFile
  /\ starts = [p \in Programs |-> 0]

Goto(p, label) == pc' = [pc EXCEPT ![p] = label]

\* SELECT COUNT(*) FROM schema_downgrade, or -1
currentVersion(f) == Cardinality(f.rows)

\* INSERT INTO schema_downgrade
UnusedId(rs) ==
  CHOOSE i \in 1 .. Cardinality(rs) + 1 : \A row \in rs : row.id # i
Insert(rs, from) == rs \cup {Row(UnusedId(rs), from)}

-----------------------------------------------------------------------------
(* Starting, opening and creating.                                         *)

\* main(): convertdb refuses its option --upgrade, as it compares it with
\* itself and not with --downgrade.
Start(p) ==
  /\ pc[p] = "off"
  /\ starts[p] < MaxStarts
  /\ starts' = [starts EXCEPT ![p] = @ + 1]
  /\ Goto(p, IF Does[p] = "upgrade" /\ CheckOptions THEN "failed" ELSE "exists")
  /\ UNCHANGED <<file, version, writer, work>>

\* QFile::exists
CheckExists(p) ==
  /\ pc[p] = "exists"
  /\ Goto(p, IF file.exists
               THEN IF Does[p] \in {"upgrade", "downgrade"} THEN "convert" ELSE "open"
               ELSE IF Does[p] = "openOrCreate" THEN "create" ELSE "failed")
  /\ UNCHANGED <<file, version, writer, work, starts>>

\* openOrCreate: SQLite makes the file when it opens it.
CreateFile(p) ==
  /\ pc[p] = "create"
  /\ file' = IF file.exists THEN file ELSE EmptyFile
  /\ Goto(p, "schema")
  /\ UNCHANGED <<version, writer, work, starts>>

\* Mutant: tables that are there are dropped first.
CreateSchemaAnew(p) ==
  /\ pc[p] = "schema"
  /\ writer = Nobody
  /\ writer' = p
  /\ work' = [FileOf(expectedVersion) EXCEPT !.by = p]
  /\ Goto(p, "commit")
  /\ UNCHANGED <<file, version, starts>>

\* Database::create: the schema and the downgrade statements of all versions,
\* in one transaction ...
CreateSchema(p) ==
  /\ pc[p] = "schema"
  /\ writer = Nobody /\ ~file.tables
  /\ writer' = p
  /\ work' = [FileOf(expectedVersion) EXCEPT !.by = p]
  /\ Goto(p, "commit")
  /\ UNCHANGED <<file, version, starts>>

\* ... unless there are tables by now, or another program writes.
CreateFails(p) == pc[p] = "schema" /\ (writer # Nobody \/ file.tables)

\* Mutant: any version is opened (openAnyVersion).
CompatibleIfThere(f) == f.tables

checkCompatibility(f) == f.tables /\ currentVersion(f) = expectedVersion

\* Database::open
Open(p) ==
  /\ pc[p] = "open"
  /\ Goto(p, IF checkCompatibility(file) THEN "serving" ELSE "failed")
  /\ UNCHANGED <<file, version, writer, work, starts>>

-----------------------------------------------------------------------------
(* Converting.                                                             *)

\* The version is one that upgrade or downgrade goes on from.
Convertible(p) ==
  /\ file.tables
  /\ IF Does[p] = "upgrade" THEN currentVersion(file) < expectedVersion
     ELSE currentVersion(file) > expectedVersion

\* Database::upgrade and Database::downgrade up to their loops.
BeginConversion(p) ==
  /\ pc[p] = "convert"
  /\ version' = [version EXCEPT ![p] = currentVersion(file)]
  /\ Goto(p, IF Convertible(p) THEN "step" ELSE "failed")
  /\ UNCHANGED <<file, writer, work, starts>>

\* Mutant: the times are copied as they are.
UpgradedRowsOnly(f, v) == [f EXCEPT !.rows = Insert(@, v + 1)]

\* upgradeToVersion1, upgradeToVersion5: tables are copied and made anew, the
\* times in the format of the new version.
Upgraded(f, v) ==
  CASE v = 0 -> [f EXCEPT !.rows = Insert(@, 1), !.times = "text"]
    [] v = 4 -> [f EXCEPT !.rows = Insert(@, 5),
                          !.times = IF @ = "text" THEN "msecs" ELSE "garbage"]

\* downgradeVersion: the statements for v, and their removal.
Downgraded(f, v) == [f EXCEPT !.rows = {row \in @ : row.from_version # v}]

\* There is a way from the version, in this program or in the database.
StepPossible(p) ==
  IF Does[p] = "upgrade" THEN version[p] \in {0, 4}
  ELSE /\ version[p] \in Implemented
       /\ \E row \in file.rows : row.from_version = version[p]

\* downgradeStatementsForVersion, before the transaction.
ReadStatements(p) ==
  /\ pc[p] = "step" /\ Does[p] = "downgrade"
  /\ version[p] # expectedVersion
  /\ StepPossible(p)
  /\ Goto(p, "statements")
  /\ UNCHANGED <<file, version, writer, work, starts>>

\* The program is about to begin its transaction.
AtTransaction(p) ==
  IF Does[p] = "upgrade"
  THEN pc[p] = "step" /\ version[p] # expectedVersion /\ StepPossible(p)
  ELSE pc[p] = "statements"

\* upgradeVersion and downgradeVersion, up to the COMMIT.  What was read may be
\* statements that another program has executed and removed since.
ConversionStep(p) ==
  /\ AtTransaction(p)
  /\ writer = Nobody
  /\ writer' = p
  /\ work' = IF Does[p] = "upgrade" THEN Upgraded(file, version[p])
             ELSE Downgraded(file, version[p])
  /\ Goto(p, "commit")
  /\ UNCHANGED <<file, version, starts>>

\* Mutant: the exception is caught and nothing is returned.
StepFailsIfLocked(p) == AtTransaction(p) /\ writer # Nobody

\* No way from this version, or another program writes.
StepFails(p) ==
  \/ pc[p] = "step" /\ version[p] # expectedVersion /\ ~StepPossible(p)
  \/ AtTransaction(p) /\ writer # Nobody

\* The loops end.
EndConversion(p) ==
  /\ pc[p] = "step"
  /\ version[p] = expectedVersion
  /\ Goto(p, "converted")
  /\ UNCHANGED <<file, version, writer, work, starts>>

\* COMMIT, of a new database or of one step of a conversion; it is taken to
\* succeed, as the programs take it.
Commit(p) ==
  /\ pc[p] = "commit"
  /\ file' = work
  /\ writer' = Nobody
  /\ work' = NoFile
  /\ IF Does[p] = "openOrCreate" THEN Goto(p, "serving") /\ UNCHANGED version
     ELSE /\ Goto(p, "step")
          /\ version' = [version EXCEPT ![p] = IF Does[p] = "upgrade" THEN @ + 1 ELSE @ - 1]
  /\ UNCHANGED starts

\* The program gives up: nothing of its transaction remains.
Fail(p) ==
  /\ CreateFails(p) \/ StepFails(p)
  /\ Goto(p, "failed")
  /\ UNCHANGED <<file, version, writer, work, starts>>

-----------------------------------------------------------------------------
(* The environment.                                                        *)

\* A program ends, or is killed wherever it is; SQLite rolls back.
End(p) ==
  /\ pc[p] # "off"
  /\ Goto(p, "off")
  /\ IF writer = p THEN writer' = Nobody /\ work' = NoFile ELSE UNCHANGED <<writer, work>>
  /\ UNCHANGED <<file, version, starts>>

Run(p) ==
  \/ CheckExists(p) \/ CreateFile(p) \/ CreateSchema(p) \/ Open(p)
  \/ BeginConversion(p) \/ ReadStatements(p) \/ ConversionStep(p) \/ EndConversion(p)
  \/ Commit(p) \/ Fail(p)

Next == \E p \in Programs : Start(p) \/ Run(p) \/ End(p)

\* A program that runs is scheduled.
Spec == Init /\ [][Next]_vars /\ \A p \in Programs : WF_vars(Run(p))

-----------------------------------------------------------------------------
(* Properties.                                                             *)

\* The variables are of their types, and the program in its COMMIT is the one
\* that holds the write lock.
FileTypeOK ==
  /\ file.times \in {"none", "text", "msecs"}
  /\ file.tables => file.exists
  /\ pc \in [Programs -> Labels]
  /\ writer \in Programs \cup {Nobody}
  /\ writer # Nobody <=> work # NoFile
  /\ \A p \in Programs : writer = p <=> pc[p] = "commit"

\* database.cpp:288, the rows of schema_downgrade "designate the current
\* version number": at every COMMIT of every program the data are in the
\* format of the version the rows say, and the rows are those of 1 .. version.
SchemaMatchesVersion ==
  file.tables =>
    /\ {row.from_version : row \in file.rows} = 1 .. currentVersion(file)
    /\ file.times = IF currentVersion(file) < 5 THEN "text" ELSE "msecs"

\* A program that works with the database never has one of another version
\* under it, whatever is converted or created meanwhile.
ServedIsCurrent ==
  \A p \in Programs : pc[p] = "serving" => file.tables /\ currentVersion(file) = expectedVersion

\* The file is what it claims to be, also to those who have it open.
FileInv == FileTypeOK /\ SchemaMatchesVersion /\ ServedIsCurrent

\* Of several programs that start with no database, one creates it, and no
\* other replaces it or what was stored in it since (database.cpp:205).
CreatedOnce ==
  [][\A p \in Programs : file.tables /\ file # file'
       => \E q \in Programs : Does[q] \in {"upgrade", "downgrade"} /\ pc[q] = "commit"]_vars

\* No start hangs: it ends with an open database, a converted one, a message,
\* or the end of the program.
StartsEnd == \A p \in Programs : pc[p] \notin Ended ~> pc[p] \in Ended

\* convertdb/main.cpp:74: the option --upgrade means "Upgrade to current
\* version": it is not refused before the database is looked at.
UpgradeIsTried ==
  [][\A p \in Programs : Does[p] = "upgrade" /\ pc[p] = "off" => pc'[p] # "failed"]_vars
=============================================================================
