--------------------------- MODULE ApplicationTable ---------------------------
(***************************************************************************)
(* The viewer's table of traced applications (gui/applicationtable.cpp), as*)
(* operators on a record: the rows, kept sorted by start time with the     *)
(* latest first, and m_items, the index from applications to rows.         *)
(*                                                                         *)
(* The key of the index has a process id that only setApplications sets;   *)
(* for keys made from messages it is an uninitialized variable, so what    *)
(* they compare equal to is the caller's choice: "read" is the value read. *)
(* A row is named by the key it was inserted for.  An application is its   *)
(* start time, a number, which is also what its end time is.               *)
(***************************************************************************)
LOCAL INSTANCE Integers
LOCAL INSTANCE SequencesExt
LOCAL INSTANCE FiniteSetsExt

NoTime == -1
\* The end time of a running application, NULL in the database and 0 here.
Epoch == 0

NoApplications == [rows |-> <<>>, items |-> {}]

AppKey(app, pid) == [app |-> app, pid |-> pid]
AppRow(key, stop) == [key |-> key, stop |-> stop]

IndexOfRow(t, key) == SelectInSeq(t.rows, LAMBDA r : r.key = key)

\* Where QTableWidget moves a row whose start time has just been set.
SortedRow(t, app) == 1 + Len(SelectSeq(t.rows, LAMBDA r : r.key.app > app))

\* Mutant: applications that are not in the table are left out.
InsertEntryOnlyFirst(t, key, stop) ==
  IF t.rows = <<>> THEN [rows |-> <<AppRow(key, stop)>>, items |-> {key}] ELSE t

\* insertEntry at the last row: setting the start time moves the row, but the
\* end time is set at the number the row had before.
InsertEntry(t, key, stop) ==
  LET rows == InsertAt(t.rows, SortedRow(t, key.app), AppRow(key, NoTime))
  IN  [rows  |-> IF stop = NoTime THEN rows ELSE [rows EXCEPT ![Len(rows)].stop = stop],
       items |-> t.items \cup {key}]

\* ApplicationTable::handleNewTraceEntry
TableHandlesEntry(t, app, read) ==
  IF AppKey(app, read) \in t.items THEN t ELSE InsertEntry(t, AppKey(app, read), NoTime)

\* ApplicationTable::handleProcessShutdown
TableHandlesShutdown(t, app, read, stop) ==
  LET key == AppKey(app, read)
  IN  IF key \in t.items THEN [t EXCEPT !.rows[IndexOfRow(t, key)].stop = stop]
      ELSE InsertEntry(t, key, stop)

\* ApplicationTable::setApplications, with sorting disabled meanwhile.
SetApplications(apps, pid, stopOf) ==
  LET order == SetToSortSeq(apps, LAMBDA a, b : a > b)
  IN  [rows  |-> [i \in DOMAIN order |-> AppRow(AppKey(order[i], pid), stopOf[order[i]])],
       items |-> {AppKey(a, pid) : a \in apps}]

Listed(t) == {r.key.app : r \in Range(t.rows)}
=============================================================================
