------------------------------ MODULE EntryModel ------------------------------
(***************************************************************************)
(* What the viewer shows of a trace database that the daemon goes on       *)
(* writing to: the table of entries (gui/entryitemmodel.cpp), which holds  *)
(* the ids of all matching entries and the data of one page of them; the   *)
(* tree of watched variables (gui/watchtree.cpp); the filter, which decides*)
(* once as a program (EntryFilter::matches, for arriving entries) and twice*)
(* as SQL; and the list of trace keys of the filter form.                  *)
(*                                                                         *)
(* The daemon stores an entry and then sends it: everything between the    *)
(* two is in "net".  The viewer is one thread, so a slot, with all the     *)
(* slots its signals call, is one action.  A criterion on text is two sets *)
(* of kinds of entries: those whose text contains it (QString::contains),  *)
(* and those whose text is LIKE it, which are more: LIKE takes "a" and "A" *)
(* for the same letter, and "%" and "_" for anything.  The table of entries*)
(* is a set of rows, as in the database; a query puts them in order.       *)
(***************************************************************************)
EXTENDS Integers, Sequences, FiniteSets, Functions

CONSTANTS
  Kinds,        \* what entries are like: [proc, pid, point, key, traceKeys, watched],
                \* where traceKeys are the keys of the program's configuration
                \* that every entry brings, each enabled or not
  NoKey,        \* the key of an entry without one
  ProcessRow,   \* ProcessRow[pid]: the id the process has in the database
  Texts,        \* bound: the text criteria the user enters
  Pids,         \* bound: the process ids the user enters, or -1
  FirstDatabase,\* the database the viewer opens first
  OtherDatabases, \* bound: those it opens later
  Keeps,        \* bound: entries that archiving leaves in a full database
  PageSize,     \* the LIMIT of the query for a page (100)
  MaxStored,    \* bound: entries the daemon stores
  MaxRemovals,  \* bound: times it removes entries
  MaxOpened     \* bound: times the viewer opens a database again

Keys == ({k.key : k \in Kinds} \cup UNION {DOMAIN k.traceKeys : k \in Kinds}) \ {NoKey}

Entries == [id : Nat \ {0}, kind : Kinds, serial : Nat]

TextCriteria ==
  {t \in [contains : SUBSET Kinds, like : SUBSET Kinds] : t.contains \subseteq t.like}

NoText == [contains |-> Kinds, like |-> Kinds]

\* The ids are a primary key, and sqlite_sequence has the last one.
WellFormed(d) ==
  /\ d \in [entries : SUBSET Entries, last : Nat, groups : SUBSET Keys]
  /\ IsFiniteSet(d.entries)
  /\ \A e \in d.entries : e.id <= d.last
  /\ \A e, x \in d.entries : e.id = x.id => e = x

ASSUME EntryModelAssumption ==
  /\ \A k \in Kinds : k.traceKeys \in [DOMAIN k.traceKeys \ {NoKey} -> BOOLEAN]
  /\ PageSize \in Nat \ {0}
  /\ DOMAIN ProcessRow = {k.pid : k \in Kinds}
  /\ -1 \in Pids /\ Texts \subseteq TextCriteria
  /\ Keeps \subseteq Nat /\ MaxStored \in Nat
  /\ WellFormed(FirstDatabase) /\ \A d \in OtherDatabases : WellFormed(d)

VARIABLES
  db,        \* the database file: [entries, last, groups]
  net,       \* datagrams the daemon has sent and the viewer has not handled
  stored,    \* entries the daemon has stored so far
  removals, opened,
  filter,    \* EntryFilter
  form,      \* FilterForm: the keys and check boxes, edited since Apply?
  model,     \* EntryItemModel
  tree,      \* WatchTree
  frozen,    \* the Freeze button is pressed
  failed     \* an assertion of the viewer failed

daemonVars == <<db, net, stored, removals>>
vars == <<daemonVars, opened, filter, form, model, tree, frozen, failed>>

EmptyDatabase == [entries |-> {}, last |-> 0, groups |-> {}]
NewFilter == [text |-> NoText, pid |-> -1, inactive |-> {}, withoutKey |-> TRUE]
NewForm == [keys |-> [k \in {} |-> TRUE], firstEntryPassed |-> FALSE,
            defaults |-> [k \in {} |-> TRUE], edited |-> FALSE]

\* m_idForRow, m_topRow and m_data; -1 matching entries stands for "unknown".
NewModel ==
  [numMatching |-> -1, numNew |-> 0, ids |-> <<>>, top |-> -1, page |-> <<>>,
   timer |-> FALSE, suspended |-> FALSE]

NewTree ==
  [items |-> [i \in {} |-> 0], dirty |-> TRUE, visible |-> FALSE, timer |-> FALSE,
   suspended |-> FALSE]

-----------------------------------------------------------------------------
(* The filter, three times.                                                *)

KeyMatches(f, key) == IF key = NoKey THEN f.withoutKey ELSE key \notin f.inactive

\* EntryFilter::matches
matches(f, e) ==
  /\ e.kind \in f.text.contains
  /\ f.pid \in {-1, e.kind.pid}
  /\ KeyMatches(f, e.kind.key)

\* A FROM clause with trace_point_group has no rows while that has none.
Joined(f, d) == f.inactive = {} \/ d.groups # {}

\* Mutant: no condition on keys.
SelectsAnyKey(f, d, e) == e.kind \in f.text.like /\ f.pid \in {-1, ProcessRow[e.kind.pid]}

\* The WHERE clause of queryForEntries; it compares the process id the user
\* entered with the id of the row.
Selects(f, d, e) ==
  /\ e.kind \in f.text.like
  /\ f.pid \in {-1, ProcessRow[e.kind.pid]}
  /\ Joined(f, d)
  /\ KeyMatches(f, e.kind.key)

\* WatchTree's, from EntryFilter::whereClause: without inactive keys it has no
\* condition on keys.
WatchSelects(f, d, e) ==
  /\ e.kind \in f.text.like
  /\ f.pid \in {-1, e.kind.pid}
  /\ Joined(f, d)
  /\ f.inactive # {} => KeyMatches(f, e.kind.key)

-----------------------------------------------------------------------------
(* EntryItemModel, reading the database d.                                 *)

RowCount(m) == IF m.numMatching > 0 THEN m.numMatching ELSE 0

\* ORDER BY trace_entry.id
InOrder(rows) ==
  CHOOSE s \in [1 .. Cardinality(rows) -> rows] :
    \A i, j \in DOMAIN s : i < j => s[i].id < s[j].id

Limited(s) == [i \in DOMAIN s \cap 1 .. PageSize |-> s[i]]

Matching(f, d) == {e \in d.entries : Selects(f, d, e)}

\* Mutants: the page begins with the first row; it begins after the row.
PageFromStart(f, d, id) == Limited(InOrder(Matching(f, d)))
PageAfter(f, d, id) == Limited(InOrder({e \in Matching(f, d) : e.id > id}))

\* The entries SELECTed for the page that begins at the row, at most PageSize.
Page(f, d, id) == Limited(InOrder({e \in Matching(f, d) : e.id >= id}))

\* With a page, or first the ids and then the page; without a page if none matches.
queryForEntries(m, f, d, row) ==
  LET found == InOrder(Matching(f, d))
  IN  IF m.numMatching # -1
      THEN [m EXCEPT !.top = row, !.page = Page(f, d, m.ids[row + 1])]
      ELSE IF found = <<>>
      THEN [m EXCEPT !.numMatching = 0, !.ids = <<>>, !.top = -1, !.page = <<>>]
      ELSE [m EXCEPT !.numMatching = Len(found), !.ids = [i \in DOMAIN found |-> found[i].id],
                     !.top = row, !.page = Page(f, d, found[row + 1].id)]

Recounted(m, f, d) == queryForEntries([m EXCEPT !.numMatching = -1], f, d, 0)

insertNewTraceEntries(m, f, d) ==
  IF m.numNew = 0 THEN m ELSE [Recounted(m, f, d) EXCEPT !.numNew = 0]

\* Mutant: nothing is inserted when the table is resumed.
ResumedOnly(m, f, d) == [m EXCEPT !.suspended = FALSE]
Resumed(m, f, d) == insertNewTraceEntries([m EXCEPT !.suspended = FALSE], f, d)

\* Mutants: entries that arrive while the viewer is frozen start the timer; none do.
ArrivesUnchecked(m, f, e) ==
  IF ~matches(f, e) THEN m ELSE [m EXCEPT !.numNew = @ + 1, !.timer = TRUE]

ArrivesUntimed(m, f, e) ==
  IF ~matches(f, e) THEN m ELSE [m EXCEPT !.numNew = @ + 1]

\* EntryItemModel::handleNewTraceEntry
Arrives(m, f, e) ==
  IF ~matches(f, e) THEN m
  ELSE [m EXCEPT !.numNew = @ + 1, !.timer = @ \/ ~m.suspended]

\* EntryItemModel::clear: the ids and the page stay as they are.
Cleared(m) == [m EXCEPT !.numNew = 0, !.numMatching = 0]

InPage(m, row) == row >= m.top /\ row < m.top + Len(m.page)

-----------------------------------------------------------------------------
(* WatchTree: an item for each process and trace point with variables.     *)

\* The most recent entries of each trace point and thread.
Latest(d) ==
  {e \in d.entries :
     \A x \in d.entries :
       x.kind.point = e.kind.point /\ x.kind.proc = e.kind.proc => x.id <= e.id}

Watched(f, d) == {e \in Latest(d) : e.kind.watched /\ WatchSelects(f, d, e)}

Item(e) == <<e.kind.proc, e.kind.point>>

showNewTraceEntries(t, f, d) ==
  IF ~t.dirty \/ ~t.visible THEN t
  ELSE LET new == Watched(f, d)
           old == DOMAIN t.items
       IN  [t EXCEPT !.dirty = FALSE,
              !.items = [i \in old \cup {Item(e) : e \in new} |->
                           IF \E e \in new : Item(e) = i
                           THEN (CHOOSE e \in new : Item(e) = i).serial ELSE @[i]]]

\* WatchTree::reApplyFilter
TreeReApplied(t, f, d) ==
  showNewTraceEntries([t EXCEPT !.dirty = TRUE, !.items = [i \in {} |-> 0]], f, d)

\* Mutant: the tree counts as changed only if its timer can start.
TreeArrivesUnsuspended(t, f, e) ==
  IF matches(f, e) /\ e.kind.watched /\ ~t.suspended
  THEN [t EXCEPT !.dirty = TRUE, !.timer = TRUE] ELSE t

\* WatchTree::handleNewTraceEntry
TreeArrives(t, f, e) ==
  IF matches(f, e) /\ e.kind.watched
  THEN [t EXCEPT !.dirty = TRUE, !.timer = @ \/ ~t.suspended] ELSE t

-----------------------------------------------------------------------------
(* FilterForm.                                                             *)

EnableByDefault(defaults, keys) ==
  [k \in DOMAIN defaults \cup DOMAIN keys |-> IF k \in DOMAIN keys THEN keys[k] ELSE defaults[k]]

KeyActive(defaults, key) == key \in DOMAIN defaults => defaults[key]

SetTraceKeys(fm, keys) == [fm EXCEPT !.keys = [k \in keys |-> KeyActive(fm.defaults, k)]]

NewKeys(fm, keys) == keys \ DOMAIN fm.keys

AddTraceKeys(fm, keys) ==
  [fm EXCEPT !.keys = [k \in keys \cup DOMAIN @ |->
                         IF k \in DOMAIN @ THEN @[k] ELSE KeyActive(fm.defaults, k)]]

\* Mutant: a key that is active again is not taken off the inactive ones.
FilterAddsInactive(f, fm, new) ==
  [f EXCEPT !.inactive = @ \cup {k \in new : ~KeyActive(fm.defaults, k)}]

\* What addTraceKeys does to the filter for keys that were not listed.
FilterOfNewKeys(f, fm, new) ==
  [f EXCEPT !.inactive = {k \in @ \cup new : k \in new => ~KeyActive(fm.defaults, k)}]

-----------------------------------------------------------------------------
(* EntryFilter::changed is connected to the table and to the tree.         *)

FilterChanged(f) ==
  /\ filter' = f
  /\ model' = Recounted(model, f, db)
  /\ tree' = TreeReApplied(tree, f, db)

Init ==
  /\ db = FirstDatabase
  /\ net = <<>> /\ stored = 0 /\ removals = 0 /\ opened = 0
  /\ filter = NewFilter
  /\ form = SetTraceKeys(NewForm, FirstDatabase.groups)
  /\ model = queryForEntries(NewModel, NewFilter, FirstDatabase, 0)
  /\ tree = NewTree
  /\ frozen = FALSE /\ failed = "no"

-----------------------------------------------------------------------------
(* The daemon.                                                             *)

EntryMessage(e) == [type |-> "entry", entry |-> e]
NukedMessage == [type |-> "nuked"]

NewEntry(d, kind, serial) == [id |-> d.last + 1, kind |-> kind, serial |-> serial]

\* TraceKeyCache::update: the keys of the configuration, and the entry's own.
KeysOf(kind) == DOMAIN kind.traceKeys \cup ({kind.key} \ {NoKey})

With(d, e) ==
  [d EXCEPT !.last = e.id, !.groups = @ \cup KeysOf(e.kind), !.entries = @ \cup {e}]

Stores(kind) ==
  /\ stored < MaxStored
  /\ stored' = stored + 1
  /\ LET e == NewEntry(db, kind, stored + 1)
     IN  /\ db' = With(db, e)
         /\ net' = Append(net, EntryMessage(e))
  /\ UNCHANGED removals

\* The database is full: all but the most recent entries go to the archive, and
\* the keys that no other entry has are deleted with them.
Kept(rows, keep) == {e \in rows : Cardinality({x \in rows : x.id > e.id}) < keep}

Archived(d, keep) ==
  LET kept == Kept(d.entries, keep)
  IN  [d EXCEPT !.entries = kept, !.groups = {g \in @ : \E e \in kept : e.kind.key = g}]

Archives(kind, keep) ==
  /\ stored < MaxStored /\ removals < MaxRemovals
  /\ Cardinality(db.entries) > keep
  /\ stored' = stored + 1 /\ removals' = removals + 1
  /\ LET e == NewEntry(db, kind, stored + 1)
     IN  /\ db' = With(Archived(db, keep), e)
         /\ net' = net \o <<NukedMessage, EntryMessage(e)>>

\* Database::trimTo(0), which lets the ids begin again; the keys stay.
Nukes ==
  /\ removals < MaxRemovals
  /\ removals' = removals + 1
  /\ db' = [db EXCEPT !.entries = {}, !.last = 0]
  /\ net' = Append(net, NukedMessage)
  /\ UNCHANGED stored

Daemon ==
  /\ \/ \E kind \in Kinds : Stores(kind) \/ \E keep \in Keeps : Archives(kind, keep)
     \/ Nukes
  /\ UNCHANGED <<opened, filter, form, model, tree, frozen, failed>>

-----------------------------------------------------------------------------
(* The viewer.                                                             *)

Received(type) ==
  /\ failed = "no"
  /\ net # <<>> /\ Head(net).type = type
  /\ net' = Tail(net)
  /\ UNCHANGED <<db, stored, removals, opened, frozen, failed>>

\* MainWindow::handleNewTraceEntry: the keys first, which may change the
\* filter, then the table and the tree.
HandleNewTraceEntry ==
  /\ Received("entry")
  /\ LET e == Head(net).entry
         fm0 == [form EXCEPT !.defaults = EnableByDefault(@, e.kind.traceKeys),
                             !.firstEntryPassed = TRUE]
         fm == IF form.firstEntryPassed THEN fm0 ELSE SetTraceKeys(fm0, {})
         new == NewKeys(fm, db.groups)
         f == FilterOfNewKeys(filter, fm, new)
         m == IF new = {} THEN model ELSE Recounted(model, f, db)
         t == IF new = {} THEN tree ELSE TreeReApplied(tree, f, db)
     IN  /\ form' = AddTraceKeys(fm, db.groups)
         /\ filter' = f
         /\ model' = Arrives(m, f, e)
         /\ tree' = TreeArrives(t, f, e)

\* MainWindow::databaseWasNuked
DatabaseWasNuked ==
  /\ Received("nuked")
  /\ model' = Cleared(model)
  /\ tree' = TreeReApplied(tree, filter, db)
  /\ form' = SetTraceKeys(form, {})
  /\ UNCHANGED filter

Viewer == failed = "no" /\ UNCHANGED daemonVars

\* EntryItemModel's timer, 200 ms after the first entry that arrived.
ModelTimeout ==
  /\ Viewer /\ model.timer
  /\ model' = insertNewTraceEntries([model EXCEPT !.timer = FALSE], filter, db)
  /\ UNCHANGED <<opened, filter, form, tree, frozen, failed>>

TreeTimeout ==
  /\ Viewer /\ tree.timer
  /\ tree' = showNewTraceEntries([tree EXCEPT !.timer = FALSE], filter, db)
  /\ UNCHANGED <<opened, filter, form, model, frozen, failed>>

Freeze ==
  /\ Viewer /\ ~frozen
  /\ frozen' = TRUE
  /\ model' = [model EXCEPT !.suspended = TRUE]
  /\ tree' = [tree EXCEPT !.suspended = TRUE]
  /\ UNCHANGED <<opened, filter, form, failed>>

Resume ==
  /\ Viewer /\ frozen
  /\ frozen' = FALSE
  /\ model' = Resumed(model, filter, db)
  /\ tree' = showNewTraceEntries([tree EXCEPT !.suspended = FALSE], filter, db)
  /\ UNCHANGED <<opened, filter, form, failed>>

\* The view paints a row: EntryItemModel::getValue with its assertions.
Paint(row) ==
  /\ Viewer
  /\ row < RowCount(model)
  /\ LET m == IF InPage(model, row) THEN model
              ELSE queryForEntries(model, filter, db, row)
     IN  /\ model' = m
         /\ failed' = IF InPage(m, row) THEN "no" ELSE "rowNotFound"
  /\ UNCHANGED <<opened, filter, form, tree, frozen>>

\* The user opens or leaves the tab of the tree: WatchTree::showEvent.
ShowTree ==
  /\ Viewer /\ ~tree.visible
  /\ LET t == [tree EXCEPT !.visible = TRUE]
     IN  tree' = IF tree.dirty THEN TreeReApplied(t, filter, db) ELSE t
  /\ UNCHANGED <<opened, filter, form, model, frozen, failed>>

HideTree ==
  /\ Viewer /\ tree.visible
  /\ tree' = [tree EXCEPT !.visible = FALSE]
  /\ UNCHANGED <<opened, filter, form, model, frozen, failed>>

CheckKey(key) ==
  /\ Viewer /\ key \in DOMAIN form.keys
  /\ form' = [form EXCEPT !.keys[key] = ~@, !.edited = TRUE]
  /\ UNCHANGED <<opened, filter, model, tree, frozen, failed>>

\* FilterForm::apply
Apply(text, pid, withoutKey) ==
  /\ Viewer
  /\ FilterChanged([text |-> text, pid |-> pid, withoutKey |-> withoutKey,
                    inactive |-> {k \in DOMAIN form.keys : ~form.keys[k]}])
  /\ form' = [form EXCEPT !.edited = FALSE]
  /\ UNCHANGED <<opened, frozen, failed>>

\* MainWindow::setDatabase, of the same file after the connection was lost, or
\* of another one; setTraceKeys sets the filter while the tree still has the
\* old database.
OpenDatabase(d) ==
  /\ failed = "no" /\ opened < MaxOpened
  /\ opened' = opened + 1
  /\ db' = d /\ net' = <<>>
  /\ LET f == FilterOfNewKeys(filter, form, d.groups)
         t == IF d.groups = {} THEN tree ELSE TreeReApplied(tree, f, db)
     IN  /\ filter' = f
         /\ form' = SetTraceKeys(form, d.groups)
         /\ model' = queryForEntries(NewModel, f, d, 0)
         /\ tree' = showNewTraceEntries([t EXCEPT !.dirty = TRUE], f, d)
  /\ UNCHANGED <<stored, removals, frozen, failed>>

User ==
  \/ Freeze \/ Resume \/ ShowTree \/ HideTree
  \/ \E row \in 0 .. MaxStored : Paint(row)
  \/ \E key \in Keys : CheckKey(key)
  \/ \E text \in Texts, pid \in Pids, b \in BOOLEAN : Apply(text, pid, b)
  \/ \E d \in OtherDatabases \cup {db} : OpenDatabase(d)

Next ==
  \/ Daemon
  \/ HandleNewTraceEntry \/ DatabaseWasNuked \/ ModelTimeout \/ TreeTimeout
  \/ User

\* The socket is read and timers expire while the event loop runs.
Spec ==
  /\ Init /\ [][Next]_vars
  /\ WF_net(Received("entry") \/ Received("nuked"))
  /\ WF_model(ModelTimeout) /\ WF_tree(TreeTimeout)

-----------------------------------------------------------------------------
(* Properties.                                                             *)

Ids(m) == [row \in 1 .. RowCount(m) |-> m.ids[row]]
Nuked == \E i \in DOMAIN net : net[i].type = "nuked"

\* The variables are of their types.
ModelTypeOK ==
  /\ filter \in [text : TextCriteria, pid : Pids, inactive : SUBSET Keys,
                 withoutKey : BOOLEAN]
  /\ DOMAIN form.keys \subseteq Keys /\ form.keys \in [DOMAIN form.keys -> BOOLEAN]
  /\ model.numMatching \in {-1, Len(model.ids)} \cup {0}
  /\ model.numNew \in 0 .. MaxStored
  /\ {model.timer, model.suspended, tree.timer, tree.dirty, tree.suspended} \subseteq BOOLEAN
  /\ model.top \in -1 .. Len(model.ids) - 1 /\ Len(model.page) <= PageSize
  /\ failed \in {"no", "rowNotFound"}

\* An entry that nothing the user entered speaks against.
MayShow(f, e) ==
  /\ e.kind \in f.text.like
  /\ f.pid \in {-1, e.kind.pid}
  /\ KeyMatches(f, e.kind.key)

\* Once everything sent has been handled and nothing is pending, the table has
\* the entries of the database the filter is for, in their order, although it
\* counted some of them before they were announced to it: every entry whose texts
\* contain what was entered, and none that is not LIKE it.  (Between the two, the
\* entries with "Foo" under a filter "foo", matches and the query disagree, though
\* entryfilter.cpp:30 calls them analog: the query shows them, but when one arrives
\* no query is made.)
TableShowsAll ==
  failed = "no" /\ net = <<>> /\ model.numNew = 0 =>
    /\ {e.id : e \in {x \in db.entries : matches(filter, x)}} \subseteq Range(Ids(model))
    /\ Range(Ids(model)) \subseteq {e.id : e \in {x \in db.entries : MayShow(filter, x)}}
    /\ \A row, next \in DOMAIN Ids(model) : row < next => Ids(model)[row] < Ids(model)[next]

\* Unless the viewer has still to hear that entries were removed, a row of the
\* page has the data of the entry whose id the row stands for: pages are asked
\* for by id, and later than the ids.
PageShowsItsRows ==
  ~Nuked /\ RowCount(model) > 0 =>
    \A i \in DOMAIN model.page :
      /\ model.top + i <= Len(model.ids) => model.page[i].id = model.ids[model.top + i]
      /\ model.page[i] \in db.entries

\* The assertions of getValue (entryitemmodel.cpp:424) can only fail between a
\* removal of entries and the news of it.
RowsAreFound == failed # "no" => Nuked

\* What is pending has a timer that will show it, unless the viewer is frozen.
PendingIsScheduled ==
  /\ model.numNew > 0 /\ ~model.suspended => model.timer
  /\ tree.dirty /\ tree.visible /\ ~tree.suspended => tree.timer

\* When the tree is up to date, it shows the last value of every variable whose
\* entry the filter is for, whenever the tree was hidden or frozen before.
TreeShowsLatest ==
  ~tree.dirty /\ net = <<>> =>
    \A e \in {x \in Watched(filter, db) : matches(filter, x)} :
      Item(e) \in DOMAIN tree.items /\ tree.items[Item(e)] = e.serial

\* When nothing is on its way or pending, news, timers, freezing and filters have
\* left no entry out of table and tree that matches, nor one in the table that the
\* filter is against.
SettledShowsAll == TableShowsAll /\ TreeShowsLatest

\* A key is checked in the form if and only if the filter accepts it, unless
\* the user has changed check boxes since; entries that bring new keys and
\* removals that empty the list do not separate the two.
FormMatchesFilter ==
  form.edited \/ \A k \in DOMAIN form.keys : form.keys[k] <=> k \notin filter.inactive

\* Ids, page, timers and check boxes, which are kept apart, agree at any moment.
ModelInv == /\ ModelTypeOK /\ PageShowsItsRows /\ RowsAreFound
            /\ PendingIsScheduled /\ FormMatchesFilter

\* Once an update that was due has happened, entries that arrive do not change
\* the table of a frozen viewer, unless they bring a key the form has not listed:
\* that changes the filter, which updates the table.
FrozenIsQuiet ==
  [][HandleNewTraceEntry /\ model.suspended /\ ~model.timer
     /\ (form.firstEntryPassed /\ DOMAIN form'.keys = DOMAIN form.keys) =>
       ~model'.timer /\ Ids(model') = Ids(model)]_vars

\* The rows announced to the views, which is how many entries have arrived,
\* are as many as there are after the query (modeltest.cpp, rowsInserted).
RowsAsAnnounced ==
  [][ModelTimeout /\ model.numNew > 0 => RowCount(model') = RowCount(model) + model.numNew]_vars

\* Every entry that arrives and matches is shown, or it is removed or filtered,
\* or the viewer is frozen.
ArrivalsShown ==
  \A s \in 1 .. MaxStored :
    (net # <<>> /\ Head(net).type = "entry" /\ Head(net).entry.serial = s)
      ~> \/ failed # "no" \/ frozen
         \/ ~ \E e \in db.entries : e.serial = s /\ matches(filter, e)
         \/ \E e \in db.entries : e.serial = s /\ e.id \in Range(Ids(model))
=============================================================================
