---------------------------- MODULE ConfigEditor ----------------------------
(***************************************************************************)
(* The viewer's editor of configuration files: reading and writing them    *)
(* (gui/configuration.cpp) and the dialog (gui/configeditor.cpp).  What a  *)
(* file means to the traced processes is Configuration.                    *)
(*                                                                         *)
(* The dialog has a list of processes and one form, which shows the        *)
(* process of the current row.  A row stands for the element of            *)
(* m_processes at its position; what the user types stays in the form      *)
(* until another row becomes current or the dialog is accepted.            *)
(***************************************************************************)
EXTENDS Configuration

CONSTANTS
  Files,        \* documents the file may hold at first
  Names,        \* what the user may type as the name of a process
  MaxEdits      \* bound: edits

ASSUME EditAssumption == MaxEdits \in Nat

VARIABLES
  file,         \* the document in the file
  dialog,       \* "closed" or "open"
  m_processes, m_traceKeys, m_storageSettings,      \* the dialog's Configuration
  rowCount,     \* rows of the list of processes, which show their names
  currentRow,   \* 1 .. rowCount, or 0
  form,
  traceKeyList, \* rows [text, checked]
  opened,       \* history: the document that was opened
  shown,        \* history: positions of processes the form has shown
  entered,      \* history: the form as the user left it, by position
  removedRow,   \* history: a row was deleted
  edits         \* history, for the bound

config == <<m_processes, m_traceKeys, m_storageSettings>>
vars == <<file, dialog, config, rowCount, currentRow, form, traceKeyList,
          opened, shown, entered, removedRow, edits>>

-----------------------------------------------------------------------------
(* Configuration::load.                                                    *)

GuiFilter(type, mode, term) == [type |-> type, matchingMode |-> mode, term |-> term]

\* readPathFilter and readFunctionFilter give a filter the same type.
ReadFilter(e) == GuiFilter("PathFilter", e.mode, e.text)

\* A set with variables unless it says no; its backtraces are not read.
ReadSet(e) == [m_variables |-> e.variables = "yes",
               m_filters |-> [i \in DOMAIN e.filters |-> ReadFilter(e.filters[i])]]

GuiReadsChild(e) ==
  CASE e.tag = "tracepointset" ->
         \A i \in DOMAIN e.filters : /\ e.filters[i].tag \in {"pathfilter", "functionfilter"}
                                     /\ e.filters[i].mode \in MatchingModes
    [] e.tag \in {"output", "serializer"} -> TRUE
    [] OTHER -> FALSE

GuiReads(e) ==
  CASE e.tag = "process" -> \A i \in DOMAIN e.children : GuiReadsChild(e.children[i])
    [] e.tag = "tracekeys" -> \A i \in DOMAIN e.children : e.children[i].tag = "key"
    [] e.tag = "storage" -> \A i \in DOMAIN e.children : e.children[i].tag \in StorageNames
    [] OTHER -> FALSE

Process(name, outputType, outputOption, serializerType, serializerOption, sets) ==
  [m_name |-> name, m_outputType |-> outputType, m_outputOption |-> outputOption,
   m_serializerType |-> serializerType, m_serializerOption |-> serializerOption,
   m_tracePointSets |-> sets]

\* readProcessElement: a later output or serializer overwrites the type, and
\* the options of both are kept.
ReadChild(p, e) ==
  CASE e.tag = "output" -> [p EXCEPT !.m_outputType = e.type,
                                     !.m_outputOption = e.option @@ @]
    [] e.tag = "serializer" -> [p EXCEPT !.m_serializerType = e.type,
                                         !.m_serializerOption = e.option @@ @]
    [] e.tag = "tracepointset" -> [p EXCEPT !.m_tracePointSets = Append(@, ReadSet(e))]

ReadProcess(e) ==
  FoldLeft(ReadChild, Process(e.name, "", <<>>, "", <<>>, <<>>), e.children)

WithTag(doc, tag) == SelectSeq(doc, LAMBDA e : e.tag = tag)

\* All children of the elements of that tag, in order.
Children(doc, tag) == FoldLeft(LAMBDA s, e : s \o e.children, <<>>, WithTag(doc, tag))

LastOf(children, has(_)) ==
  children[CHOOSE i \in DOMAIN children :
             /\ has(children[i])
             /\ \A j \in i + 1 .. Len(children) : ~has(children[j])]

ReadProcesses(doc) ==
  LET s == WithTag(doc, "process") IN [i \in DOMAIN s |-> ReadProcess(s[i])]

\* readTraceKeysElement: anything but false and 0 enables a key.
ReadTraceKeys(doc) ==
  LET s == Children(doc, "tracekeys")
  IN  [name \in Texts(s) |->
         LastOf(s, LAMBDA k : k.text = name).enabled \notin {"false", "0"}]

ReadStorage(doc) ==
  LET s == Children(doc, "storage")
  IN  [name \in {s[i].tag : i \in DOMAIN s} |-> LastOf(s, LAMBDA c : c.tag = name).text]

-----------------------------------------------------------------------------
(* Configuration::save: storage, trace keys, processes.                    *)

Leaf(tag, text) == [tag |-> tag, text |-> text]
Key(text, enabled) == [tag |-> "key", text |-> text, enabled |-> enabled]
FilterElement(tag, mode, text) == [tag |-> tag, mode |-> mode, text |-> text, sub |-> <<>>]

WriteFilter(f) ==
  FilterElement(IF f.type = "FunctionFilter" THEN "functionfilter" ELSE "pathfilter",
                f.matchingMode, f.term)

WriteSet(set) ==
  [tag |-> "tracepointset", variables |-> IF set.m_variables THEN "yes" ELSE "no",
   backtraces |-> "",
   filters |-> [i \in DOMAIN set.m_filters |-> WriteFilter(set.m_filters[i])]]

WriteSets(sets) ==
  LET filled == SelectSeq(sets, LAMBDA s : s.m_filters # <<>>)
  IN  [i \in DOMAIN filled |-> WriteSet(filled[i])]

WriteProcess(p) ==
  [tag |-> "process", name |-> p.m_name,
   children |-> << [tag |-> "output", type |-> p.m_outputType, option |-> p.m_outputOption],
                   [tag |-> "serializer", type |-> p.m_serializerType,
                    option |-> p.m_serializerOption] >> \o WriteSets(p.m_tracePointSets)]

Element(tag, children) ==
  IF children = <<>> THEN <<>> ELSE << [tag |-> tag, children |-> children] >>

Save(processes, keys, storage) ==
  LET names == SetToSeq(DOMAIN storage)
      texts == SetToSeq(DOMAIN keys)
  IN  Element("storage", [i \in DOMAIN names |-> Leaf(names[i], storage[names[i]])])
      \o Element("tracekeys",
           [i \in DOMAIN texts |-> Key(texts[i], IF keys[texts[i]] THEN "true" ELSE "false")])
      \o [i \in DOMAIN processes |-> WriteProcess(processes[i])]

-----------------------------------------------------------------------------
(* The form.                                                               *)

\* FilterTableItem: one helper for each type on a page of its own, both filled
\* with the filter.  The pages are 0 and 1, and it is told to show page 1 or 2; a
\* page that does not exist changes nothing.  Mutant: it shows none then.
Pages == {"PathFilter", "FunctionFilter"}
Helpers(f) == [page \in Pages |-> [matchingMode |-> f.matchingMode, term |-> f.term]]
ItemOfNoPage(f) ==
  [page |-> IF f.type = "PathFilter" THEN "FunctionFilter" ELSE "none", helper |-> Helpers(f)]
Item(f) ==
  [page |-> IF f.type = "PathFilter" THEN "FunctionFilter" ELSE "PathFilter",
   helper |-> Helpers(f)]

\* The helper that is shown.
Current(item) == item.helper[item.page]

\* loadFilters: the first set.
LoadFilters(sets) ==
  IF sets = <<>> THEN <<>>
  ELSE [i \in DOMAIN sets[1].m_filters |-> Item(sets[1].m_filters[i])]

\* saveFilters: one set, with variables.
SaveFilters(items) ==
  << [m_variables |-> TRUE,
      m_filters |-> [i \in DOMAIN items |->
                       GuiFilter(items[i].page, Current(items[i]).matchingMode,
                                 Current(items[i]).term)]] >>

EmptyForm == [name |-> "", outputType |-> "", host |-> "", port |-> "",
              serializer |-> "", beautified |-> FALSE, filters |-> <<>>]

\* The part of currentProcessChanged that fills in the form; a type the
\* combo box does not have is shown as none.
FormOf(p) ==
  LET tcp == p.m_outputType = "tcp"
  IN  [name |-> p.m_name,
       outputType |-> IF p.m_outputType \in {"tcp", "stdout"} THEN p.m_outputType ELSE "",
       host |-> IF tcp THEN Get(p.m_outputOption, "host", "") ELSE "",
       port |-> IF tcp THEN Get(p.m_outputOption, "port", "") ELSE "",
       serializer |-> IF p.m_serializerType \in {"xml", "plaintext"}
                        THEN p.m_serializerType ELSE "",
       beautified |-> /\ p.m_serializerType = "xml"
                      /\ Get(p.m_serializerOption, "beautifiedOutput", "") = "yes",
       filters |-> LoadFilters(p.m_tracePointSets)]

\* saveCurrentProcess
ProcessOf(f) ==
  Process(f.name, f.outputType,
    IF f.outputType # "tcp" THEN <<>>
      ELSE [o \in {"host", "port"} \ {x \in {"host", "port"} : f[x] = ""} |-> f[o]],
    f.serializer,
    IF f.serializer # "xml" THEN <<>>
      ELSE [o \in {"beautifiedOutput"} |-> IF f.beautified THEN "yes" ELSE "no"],
    SaveFilters(f.filters))

\* saveCurrentProcess(row).  Mutant: saves over the first process.
SavedToFirst(processes, row) ==
  IF row = 0 THEN processes ELSE [processes EXCEPT ![1] = ProcessOf(form)]
Saved(processes, row) ==
  IF row = 0 THEN processes ELSE [processes EXCEPT ![row] = ProcessOf(form)]

-----------------------------------------------------------------------------
(* The dialog.                                                             *)

Init ==
  /\ file \in Files /\ dialog = "closed"
  /\ m_processes = <<>> /\ m_traceKeys = <<>> /\ m_storageSettings = <<>>
  /\ rowCount = 0 /\ currentRow = 0 /\ form = EmptyForm /\ traceKeyList = <<>>
  /\ opened = <<>> /\ shown = {} /\ entered = <<>> /\ removedRow = FALSE /\ edits = 0

\* openConfigurationFile, fillInConfiguration
OpenConfigurationFile ==
  /\ dialog = "closed" /\ \A i \in DOMAIN file : GuiReads(file[i])
  /\ dialog' = "open"
  /\ m_processes' = ReadProcesses(file)
  /\ m_traceKeys' = ReadTraceKeys(file)
  /\ m_storageSettings' = ReadStorage(file)
  /\ rowCount' = Len(m_processes')
  /\ IF rowCount' = 0
       THEN currentRow' = 0 /\ form' = EmptyForm /\ shown' = {}
       ELSE currentRow' = 1 /\ form' = FormOf(m_processes'[1]) /\ shown' = {1}
  /\ LET texts == SetToSeq(DOMAIN m_traceKeys')
     IN  traceKeyList' = [i \in DOMAIN texts |->
                            [text |-> texts[i], checked |-> m_traceKeys'[texts[i]]]]
  /\ opened' = file /\ entered' = <<>> /\ removedRow' = FALSE
  /\ UNCHANGED <<file, edits>>

Editing == dialog = "open" /\ edits < MaxEdits /\ edits' = edits + 1

\* currentProcessChanged.  Mutant: the form is not saved first.
ShowRowUnsaved(row) ==
  /\ UNCHANGED m_processes
  /\ form' = FormOf(m_processes[row])
  /\ shown' = shown \cup {row}
ShowRow(row) ==
  /\ m_processes' = Saved(m_processes, currentRow)
  /\ form' = FormOf(m_processes'[row])
  /\ shown' = shown \cup {row}

SelectRow(row) ==
  /\ Editing /\ row # currentRow
  /\ ShowRow(row) /\ currentRow' = row
  /\ UNCHANGED <<file, dialog, m_traceKeys, m_storageSettings, rowCount,
                 traceKeyList, opened, entered, removedRow>>

NewProcess ==
  Process("application.exe", "tcp", [host |-> "127.0.0.1"], "xml",
          [beautifiedOutput |-> "yes"], <<>>)

\* newConfig: the row is added at the end of the list and made current.
NewConfig ==
  LET row == rowCount + 1
      added == Append(Saved(m_processes, currentRow), NewProcess)
  IN  /\ Editing
      /\ m_processes' = added
      /\ rowCount' = row
      /\ currentRow' = row /\ form' = FormOf(added[row])
      /\ shown' = shown \cup {row} /\ entered' = row :> form' @@ entered
      /\ UNCHANGED <<file, dialog, m_traceKeys, m_storageSettings,
                     traceKeyList, opened, removedRow>>

\* deleteConfig takes the row off the list.  The list first makes the next
\* row current, or the one before if there is none.  m_processes is as before.
DeleteConfig ==
  /\ Editing /\ currentRow # 0
  /\ LET last == currentRow = rowCount
         next == IF last THEN currentRow - 1 ELSE currentRow + 1
     IN  /\ IF next = 0 THEN UNCHANGED <<m_processes, form, shown>> ELSE ShowRow(next)
         /\ currentRow' = IF last THEN next ELSE currentRow
  /\ rowCount' = rowCount - 1
  /\ removedRow' = TRUE
  /\ UNCHANGED <<file, dialog, m_traceKeys, m_storageSettings, traceKeyList,
                 opened, entered>>

EditForm(f) ==
  /\ Editing /\ currentRow # 0 /\ form' = f
  /\ entered' = currentRow :> f @@ entered
  /\ UNCHANGED <<file, dialog, config, rowCount, currentRow, traceKeyList,
                 opened, shown, removedRow>>

RenameProcess(name) == EditForm([form EXCEPT !.name = name])
ChooseOutput(type) == EditForm([form EXCEPT !.outputType = type])
EnterHost(host) == form.outputType = "tcp" /\ EditForm([form EXCEPT !.host = host])
EnterPort(port) == form.outputType = "tcp" /\ EditForm([form EXCEPT !.port = port])
ChooseSerializer(type) == EditForm([form EXCEPT !.serializer = type])
CheckBeautified == form.serializer = "xml" /\ EditForm([form EXCEPT !.beautified = ~@])
AddFilter ==
  EditForm([form EXCEPT !.filters =
              Append(@, Item(GuiFilter("FunctionFilter", "strict", "functionName")))])
FilterComboChanged(i, page) == EditForm([form EXCEPT !.filters[i].page = page])
EditHelper(i, f) == EditForm([form EXCEPT !.filters[i].helper[form.filters[i].page] = f])
EnterTerm(i, term) == EditHelper(i, [Current(form.filters[i]) EXCEPT !.term = term])
ChooseMode(i, mode) == EditHelper(i, [Current(form.filters[i]) EXCEPT !.matchingMode = mode])
RemoveFilter(i) == EditForm([form EXCEPT !.filters = RemoveAt(@, i)])
ClearFilters == EditForm([form EXCEPT !.filters = <<>>])

EditKeys(list) ==
  /\ Editing /\ traceKeyList' = list
  /\ UNCHANGED <<file, dialog, config, rowCount, currentRow, form, opened,
                 shown, entered, removedRow>>
AddTraceKey(text) == EditKeys(Append(traceKeyList, [text |-> text, checked |-> TRUE]))
CheckTraceKey(i) == EditKeys([traceKeyList EXCEPT ![i].checked = ~@])
RemoveTraceKey(i) == EditKeys(RemoveAt(traceKeyList, i))

\* saveTraceKeyList: of two rows with one text the later one counts.
TraceKeysOf(list) ==
  [text \in Texts(list) |-> LastOf(list, LAMBDA k : k.text = text).checked]

Accept ==
  /\ dialog = "open" /\ dialog' = "closed"
  /\ m_processes' = Saved(m_processes, currentRow)
  /\ m_traceKeys' = TraceKeysOf(traceKeyList)
  /\ file' = Save(m_processes', m_traceKeys', m_storageSettings)
  /\ UNCHANGED <<m_storageSettings, rowCount, currentRow, form, traceKeyList,
                 opened, shown, entered, removedRow, edits>>

Reject ==
  /\ dialog = "open" /\ dialog' = "closed"
  /\ UNCHANGED <<file, config, rowCount, currentRow, form, traceKeyList,
                 opened, shown, entered, removedRow, edits>>

Next ==
  \/ OpenConfigurationFile
  \/ \E row \in 1 .. rowCount : SelectRow(row)
  \/ NewConfig \/ DeleteConfig
  \/ \E name \in Names : RenameProcess(name)
  \/ \E type \in {"tcp", "stdout"} : ChooseOutput(type)
  \/ \E host \in {"", "remote"} : EnterHost(host)
  \/ \E port \in {"", "0", "1"} : EnterPort(port)
  \/ \E type \in {"xml", "plaintext"} : ChooseSerializer(type)
  \/ CheckBeautified
  \/ AddFilter \/ ClearFilters
  \/ \E i \in DOMAIN form.filters :
        \/ RemoveFilter(i)
        \/ \E page \in Pages : FilterComboChanged(i, page)
        \/ \E term \in {"", "g"} : EnterTerm(i, term)
        \/ \E mode \in MatchingModes : ChooseMode(i, mode)
  \/ AddTraceKey("key2")
  \/ \E i \in DOMAIN traceKeyList : CheckTraceKey(i) \/ RemoveTraceKey(i)
  \/ Accept \/ Reject

Spec == Init /\ [][Next]_vars

-----------------------------------------------------------------------------
(* Properties.                                                             *)

\* Also checked as a property the program does not have, KeysRestrict: if trace
\* keys are given, only trace points of enabled keys are recorded.  (The code
\* restricts sets of trace points, of which there may be none, and only if some
\* key is enabled.)
KeysRestrict ==
  \A name \in {e.name : e \in Range(WithTag(file, "process"))} :
     LET b == Behaviour(file, name, "strict")
     IN  b.loaded /\ b.keys # {} =>
           \A tp \in TracePoints : b.actions[tp] # {} =>
              [name |-> tp.groupName, enabled |-> TRUE] \in b.keys

ProcessNames(doc) == {e.name : e \in Range(WithTag(doc, "process"))}

\* The rows stand for processes that exist, as the code asserts whenever it
\* takes one for the other.
EditorTypeOK ==
  /\ dialog \in {"closed", "open"}
  /\ currentRow \in 0 .. rowCount /\ rowCount <= Len(m_processes)
  /\ (currentRow = 0) = (rowCount = 0)
  /\ DOMAIN m_storageSettings \subseteq StorageNames
  /\ \A i \in DOMAIN form.filters :
        /\ form.filters[i].page \in Pages
        /\ \A page \in Pages : form.filters[i].helper[page].matchingMode \in MatchingModes

\* Every filter of the process elements has the attribute that gives its mode.
RECURSIVE ModeGiven(_)
ModeGiven(e) ==
  IF e.tag \in {"matchanyfilter", "matchallfilter"} THEN \A i \in DOMAIN e.sub : ModeGiven(e.sub[i])
  ELSE e.mode # ""

ModesGiven(doc) ==
  \A e \in Range(WithTag(doc, "process")) :
    \A set \in Range(WithTag(e.children, "tracepointset")) :
      \A f \in Range(set.filters) : ModeGiven(f)

\* A file that can be read and that gives the mode of every filter makes a
\* process record the trace points it should: those that the sets of its element
\* accept and the enabled keys allow, and all if it has no set.  (loadFrom,
\* createFilterFromElement, the filters, reloadConfiguration and
\* configureTracePoint against RefRecorded.  Of the filters without a mode the
\* code reads a variable it has not set, or takes the other list than
\* tracelib_xml_config.dox:348 says.)
RecordsAsMeant ==
  \A name \in ProcessNames(file) \cup {"unknown"} :
     LET b == Behaviour(file, name, "none")
     IN  b.loaded /\ ModesGiven(file) =>
           {tp \in TracePoints : b.actions[tp] # {}} = RefRecorded(file, name)

\* The dialog is consistent, and what it leaves in the file means what it says.
EditorInv == EditorTypeOK /\ RecordsAsMeant

\* What the library asks of a process of the Configuration.
Complete(p) ==
  /\ p.m_serializerType \in {"xml", "plaintext"}
  /\ \/ p.m_outputType = "stdout"
     \/ p.m_outputType = "file" /\ Get(p.m_outputOption, "filename", "") # ""
     \/ /\ p.m_outputType = "tcp" /\ Get(p.m_outputOption, "host", "") # ""
        /\ Get(p.m_outputOption, "port", "") # "0"
  /\ \A set \in Range(p.m_tracePointSets) : \A f \in Range(set.m_filters) : f.term # ""


UniqueNames(doc) ==
  Cardinality(ProcessNames(doc)) = Len(WithTag(doc, "process"))

\* What the user entered is in the file, also if other rows were selected
\* afterwards, unless a row was deleted; of a filter its mode and text, whether
\* it is one for paths or for functions may change.
EditsArrive ==
  [][ Accept /\ ~removedRow /\ UniqueNames(file') =>
        \A i \in DOMAIN entered :
           LET e == WithTag(file', "process")[i]
               f == entered[i]
               cfg == LoadFrom(file', f.name)
               written == IF cfg.sets = <<>> THEN <<>> ELSE cfg.sets[1].filters
           IN  /\ e.name = f.name
               /\ cfg.status = "done" =>
                    /\ cfg.output.type = f.outputType
                    /\ f.outputType = "tcp" =>
                         \A o \in {"host", "port"} : Get(cfg.output.option, o, "") = f[o]
                    /\ cfg.serializer.type = f.serializer
                    /\ f.serializer = "xml" =>
                         f.beautified = (Get(cfg.serializer.option, "beautifiedOutput", "") = "yes")
                    /\ Len(written) = Len(f.filters)
                    /\ \A k \in DOMAIN written :
                         /\ written[k].mode = Current(f.filters[k]).matchingMode
                         /\ written[k].text = Current(f.filters[k]).term ]_vars

\* What the editor can show, or carries through: one output and one serializer
\* of its kinds, no backtraces, and of filters those on paths, as long as the
\* form has not shown them.
Representable(e, wasShown) ==
  LET outputs == WithTag(e.children, "output")
      serializers == WithTag(e.children, "serializer")
  IN  /\ Len(outputs) = 1 /\ Len(serializers) = 1
      /\ wasShown => /\ WithTag(e.children, "tracepointset") = <<>>
                     /\ outputs[1].type \in {"tcp", "stdout"}
                     /\ DOMAIN serializers[1].option = {x \in {"beautifiedOutput"} :
                                                         serializers[1].type = "xml"}
      /\ \A i \in DOMAIN e.children : e.children[i].tag = "tracepointset" =>
            /\ e.children[i].backtraces # "yes"
            /\ \A f \in Range(e.children[i].filters) : f.tag = "pathfilter"

KeysFirst(doc) ==
  \A i, j \in DOMAIN doc : doc[i].tag = "process" /\ doc[j].tag # "process" => j < i

\* A process the user did not edit behaves as before, if the editor can
\* represent it, no row was deleted and the trace keys were left alone.
UneditedKept ==
  [][ Accept /\ ~removedRow /\ KeysFirst(opened)
        /\ UniqueNames(opened) /\ UniqueNames(file')
        /\ m_traceKeys' = ReadTraceKeys(opened) =>
        \A i \in DOMAIN WithTag(opened, "process") \ DOMAIN entered :
           LET e == WithTag(opened, "process")[i]
               before == Behaviour(opened, e.name, "strict")
           IN  Representable(e, i \in shown) /\ before.loaded =>
                 Behaviour(file', e.name, "strict") = before ]_vars
=============================================================================
