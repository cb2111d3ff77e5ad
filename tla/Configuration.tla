--------------------------- MODULE Configuration ---------------------------
(***************************************************************************)
(* What a configuration file means to a traced process: reading it         *)
(* (hooklib/configuration.cpp), the filters (hooklib/filter.cpp) and what  *)
(* Trace makes of it at a trace point (hooklib/trace.cpp).                 *)
(*                                                                         *)
(* A document is the sequence of the elements below the root.  An element  *)
(* is a record with a tag; "" stands for an attribute, a text or a child   *)
(* that is absent, and a set of options is a function from names to texts. *)
(* A pattern matches the text that equals it and, unless the mode is       *)
(* strict, a pattern of Wild matches every text.  An object is represented *)
(* by the element it was created from.  RefMeaning, at the end, says what  *)
(* a document means without reading it in order.                           *)
(***************************************************************************)
EXTENDS Naturals, Sequences, FiniteSets, SequencesExt, Functions

CONSTANTS
  TracePoints,   \* records [sourceFile, functionName, groupName]
  Wild           \* patterns of wildcards that match every text

Get(options, name, default) ==
  IF name \in DOMAIN options THEN options[name] ELSE default

-----------------------------------------------------------------------------
(* Filters.                                                                *)

MatchingModes == {"strict", "regexp", "wildcard"}

\* PathFilter, FunctionFilter: a mode that is none of the three rejects.
Matches(mode, pattern, text) ==
  CASE mode = "strict" -> pattern = text
    [] mode \in {"regexp", "wildcard"} -> pattern = text \/ pattern \in Wild
    [] OTHER -> FALSE

Texts(keys) == {keys[i].text : i \in DOMAIN keys}

\* GroupFilter
GroupAccepts(mode, groups, tp) ==
  IF mode = "whitelist" THEN tp.groupName \in groups ELSE tp.groupName \notin groups

\* acceptsTracePoint.  The variable matchingMode is not initialised if the
\* element has no such attribute: the filter then has the mode garbage.
RECURSIVE AcceptsTracePoint(_, _, _)
AcceptsTracePoint(e, garbage, tp) ==
  LET mode == IF e.mode = "" THEN garbage ELSE e.mode
      accepts(sub) == AcceptsTracePoint(sub, garbage, tp)
  IN  CASE e.tag = "matchanyfilter" -> \E i \in DOMAIN e.sub : accepts(e.sub[i])
        [] e.tag = "matchallfilter" -> \A i \in DOMAIN e.sub : accepts(e.sub[i])
        [] e.tag = "pathfilter"     -> Matches(mode, e.text, tp.sourceFile)
        [] e.tag = "functionfilter" -> Matches(mode, e.text, tp.functionName)
        [] e.tag = "tracekeyfilter" ->
             GroupAccepts(IF e.mode = "" THEN "whitelist" ELSE e.mode,
                          Texts(e.sub), tp)

\* createFilterFromElement returns a filter.
RECURSIVE CreatesFilter(_)
CreatesFilter(e) ==
  CASE e.tag \in {"matchanyfilter", "matchallfilter"} ->
         \A i \in DOMAIN e.sub : CreatesFilter(e.sub[i])
    [] e.tag \in {"pathfilter", "functionfilter"} ->
         e.mode \in MatchingModes \cup {""} /\ e.text # ""
    [] e.tag = "tracekeyfilter" ->
         /\ e.mode \in {"", "whitelist", "blacklist"}
         /\ \A i \in DOMAIN e.sub : e.sub[i].tag = "key"
    [] OTHER -> FALSE

-----------------------------------------------------------------------------
(* The children of a <process> element.                                    *)

\* createSerializerFromElement: an option that is missing is "no".
CreatesSerializer(e) == e.type \in {"plaintext", "xml"}

\* createTracePointSetFromElement
CreatesTracePointSet(e) ==
  /\ e.backtraces \in {"", "yes", "no"} /\ e.variables \in {"", "yes", "no"}
  /\ e.filters # <<>>
  /\ \A i \in DOMAIN e.filters : CreatesFilter(e.filters[i])

\* createOutputFromElement
CreatesOutput(e) ==
  CASE e.type = "stdout" -> TRUE
    [] e.type = "file" -> Get(e.option, "filename", "") # ""
    [] e.type = "tcp" -> /\ Get(e.option, "host", "") # ""
                         /\ Get(e.option, "port", "default") # "0"
    [] OTHER -> FALSE

None == [type |-> "none"]

Created == [status |-> "reading", serializer |-> None, output |-> None,
            sets |-> <<>>, keys |-> <<>>, storage |-> <<>>]

Failed(cfg) == [cfg EXCEPT !.status = "failed"]

\* One turn of readProcessElement's loop.  An element it does not know is
\* reported, and nothing else.
ReadProcessChild(cfg, e) ==
  CASE e.tag = "serializer" ->
         IF cfg.serializer # None \/ ~CreatesSerializer(e) THEN Failed(cfg)
         ELSE [cfg EXCEPT !.serializer = e]
    [] e.tag = "tracepointset" ->
         IF ~CreatesTracePointSet(e) THEN Failed(cfg)
         ELSE [cfg EXCEPT !.sets = Append(@, e)]
    [] e.tag = "output" ->
         IF cfg.output # None \/ ~CreatesOutput(e) THEN Failed(cfg)
         ELSE [cfg EXCEPT !.output = e]
    [] OTHER -> cfg

WhileReading(Step(_, _), cfg, s) ==
  FoldLeft(LAMBDA c, e : IF c.status = "reading" THEN Step(c, e) ELSE c, cfg, s)

ReadProcessElement(cfg, e) ==
  LET read == WhileReading(ReadProcessChild, cfg, e.children)
  IN  IF read.status = "reading" THEN [read EXCEPT !.status = "done"] ELSE read

\* readTraceKeysElement
ReadTraceKeysElement(cfg, e) ==
  LET key(k) == [name |-> k.text, enabled |-> k.enabled \in {"", "true"}]
  IN  IF \E i \in DOMAIN e.children : e.children[i].tag # "key" THEN Failed(cfg)
      ELSE [cfg EXCEPT !.keys = @ \o [i \in DOMAIN e.children |-> key(e.children[i])]]

StorageNames == {"maximumSize", "shrinkBy", "archiveDirectory"}

\* readStorageElement: each of the three, once, with a text.
ReadStorageElement(cfg, e) ==
  LET value(name) == SelectSeq(e.children, LAMBDA c : c.tag = name)
  IN  IF /\ \A i \in DOMAIN e.children : e.children[i].tag \in StorageNames
         /\ \A name \in StorageNames : Len(value(name)) = 1 /\ value(name)[1].text # ""
        THEN [cfg EXCEPT !.storage = [name \in StorageNames |-> value(name)[1].text]]
        ELSE Failed(cfg)

\* One turn of loadFrom's loop, in the process called myProcessName.
ReadTopLevel(myProcessName, cfg, e) ==
  CASE e.tag = "process" -> IF e.name = "" THEN Failed(cfg)
                            ELSE IF e.name = myProcessName THEN ReadProcessElement(cfg, e)
                            ELSE cfg
    [] e.tag = "tracekeys" -> ReadTraceKeysElement(cfg, e)
    [] e.tag = "storage" -> ReadStorageElement(cfg, e)
    [] OTHER -> Failed(cfg)

\* loadFrom: the first <process> element of that name ends it.  Mutant: the
\* last one counts.
LoadFromLast(doc, myProcessName) ==
  LET cfg == FoldLeft(LAMBDA c, e : IF c.status = "failed" THEN c
                                    ELSE ReadTopLevel(myProcessName, c, e), Created, doc)
  IN  [cfg EXCEPT !.status = IF @ = "reading" THEN "done" ELSE @]
LoadFrom(doc, myProcessName) ==
  LET cfg == WhileReading(LAMBDA c, e : ReadTopLevel(myProcessName, c, e), Created, doc)
  IN  [cfg EXCEPT !.status = IF @ = "reading" THEN "done" ELSE @]

-----------------------------------------------------------------------------
(* The use Trace makes of it.                                              *)

EnabledKeys(cfg) == {cfg.keys[i].name : i \in {j \in DOMAIN cfg.keys : cfg.keys[j].enabled}}

\* reloadConfiguration: the enabled keys restrict each set, if there are any.
SetAccepts(cfg, i, garbage, tp) ==
  /\ \A j \in DOMAIN cfg.sets[i].filters :
        AcceptsTracePoint(cfg.sets[i].filters[j], garbage, tp)
  /\ EnabledKeys(cfg) # {} => tp.groupName \in EnabledKeys(cfg)

\* configureTracePoint: without a set every trace point is active, else the
\* first set that accepts it says what is recorded.
ConfigureTracePoint(cfg, garbage, tp) ==
  LET accepting == {i \in DOMAIN cfg.sets : SetAccepts(cfg, i, garbage, tp)}
      first == CHOOSE i \in accepting : \A j \in accepting : i <= j
  IN  IF cfg.sets = <<>> THEN {"LogTracePoint"}
      ELSE IF accepting = {} THEN {}
      ELSE {"LogTracePoint"}
             \cup {a \in {"YieldBacktrace"} : cfg.sets[first].backtraces = "yes"}
             \cup {a \in {"YieldVariables"} : cfg.sets[first].variables = "yes"}

\* What a process does under a document: its configuration, or none at all,
\* and what it records at each trace point.
Behaviour(doc, myProcessName, garbage) ==
  LET cfg == LoadFrom(doc, myProcessName)
  IN  IF cfg.status = "failed" THEN [loaded |-> FALSE]
      ELSE [loaded |-> TRUE, serializer |-> cfg.serializer, output |-> cfg.output,
            storage |-> cfg.storage, keys |-> Range(cfg.keys),
            actions |-> [tp \in TracePoints |-> ConfigureTracePoint(cfg, garbage, tp)]]

-----------------------------------------------------------------------------
(* Reference: what a document means, said without an order of reading      *)
(* (doc/tracelib_xml_config.dox:260-355; no mode of paths and functions is *)
(* said to be the default there, that of keys is to blacklist).            *)

RECURSIVE RefAccepted(_)
RefAccepted(e) ==
  LET subs == {RefAccepted(e.sub[i]) : i \in DOMAIN e.sub}
      match(text) == e.text = text \/ (e.mode \in {"regexp", "wildcard"} /\ e.text \in Wild)
  IN  CASE e.tag = "matchanyfilter" -> UNION subs
        [] e.tag = "matchallfilter" -> {tp \in TracePoints : \A s \in subs : tp \in s}
        [] e.tag = "pathfilter"     -> {tp \in TracePoints : match(tp.sourceFile)}
        [] e.tag = "functionfilter" -> {tp \in TracePoints : match(tp.functionName)}
        [] e.tag = "tracekeyfilter" ->
             LET listed == {tp \in TracePoints : tp.groupName \in Texts(e.sub)}
             IN  IF e.mode = "whitelist" THEN listed ELSE TracePoints \ listed

\* The elements that count: those up to the first <process> of that name.
RefOwn(doc, name) ==
  {i \in DOMAIN doc : /\ doc[i].tag = "process" /\ doc[i].name = name
                      /\ \A j \in 1 .. i - 1 : doc[j].tag = "process" => doc[j].name # name}
RefCounts(doc, name) ==
  {i \in DOMAIN doc : \A o \in RefOwn(doc, name) : i <= o}

\* The trace points recorded, if the file can be read: those a set of the
\* process accepts, and whose key is enabled if keys are.
RefRecorded(doc, name) ==
  LET own == UNION {{<<i, c>> : c \in DOMAIN doc[i].children} : i \in RefOwn(doc, name)}
      sets == {doc[p[1]].children[p[2]] : p \in
                 {q \in own : doc[q[1]].children[q[2]].tag = "tracepointset"}}
      accepted(set) == {tp \in TracePoints : \A i \in DOMAIN set.filters :
                           tp \in RefAccepted(set.filters[i])}
      keys == UNION {Range(doc[i].children) : i \in
                 {j \in RefCounts(doc, name) : doc[j].tag = "tracekeys"}}
      enabled == {k.text : k \in {j \in keys : j.enabled \in {"", "true"}}}
      allowed == {tp \in TracePoints : enabled = {} \/ tp.groupName \in enabled}
  IN  IF sets = {} THEN TracePoints
      ELSE UNION {accepted(set) : set \in sets} \cap allowed
=============================================================================
