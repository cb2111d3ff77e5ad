------------------------------ MODULE XmlStream ------------------------------
(***************************************************************************)
(* The XML in which a traced application sends its entries                 *)
(* (XMLSerializer of hooklib/serializer.cpp) and the daemon's reader of it *)
(* (server/xmlcontenthandler.cpp over QXmlStreamReader).                   *)
(*                                                                         *)
(* The stream is a sequence of the tokens QXmlStreamReader reports.  A     *)
(* text is the sequence of the pieces it is written in: splitCDataEndToken *)
(* ends one CDATA section and begins another inside each "]]>", and the    *)
(* reader reports every CDATA section, and the white space around it, as a *)
(* Characters token of its own.  The empty text is the sequence without    *)
(* pieces, and so is a text, list or group the entry does not have: both   *)
(* are read as the empty string.                                           *)
(***************************************************************************)
EXTENDS Naturals, Sequences, SequencesExt

CONSTANT Beautified  \* m_beautifiedOutput: elements are put on indented lines

Blank == "blank"     \* the piece of white space between two elements

Unescaped == "a[\"b\"]"  \* a variable's name that does not fit into an attribute

StartToken(n, a) == [kind |-> "start", name |-> n, value |-> a]
CharsToken(piece) == [kind |-> "chars", name |-> "", value |-> piece]
EndToken(n) == [kind |-> "end", name |-> n, value |-> ""]

-----------------------------------------------------------------------------
(* What the traced application writes.                                     *)

\* The white space in front of an element.
Indent == IF Beautified THEN <<CharsToken(<<Blank>>)>> ELSE <<>>

\* "<![CDATA[" splitCDataEndToken(text) "]]>"
CData(text) ==
  IF text = <<>> THEN <<CharsToken(<<>>)>>
  ELSE [i \in DOMAIN text |-> CharsToken(<<text[i]>>)]

Element(n, a, content) == <<StartToken(n, a)>> \o content \o <<EndToken(n)>>
Line(n, a, content) == Indent \o Element(n, a, content)

\* One element, with what it contains, for every member of a list.
Each(list, Write(_)) == FlattenSeq([i \in DOMAIN list |-> Write(list[i])])

WriteKey(k) == Line("key", k.enabled, CData(k.name))

\* convertVariable; the name is the expression traced, written as it is.
WriteVariable(v) ==
  Line("variable", [name |-> v.name, type |-> v.type], CData(v.value))

\* What QXmlStreamReader takes for a start tag.
WellFormed(t) ==
  t.kind = "start" /\ t.name = "variable" => t.value.name # Unescaped

WriteFrame(f) ==
  Line("frame", "", Line("module", "", CData(f.module))
                    \o Line("function", f.offset, CData(f.function))
                    \o Line("location", f.line, CData(f.path))
                    \o Indent)

\* The storage configuration of the process goes with every entry.
WriteStorage(cfg) ==
  Line("storageconfiguration", [maximumSize |-> cfg.maximumSize, shrinkBy |-> cfg.shrinkBy],
       Indent \o CData(cfg.archiveDir) \o Indent)

\* XMLSerializer::serialize( TraceEntry ); group, trace keys, variables,
\* backtrace and message only if the entry has them.
SerializeEntry(e, cfg) ==
  Element("traceentry", e.who,
       Line("processname", "", CData(e.processname))
    \o Line("stackposition", "", CData(e.stackposition))
    \o (IF e.group = <<>> THEN <<>> ELSE Line("group", "", CData(e.group)))
    \o (IF e.traceKeys = <<>> THEN <<>>
        ELSE Line("tracekeys", "", Each(e.traceKeys, WriteKey) \o Indent))
    \o Line("type", "", CData(e.type))
    \o Line("location", e.line, CData(e.path))
    \o Line("function", 0, CData(e.function))
    \o (IF e.variables = <<>> THEN <<>>
        ELSE Line("variables", "", Each(e.variables, WriteVariable) \o Indent))
    \o (IF e.backtrace = <<>> THEN <<>>
        ELSE Line("backtrace", "", Each(e.backtrace, WriteFrame) \o Indent))
    \o (IF e.message = <<>> THEN <<>> ELSE Line("message", "", CData(e.message)))
    \o WriteStorage(cfg)
    \o Indent)

\* XMLSerializer::serialize( ProcessShutdownEvent )
SerializeShutdown(ev) ==
  Element("shutdownevent", ev.who, CData(ev.name))

-----------------------------------------------------------------------------
(* What the daemon's handler makes of it.                                  *)

\* TraceEntry(), StackFrame(), ...
NewEntry ==
  [who |-> "", processname |-> <<>>, stackposition |-> <<>>, group |-> <<>>,
   traceKeys |-> <<>>, type |-> <<>>, path |-> <<>>, line |-> 0, function |-> <<>>,
   variables |-> <<>>, backtrace |-> <<>>, message |-> <<>>]
NewFrame == [module |-> <<>>, function |-> <<>>, offset |-> 0, path |-> <<>>, line |-> 0]
NewVariable == [name |-> "", type |-> "", value |-> <<>>]
NewKey == [name |-> <<>>, enabled |-> FALSE]
NewShutdownEvent == [who |-> "", name |-> <<>>]
NewStorage == [maximumSize |-> 0, shrinkBy |-> 10, archiveDir |-> <<>>]

\* The members of XmlContentHandler.
NewHandler ==
  [entry |-> NewEntry, variable |-> NewVariable, s |-> <<>>, line |-> 0,
   frame |-> NewFrame, inFrame |-> FALSE, event |-> NewShutdownEvent,
   storage |-> NewStorage, key |-> NewKey]

\* m_s.trimmed()
Trimmed(s) == SelectSeq(s, LAMBDA piece : piece # Blank)

\* handleStartElement; an element it does not know changes nothing.
handleStartElement(h, n, a) ==
  CASE n = "traceentry" -> [h EXCEPT !.entry = [NewEntry EXCEPT !.who = a]]
    [] n = "variable" -> [h EXCEPT !.variable =
                            [NewVariable EXCEPT !.name = a.name, !.type = a.type]]
    [] n = "location" -> [h EXCEPT !.line = a]
    [] n = "frame" -> [h EXCEPT !.inFrame = TRUE, !.frame = NewFrame]
    [] n = "function" -> [h EXCEPT !.frame.offset = a]
    [] n = "shutdownevent" -> [h EXCEPT !.event = [NewShutdownEvent EXCEPT !.who = a]]
    [] n = "storageconfiguration" ->
         [h EXCEPT !.storage = [NewStorage EXCEPT !.maximumSize = a.maximumSize,
                                                  !.shrinkBy = a.shrinkBy]]
    [] n = "key" -> [h EXCEPT !.key = [NewKey EXCEPT !.enabled = a]]
    [] OTHER -> h

\* Mutant: a location or function is the trace point's wherever it stands.
TakesFrames(h, n, s) ==
  CASE n = "location" -> [h EXCEPT !.entry.path = s, !.entry.line = h.line]
    [] n = "function" -> [h EXCEPT !.entry.function = s]

\* "location" and "function" occur in the entry and in the frames of its
\* backtrace.
Place(h, n, s) ==
  CASE n = "location" /\ h.inFrame -> [h EXCEPT !.frame.path = s, !.frame.line = h.line]
    [] n = "location" /\ ~h.inFrame -> [h EXCEPT !.entry.path = s, !.entry.line = h.line]
    [] n = "function" /\ h.inFrame -> [h EXCEPT !.frame.function = s]
    [] n = "function" /\ ~h.inFrame -> [h EXCEPT !.entry.function = s]

\* handleEndElement, without the calls it makes.
handleEndElement(h, n) ==
  LET s == Trimmed(h.s)
      c == [h EXCEPT !.s = <<>>]   \* m_s.clear()
  IN  CASE n \in {"processname", "stackposition", "type", "group", "message"} ->
             [c EXCEPT !.entry[n] = s]
        [] n \in {"location", "function"} -> Place(c, n, s)
        [] n = "module" -> [c EXCEPT !.frame.module = s]
        [] n = "frame" -> [h EXCEPT !.inFrame = FALSE,
                                    !.entry.backtrace = Append(@, h.frame)]
        [] n = "variable" -> [c EXCEPT !.entry.variables =
                                Append(@, [h.variable EXCEPT !.value = s])]
        [] n = "key" -> [c EXCEPT !.key.name = s,
                                  !.entry.traceKeys = Append(@, [h.key EXCEPT !.name = s])]
        [] n = "shutdownevent" -> [c EXCEPT !.event.name = s]
        [] n = "storageconfiguration" -> [c EXCEPT !.storage.archiveDir = s]
        [] OTHER -> h

\* The body of the loop in continueParsing.
Read(h, t) ==
  CASE t.kind = "start" -> handleStartElement(h, t.name, t.value)
    [] t.kind = "chars" -> [h EXCEPT !.s = t.value]
    [] t.kind = "end" -> handleEndElement(h, t.name)

\* The elements whose end makes handleEndElement call the feeder.
Calls == {"traceentry", "shutdownevent", "storageconfiguration"}
=============================================================================
