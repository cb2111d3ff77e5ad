-------------------------------- MODULE Daemon --------------------------------
(***************************************************************************)
(* The trace daemon's server (server/server.cpp): traced applications send *)
(* XML over sockets of their own, each read by a NetworkingThread that     *)
(* posts the data to the main thread, where ONE XML reader is fed with all *)
(* of it; what the reader completes is stored and forwarded to the GUIs.   *)
(*                                                                         *)
(* The main thread runs one slot at a time ("running"), and a slot is a    *)
(* sequence of steps: a token of the XML reader, or an iteration of a GUI  *)
(* connection's read loop.  Data and their posting to the main thread are  *)
(* one action, as nothing else reads them in between.  The feeder's        *)
(* tables are abstracted to the sequence of entries (see Feeder), a socket *)
(* towards a GUI to the sequence of datagrams written to it.               *)
(***************************************************************************)
EXTENDS XmlStream, FiniteSets

CONSTANTS
  Clients,      \* traced applications
  Items,        \* Items[c]: what c sends, in order
  GUIs,         \* GUI connections
  ChunkSizes,   \* bound: numbers of tokens that arrive at a time
  MaxStored,    \* bound: entries after which the database is full
  MaxConnects,  \* bound: times a GUI connects
  MaxNukes,     \* bound: requests the GUIs send
  Hazards       \* what the environment does: a subset of HazardKinds

\* "die": a client's connection ends in the middle of an entry; "frame": even
\* inside a <frame>; "mixed": data of two clients' entries alternate; "split":
\* a GUI's request arrives in two parts; "fail": storing an entry fails.
HazardKinds == {"die", "frame", "mixed", "split", "fail"}

ASSUME DaemonHazardsAssumption == Hazards \subseteq HazardKinds
ASSUME ChunksAssumption == ChunkSizes \subseteq Nat
ASSUME DaemonBoundsAssumption == MaxStored \in Nat /\ MaxConnects \in Nat /\ MaxNukes \in Nat
ASSUME GUIsAssumption == GUIs \cap {"none", "xml"} = {}

VARIABLES
  position,     \* tokens of each client's stream that have arrived
  connected,    \* clients whose socket is connected
  running,      \* the slot the main thread is in: "none", "xml" or a GUI
  unread,       \* data the XML reader has not read yet
  reader,       \* the XML reader and the members of XmlContentHandler
  storage,      \* m_maximumSize, m_shrinkBy and m_archiveDir of the feeder
  db,           \* entries in the trace database, in the order of their ids
  removed,      \* entries archived or deleted since
  lost,         \* entries whose storing failed
  nextPayloadSize, \* the static variable of GUIConnection::handleIncomingData
  gui           \* GUIConnection objects, with both directions of the socket

xmlVars == <<position, connected, unread, reader>>
dbVars == <<storage, db, removed, lost>>
vars == <<xmlVars, dbVars, running, nextPayloadSize, gui>>

SerializeItem(i) ==
  IF i.kind = "entry" THEN SerializeEntry(i.entry, i.storage) ELSE SerializeShutdown(i.event)

\* The bytes each client writes to its socket.
Stream == [c \in Clients |-> Each(Items[c], SerializeItem)]

\* All lists and texts in Items are sequences.
ASSUME StreamAssumption ==
  \A c \in Clients :
    LET n == Len(Stream[c])
    IN  n \in Nat /\ Stream[c] = [i \in 1 .. n |-> Stream[c][i]]

FileNameDatagram == [type |-> "TraceFileName", entry |-> NewEntry]
EntryDatagram(e) == [type |-> "TraceEntry", entry |-> e]
ShutdownDatagram == [type |-> "ProcessShutdownEvent", entry |-> NewEntry]
NukeFinishedDatagram == [type |-> "DatabaseNukeFinished", entry |-> NewEntry]

\* A request of a GUI: the size of the payload, and the payload.
Bytes(part) == IF part = "size" THEN 2 ELSE 9
BytesAvailable(parts) == FoldLeft(LAMBDA n, part : n + Bytes(part), 0, parts)

NoConnection ==
  [open |-> FALSE, in |-> <<>>, coming |-> <<>>, out |-> <<>>, since |-> 0,
   connects |-> 0, asked |-> 0]

StoredEver == removed \o db

Init ==
  /\ position = [c \in Clients |-> 0]
  /\ connected = Clients
  /\ running = "none"
  /\ unread = <<>>
  /\ reader = [open |-> <<>>, error |-> FALSE, handler |-> NewHandler]
  /\ storage = NewStorage
  /\ db = <<>> /\ removed = <<>> /\ lost = {}
  /\ nextPayloadSize = 0
  /\ gui = [g \in GUIs |-> NoConnection]

-----------------------------------------------------------------------------
(* Data from the traced applications.                                      *)

\* The client's data end inside an element of its.
InsideElement(c) ==
  LET sent == SubSeq(Stream[c], 1, position[c])
  IN  Len(SelectSeq(sent, LAMBDA t : t.kind = "start"))
        # Len(SelectSeq(sent, LAMBDA t : t.kind = "end"))

\* The lengths of the data that may arrive next; the last may be shorter.
Chunks(c) ==
  LET left == Len(Stream[c]) - position[c]
  IN  {Min({size, left}) : size \in ChunkSizes} \ {0}

\* ClientSocket, NetworkingThread and Server::handleIncomingData up to the
\* loop of continueParsing.
handleIncomingData(c, n) ==
  /\ running = "none"
  /\ c \in connected
  /\ n \in Chunks(c)
  /\ "mixed" \in Hazards \/ \A d \in connected \ {c} : ~InsideElement(d)
  /\ position' = [position EXCEPT ![c] = @ + n]
  /\ unread' = unread \o SubSeq(Stream[c], position[c] + 1, position[c] + n)
  /\ running' = IF reader.error THEN "none" ELSE "xml"
  /\ UNCHANGED <<connected, reader, dbVars, nextPayloadSize, gui>>

\* The client dies or its network does; what was still to come is lost.
Disconnect(c) ==
  /\ "die" \in Hazards
  /\ c \in connected
  /\ running = "none"
  /\ "frame" \in Hazards \/ ~reader.handler.inFrame
  /\ connected' = connected \ {c}
  /\ UNCHANGED <<position, unread, reader, dbVars, running, nextPayloadSize, gui>>

\* The token cannot be what comes next in a document.
NotWellFormed(open, t) ==
  \/ ~WellFormed(t)
  \/ t.kind = "end" /\ (open = <<>> \/ Last(open) # t.name)

\* readNext() and what the handler does with the token.  After an error
\* atEnd() remains true, whatever is added.
ReadToken(r, t) ==
  IF r.error \/ NotWellFormed(r.open, t) THEN [r EXCEPT !.error = TRUE]
  ELSE [r EXCEPT !.handler = Read(@, t),
                 !.open = CASE t.kind = "start" -> Append(@, t.name)
                            [] t.kind = "end" -> Front(@)
                            [] t.kind = "chars" -> @]

IsCall(t) == t.kind = "end" /\ t.name \in Calls

\* The next token that makes the handler call the feeder, or the last one.
NextCall == Min({i \in DOMAIN unread : IsCall(unread[i])} \cup {Len(unread)})

\* The reader after the tokens: the member of a set of one, which TLC
\* evaluates once.
ReadTokens(r, tokens) ==
  LET after[n \in 0 .. Len(tokens)] ==
        IF n = 0 THEN {r} ELSE {ReadToken(q, tokens[n]) : q \in after[n - 1]}
  IN  after[Len(tokens)]

\* The loop of continueParsing up to that token.
ReadOn ==
  /\ running = "xml"
  /\ \E tokens \in {SubSeq(unread, 1, NextCall)} : reader' \in ReadTokens(reader, tokens)
  /\ unread' = SubSeq(unread, NextCall + 1, Len(unread))
  /\ UNCHANGED <<position, connected, nextPayloadSize>>

\* The loop goes on while there are data.
ContinueParsing == running' = IF Len(unread) > NextCall THEN "xml" ELSE "none"

\* The reader reports an error; XmlParseException leaves continueParsing.
ParseError ==
  /\ ReadOn
  /\ reader'.error
  /\ running' = "none"
  /\ UNCHANGED <<dbVars, gui>>

\* The data end before the next call.
ParseRest ==
  /\ ReadOn
  /\ ~reader'.error
  /\ ~IsCall(unread[NextCall])
  /\ running' = "none"
  /\ UNCHANGED <<dbVars, gui>>

\* The end of an element n is read.
EndOf(n) ==
  /\ ReadOn
  /\ ~reader'.error
  /\ unread[NextCall].kind = "end" /\ unread[NextCall].name = n

\* GUIConnection::write to all in m_guiConnections.
Broadcast(datagrams) ==
  gui' = [g \in GUIs |-> IF gui[g].open THEN [gui[g] EXCEPT !.out = @ \o datagrams]
                         ELSE gui[g]]

\* Mutant: the GUIs are told before the entry is stored.
HandleEntryForwardsFirst ==
  /\ EndOf("traceentry")
  /\ Broadcast(<<EntryDatagram(reader'.handler.entry)>>)
  /\ \/ /\ Len(db) < MaxStored
        /\ db' = Append(db, reader'.handler.entry)
        /\ ContinueParsing
        /\ UNCHANGED <<storage, removed, lost>>
     \/ /\ "fail" \in Hazards
        /\ lost' = lost \cup {reader'.handler.entry}
        /\ running' = "none"
        /\ UNCHANGED <<storage, db, removed>>

\* Server::handleTraceEntry, the entry fits: stored, then forwarded.
HandleEntry ==
  /\ EndOf("traceentry")
  /\ Len(db) < MaxStored
  /\ db' = Append(db, reader'.handler.entry)
  /\ Broadcast(<<EntryDatagram(reader'.handler.entry)>>)
  /\ ContinueParsing
  /\ UNCHANGED <<storage, removed, lost>>

\* Mutant: the GUIs are not told that entries went to the archive.
HandleEntryArchivesQuietly(n) ==
  /\ EndOf("traceentry")
  /\ Len(db) >= MaxStored
  /\ removed' = removed \o SubSeq(db, 1, n)
  /\ db' = Append(SubSeq(db, n + 1, Len(db)), reader'.handler.entry)
  /\ Broadcast(<<EntryDatagram(reader'.handler.entry)>>)
  /\ ContinueParsing
  /\ UNCHANGED <<storage, lost>>

\* The database is full: the oldest n entries are archived, archivedEntries()
\* tells the GUIs, and the entry is stored again.
HandleEntryArchives(n) ==
  /\ EndOf("traceentry")
  /\ Len(db) >= MaxStored
  /\ removed' = removed \o SubSeq(db, 1, n)
  /\ db' = Append(SubSeq(db, n + 1, Len(db)), reader'.handler.entry)
  /\ Broadcast(<<NukeFinishedDatagram, EntryDatagram(reader'.handler.entry)>>)
  /\ ContinueParsing
  /\ UNCHANGED <<storage, lost>>

\* Storing throws: the exception leaves continueParsing, and what the reader
\* still has waits for the next data of any client.
HandleEntryFails ==
  /\ "fail" \in Hazards
  /\ EndOf("traceentry")
  /\ lost' = lost \cup {reader'.handler.entry}
  /\ running' = "none"
  /\ UNCHANGED <<storage, db, removed, gui>>

\* Server::handleShutdownEvent
HandleShutdownEvent ==
  /\ EndOf("shutdownevent")
  /\ Broadcast(<<ShutdownDatagram>>)
  /\ ContinueParsing
  /\ UNCHANGED dbVars

\* Mutant: the configuration that came first remains.
ApplyStorageOnce ==
  /\ EndOf("storageconfiguration")
  /\ storage' = IF storage = NewStorage THEN reader'.handler.storage ELSE storage
  /\ ContinueParsing
  /\ UNCHANGED <<db, removed, lost, gui>>

\* applyStorageConfiguration, in the middle of the entry that brings it.
ApplyStorage ==
  /\ EndOf("storageconfiguration")
  /\ storage' = reader'.handler.storage
  /\ ContinueParsing
  /\ UNCHANGED <<db, removed, lost, gui>>

Parse ==
  \/ ParseError
  \/ ParseRest
  \/ HandleEntry
  \/ \E n \in 1 .. MaxStored : HandleEntryArchives(n)
  \/ HandleEntryFails
  \/ HandleShutdownEvent
  \/ ApplyStorage

-----------------------------------------------------------------------------
(* The GUIs.                                                               *)

\* handleNewGUIConnection: the first datagram is the name of the trace file.
ConnectGUI(g) ==
  /\ running = "none"
  /\ ~gui[g].open
  /\ gui[g].connects < MaxConnects
  /\ gui' = [gui EXCEPT ![g] =
               [NoConnection EXCEPT !.open = TRUE, !.out = <<FileNameDatagram>>,
                  !.since = Len(StoredEver), !.connects = gui[g].connects + 1,
                  !.asked = gui[g].asked]]
  /\ UNCHANGED <<xmlVars, dbVars, running, nextPayloadSize>>

Closed(g) == [NoConnection EXCEPT !.connects = gui[g].connects, !.asked = gui[g].asked]

\* handleDisconnect and guiDisconnected
DisconnectGUI(g) ==
  /\ running = "none"
  /\ gui[g].open
  /\ gui' = [gui EXCEPT ![g] = Closed(g)]
  /\ UNCHANGED <<xmlVars, dbVars, running, nextPayloadSize>>

Requested == FoldSet(LAMBDA g, n : n + gui[g].asked, 0, GUIs)

\* The user of the GUI clears the trace.
RequestNuke(g) ==
  /\ running = "none"
  /\ gui[g].open
  /\ Requested < MaxNukes
  /\ gui' = [gui EXCEPT ![g].coming = @ \o <<"size", "payload">>, ![g].asked = @ + 1]
  /\ UNCHANGED <<xmlVars, dbVars, running, nextPayloadSize>>

\* readyRead: n parts arrive, and GUIConnection::handleIncomingData begins.
ReadyRead(g, n) ==
  /\ running = "none"
  /\ gui[g].open
  /\ n \in 1 .. Len(gui[g].coming)
  /\ "split" \in Hazards \/ n % 2 = 0
  /\ gui' = [gui EXCEPT ![g].in = @ \o SubSeq(gui[g].coming, 1, n),
                        ![g].coming = SubSeq(@, n + 1, Len(@))]
  /\ running' = g
  /\ UNCHANGED <<xmlVars, dbVars, nextPayloadSize>>

Available(g) == BytesAvailable(gui[g].in)

\* The size of the next payload is read ...
ReadSize(g) ==
  /\ running = g
  /\ nextPayloadSize = 0 /\ Available(g) >= 2
  /\ nextPayloadSize' = 9
  /\ gui' = [gui EXCEPT ![g].in = Tail(@)]
  /\ UNCHANGED <<xmlVars, dbVars, running>>

\* ... or there is not enough to read.
WaitForMore(g) ==
  /\ running = g
  /\ Available(g) < (IF nextPayloadSize = 0 THEN 2 ELSE nextPayloadSize)
  /\ running' = "none"
  /\ UNCHANGED <<xmlVars, dbVars, nextPayloadSize, gui>>

\* What is read as the payload does not begin with the magic cookie.
WrongCookie(g) ==
  /\ running = g
  /\ nextPayloadSize # 0 /\ Available(g) >= nextPayloadSize
  /\ Head(gui[g].in) # "payload"
  /\ gui' = [gui EXCEPT ![g] = Closed(g)]
  /\ running' = "none"
  /\ UNCHANGED <<xmlVars, dbVars, nextPayloadSize>>

\* Mutant: one datagram is read each time data arrive.
NukeAndReturn(g) ==
  /\ running = g
  /\ nextPayloadSize # 0 /\ Available(g) >= nextPayloadSize
  /\ Head(gui[g].in) = "payload"
  /\ nextPayloadSize' = 0
  /\ db' = <<>> /\ removed' = removed \o db
  /\ gui' = [h \in GUIs |->
               LET c == IF h = g THEN [gui[h] EXCEPT !.in = Tail(@)] ELSE gui[h]
               IN  IF c.open THEN [c EXCEPT !.out = Append(@, NukeFinishedDatagram)] ELSE c]
  /\ running' = "none"
  /\ UNCHANGED <<xmlVars, storage, lost>>

\* DatabaseNukeDatagram: Server::nukeDatabase, and the loop goes on.
Nuke(g) ==
  /\ running = g
  /\ nextPayloadSize # 0 /\ Available(g) >= nextPayloadSize
  /\ Head(gui[g].in) = "payload"
  /\ nextPayloadSize' = 0
  /\ db' = <<>> /\ removed' = removed \o db
  /\ gui' = [h \in GUIs |->
               LET c == IF h = g THEN [gui[h] EXCEPT !.in = Tail(@)] ELSE gui[h]
               IN  IF c.open THEN [c EXCEPT !.out = Append(@, NukeFinishedDatagram)] ELSE c]
  /\ UNCHANGED <<xmlVars, storage, lost, running>>

HandleRequests(g) == ReadSize(g) \/ WaitForMore(g) \/ WrongCookie(g) \/ Nuke(g)

Next ==
  \/ \E c \in Clients :
       \/ \E n \in Chunks(c) : handleIncomingData(c, n)
       \/ Disconnect(c)
  \/ Parse
  \/ \E g \in GUIs :
       \/ HandleRequests(g)
       \/ ConnectGUI(g) \/ DisconnectGUI(g) \/ RequestNuke(g)
       \/ \E n \in 1 .. 2 * MaxNukes : ReadyRead(g, n)

\* The main thread goes on with the slot it is in; the network delivers what
\* a GUI has sent while the connection lasts.
Spec ==
  /\ Init /\ [][Next]_vars
  /\ WF_vars(Parse)
  /\ WF_vars(\E g \in GUIs : HandleRequests(g))
  /\ \A g \in GUIs : WF_vars(\E n \in 1 .. 2 * MaxNukes : ReadyRead(g, n))

-----------------------------------------------------------------------------
(* Properties.                                                             *)

EntriesOf(c) ==
  LET sent == SelectSeq(Items[c], LAMBDA i : i.kind = "entry")
  IN  [n \in DOMAIN sent |-> sent[n].entry]

\* Entries of which the last token has arrived.
Complete(c) ==
  Len(SelectSeq(SubSeq(Stream[c], 1, position[c]),
                LAMBDA t : t.kind = "end" /\ t.name = "traceentry"))

DatagramTypes == {"TraceFileName", "TraceEntry", "ProcessShutdownEvent", "DatabaseNukeFinished"}

\* The variables are of their types; a slot runs only while it has work, and a
\* closed connection keeps no data.
DaemonTypeOK ==
  /\ \A c \in Clients : position[c] \in 0 .. Len(Stream[c])
  /\ connected \subseteq Clients
  /\ running \in {"none", "xml"} \cup GUIs
  /\ running = "xml" => unread # <<>>
  /\ Len(db) <= MaxStored
  /\ nextPayloadSize \in {0, 9}
  /\ \A g \in GUIs :
       /\ \A i \in DOMAIN gui[g].out : gui[g].out[i].type \in DatagramTypes
       /\ ~gui[g].open => gui[g].out = <<>> /\ gui[g].in = <<>>

\* What an application sends is what the daemon stores (serializer.cpp:161
\* against xmlcontenthandler.cpp:65 and :112): every entry as it was sent, in
\* the order of its application, each once, and all that have arrived except
\* those whose storing failed; whatever the chunks they arrive in, and
\* whatever was left of an entry of an application that died.
EntriesComeThrough ==
  \A c \in Clients :
    LET stored == SelectSeq(StoredEver, LAMBDA e : e.who = c)
        due == SelectSeq(EntriesOf(c), LAMBDA e : e \notin lost)
    IN  /\ IsPrefix(stored, due)
        /\ unread = <<>> /\ ~reader.error =>
             Len(stored) + Cardinality({e \in lost : e.who = c}) = Complete(c)

\* The trace entries among the first n datagrams.
EntriesTold(out, n) == Cardinality({i \in 1 .. n : out[i].type = "TraceEntry"})

\* Every GUI gets every entry stored since it connected, and none that is
\* not stored, in the order of the database (server.cpp:221).
ForwardedAsStored ==
  \A g \in GUIs : gui[g].open =>
    LET out == gui[g].out
    IN  /\ gui[g].since + EntriesTold(out, Len(out)) = Len(StoredEver)
        /\ \A i \in DOMAIN out :
             out[i].type = "TraceEntry" =>
               out[i].entry = StoredEver[gui[g].since + EntriesTold(out, i)]

\* What a GUI was sent since it was last told to start afresh is still in the
\* database: no entry is archived or deleted behind the back of a GUI that
\* shows it (server.cpp:259 and :284).
ShownIsStored ==
  \A g \in GUIs :
    LET out == gui[g].out
    IN  \A i \in DOMAIN out :
          out[i].type = "TraceEntry" =>
            \/ out[i].entry \in ToSet(db)
            \/ \E k \in i + 1 .. Len(out) : out[k].type = "DatabaseNukeFinished"

\* The GUIs are in step with the database, whoever connects, clears or leaves
\* while entries arrive and are archived.
GUIsInStep == DaemonTypeOK /\ ForwardedAsStored /\ ShownIsStored

\* An entry is stored under the limits of the application that sent it, which
\* come with the entry and take effect before its end (server.cpp:252,
\* databasefeeder.cpp:576), although another application's entry with other
\* limits may have been the last.
LimitsOfSender ==
  [][StoredEver' # StoredEver /\ running = "xml" =>
       \A i \in DOMAIN Items[reader'.handler.entry.who] :
         Items[reader'.handler.entry.who][i].kind = "entry" =>
           storage = Items[reader'.handler.entry.who][i].storage]_vars

\* A request to clear the trace is answered, or the connection ends; no
\* request remains in the daemon's buffers (server.cpp:121).
RequestsAnswered ==
  \A g \in GUIs :
    gui[g].in \o gui[g].coming # <<>> ~> gui[g].in \o gui[g].coming = <<>>
=============================================================================
