-------------------------------- MODULE Viewer --------------------------------
(***************************************************************************)
(* The viewer's main window (gui/mainwindow.cpp): its settings and session,*)
(* the daemon it may start, its connection to a daemon, the database it    *)
(* shows, the button that clears the database, and the table of traced     *)
(* applications.  A slot, with the dialog it runs, is one action.          *)
(*                                                                         *)
(* Daemons are abstracted to the port they listen on for viewers and the   *)
(* file they write; what they send is a queue of datagrams (see Daemon).   *)
(* The read loop of ServerSocket keeps the size of the next datagram in a  *)
(* static variable, which outlives the connection.                         *)
(***************************************************************************)
EXTENDS Integers, SequencesExt, FiniteSetsExt, ApplicationTable, Columns

CONSTANTS
  Files,          \* trace files
  Readable,       \* those that Database::open accepts
  Ports,          \* ports for viewers
  Applications,   \* traced applications: numbers, their start times
  StorageChoices, \* bound: what the user enters in the storage dialog
  FirstSettings,  \* settings file and session of an earlier version
  External,       \* External[port]: file of the daemon others start there
  MaxEvents,      \* bound: messages applications send, daemons that come or go
  MaxRequests,    \* bound: requests to clear the database that are not answered
  MaxAttempts,    \* bound: times a trace is opened or a connection tried
  MaxSessions     \* bound: times the viewer is started

VARIABLES
  up,        \* "off", "on" or "crashed"
  sessions, events, attempts,
  ini,       \* the settings file: Settings and the session's columns
  settings,  \* Settings: [auto, port, tracePort, file]
  columns,   \* ColumnsInfo
  process,   \* m_automaticServerProcess: [state, port, tracePort, file]
  daemons,   \* daemons[port]: the file of the daemon that listens there, or ""
  procs,     \* procs[file]: the stop times of the processes in the database
  socket,    \* m_serverSocket: [state, port, file, wired, waiting]
  net,       \* datagrams sent over the connection and not yet read
  requests,  \* requests to clear the database, not yet read by the daemon
  nextPayloadSize,
  shown,     \* the file m_entryItemModel is for; "" if there is no model
  clear,     \* the clear button: [enabled, slots], how often it is connected
  table      \* ApplicationTable

daemonVars == <<daemons, procs, events>>
connectionVars == <<socket, net, requests, nextPayloadSize>>
windowVars == <<shown, clear, table, attempts>>
sessionVars == <<up, sessions, ini>>
vars == <<daemonVars, connectionVars, windowVars, sessionVars, settings, columns, process>>

Idle == [state |-> "none", port |-> 0, tracePort |-> 0, file |-> ""]
NoSocket == [state |-> "none", port |-> 0, file |-> "", wired |-> FALSE, waiting |-> FALSE]

Init ==
  /\ up = "off" /\ sessions = 0 /\ events = 0 /\ attempts = 0
  /\ ini = FirstSettings
  /\ settings = FirstSettings.settings /\ columns = DefaultColumns
  /\ process = Idle
  /\ daemons = [p \in Ports |-> ""]
  /\ procs = [f \in Files |-> [a \in {} |-> NoTime]]
  /\ socket = NoSocket /\ net = <<>> /\ requests = 0 /\ nextPayloadSize = 0
  /\ shown = "" /\ clear = [enabled |-> TRUE, slots |-> 0]
  /\ table = NoApplications

-----------------------------------------------------------------------------
(* Daemons.  What one sends reaches the viewer only while it is connected. *)

Message(type, app) == [type |-> type, app |-> app, sized |-> FALSE]

\* quint16 and payload of a datagram, about.
Size(type) == IF type = "nuked" THEN 9 ELSE IF type = "entry" THEN 90 ELSE 40

Sends(file, m) ==
  net' = IF socket.state = "connected" /\ socket.file = file
         THEN Append(net, m) ELSE net

Running(file) == \E p \in Ports : daemons[p] = file /\ file # ""

\* Server::handleTraceEntry and handleShutdownEvent.
Traces(file, app) ==
  /\ Running(file) /\ events < MaxEvents
  /\ events' = events + 1
  /\ procs' = [procs EXCEPT ![file] = [a \in DOMAIN @ \cup {app} |->
                                         IF a \in DOMAIN @ THEN @[a] ELSE Epoch]]
  /\ Sends(file, Message("entry", app))

Shutdown(file, app) ==
  /\ Running(file) /\ events < MaxEvents
  /\ events' = events + 1
  /\ procs' = [procs EXCEPT ![file] = [a \in DOMAIN @ |-> IF a = app THEN app ELSE @[a]]]
  /\ Sends(file, Message("shutdown", app))

\* Server::nukeDatabase
Nukes ==
  /\ requests > 0 /\ socket.state \in {"connected", "deaf"} /\ Running(socket.file)
  /\ requests' = requests - 1
  /\ procs' = [procs EXCEPT ![socket.file] = [a \in {} |-> NoTime]]
  /\ Sends(socket.file, Message("nuked", 0))
  /\ UNCHANGED events

Lost(s) ==
  IF s.state = "connected" THEN [s EXCEPT !.state = "lost"] ELSE s

ExternalStarts(p) ==
  /\ daemons[p] = "" /\ External[p] # "" /\ ~Running(External[p]) /\ events < MaxEvents
  /\ events' = events + 1
  /\ daemons' = [daemons EXCEPT ![p] = External[p]]
  /\ UNCHANGED socket

Stops(p) ==
  /\ daemons[p] # "" /\ ~(process.state = "listening" /\ process.port = p)
  /\ events < MaxEvents
  /\ events' = events + 1
  /\ daemons' = [daemons EXCEPT ![p] = ""]
  /\ socket' = IF socket.port = p THEN Lost(socket) ELSE socket

Daemons ==
  /\ \/ /\ \E f \in Files, a \in Applications : Traces(f, a) \/ Shutdown(f, a)
        /\ UNCHANGED <<requests, daemons, socket>>
     \/ Nukes /\ UNCHANGED <<daemons, socket>>
     \/ /\ \E p \in Ports : ExternalStarts(p) \/ Stops(p)
        /\ UNCHANGED <<procs, net, requests>>
  /\ UNCHANGED <<nextPayloadSize, windowVars, sessionVars, settings, columns, process>>

\* The process the viewer has started: it listens, or it exits since another
\* daemon has the port.
ProcessStarted ==
  /\ process.state = "starting"
  /\ IF daemons[process.port] = ""
     THEN /\ process' = [process EXCEPT !.state = "listening"]
          /\ daemons' = [daemons EXCEPT ![process.port] = process.file]
     ELSE process' = [process EXCEPT !.state = "exited"] /\ UNCHANGED daemons
  /\ UNCHANGED <<procs, events, connectionVars, windowVars, sessionVars, settings, columns>>

-----------------------------------------------------------------------------
(* The connection.                                                         *)

\* stopAutomaticServer, for the daemons.
WithoutProcess ==
  IF process.state = "listening" THEN [daemons EXCEPT ![process.port] = ""] ELSE daemons

NewSocket(port) == [NoSocket EXCEPT !.state = "connecting", !.port = port]

\* connectToServer with the settings s; found: locateTraceD finds the executable.
\* Without it, or without a file, nothing is started and the function returns:
\* the connection of before stays, lost if it was one to the process.
ConnectToServer(s, found) ==
  /\ daemons' = WithoutProcess
  /\ IF s.auto /\ (s.file = "" \/ ~found)
     THEN /\ process' = Idle
          /\ socket' = IF socket.state # "none" /\ daemons'[socket.port] = ""
                       THEN Lost(socket) ELSE socket
          /\ UNCHANGED <<net, requests>>
     ELSE /\ process' = IF s.auto THEN [state |-> "starting", port |-> s.port,
                                        tracePort |-> s.tracePort, file |-> s.file]
                        ELSE Idle
          /\ socket' = NewSocket(s.port) /\ net' = <<>> /\ requests' = 0

On == up = "on" /\ UNCHANGED sessionVars

Connected ==
  /\ On /\ socket.state = "connecting"
  /\ IF daemons[socket.port] # ""
     THEN /\ socket' = [socket EXCEPT !.state = "connected", !.file = daemons[socket.port]]
          /\ net' = <<Message("fileName", 0)>>
          /\ UNCHANGED requests
     ELSE /\ socket' = [socket EXCEPT !.state = "refused", !.waiting = FALSE]
          /\ requests' = 0
          /\ UNCHANGED net
  /\ UNCHANGED <<nextPayloadSize, daemonVars, windowVars, settings, columns, process>>

\* serverSocketDisconnected; what had not been read is gone.
Disconnected ==
  /\ On /\ socket.state = "lost"
  /\ socket' = NoSocket /\ net' = <<>> /\ requests' = 0
  /\ UNCHANGED <<nextPayloadSize, daemonVars, windowVars, settings, columns, process>>

-----------------------------------------------------------------------------
(* The database shown.                                                     *)

\* MainWindow::setDatabase of a file that can be opened, or not; whenever it
\* succeeds, the clear button is connected once more.
SetDatabase(file, base) ==
  IF file \in Readable
  THEN /\ shown' = file
       /\ clear' = [clear EXCEPT !.slots = @ + 1]
       /\ settings' = [base EXCEPT !.file = file]
       /\ table' = SetApplications(DOMAIN procs[file], "real", procs[file])
  ELSE shown' = "" /\ settings' = base /\ UNCHANGED <<clear, table>>

\* Mutant: the connection of before goes on.
FileOpenTraceOnly(file) ==
  /\ On /\ attempts < MaxAttempts /\ attempts' = attempts + 1
  /\ SetDatabase(file, settings)
  /\ process' = Idle /\ daemons' = WithoutProcess
  /\ UNCHANGED <<connectionVars, procs, events, columns>>

\* fileOpenTrace: the connection and the daemon are given up.
FileOpenTrace(file) ==
  /\ On /\ attempts < MaxAttempts /\ attempts' = attempts + 1
  /\ SetDatabase(file, settings)
  /\ socket' = NoSocket /\ net' = <<>> /\ requests' = 0
  /\ process' = Idle /\ daemons' = WithoutProcess
  /\ UNCHANGED <<nextPayloadSize, procs, events, columns>>

-----------------------------------------------------------------------------
(* ServerSocket::handleIncomingData.                                       *)

Reads ==
  /\ On /\ socket.state \in {"connected", "lost"} /\ net # <<>>
  /\ UNCHANGED <<daemonVars, attempts, columns, process>>

\* Of the next datagram only the size has arrived.
SizeArrives ==
  /\ Reads
  /\ nextPayloadSize = 0
  /\ nextPayloadSize' = Size(Head(net).type)
  /\ net' = [net EXCEPT ![1].sized = TRUE]
  /\ UNCHANGED <<socket, requests, shown, clear, table, settings>>

BytesAvailable == FoldLeft(LAMBDA n, m : n + Size(m.type), 0, net)

\* The size was that of a datagram of a connection of before: what is read for
\* the cookie is something else, and disconnect() cuts all connections of the
\* object's signals.
WrongCookie ==
  /\ Reads
  /\ nextPayloadSize # 0 /\ ~Head(net).sized /\ BytesAvailable >= nextPayloadSize
  /\ socket' = [socket EXCEPT !.state = "deaf"] /\ net' = <<>>
  /\ UNCHANGED <<nextPayloadSize, requests, shown, clear, table, settings>>

\* The datagram is complete; the signal it is emitted as has receivers only
\* once the database is open, and setDatabase connects them.
Datagram(type) ==
  /\ Reads
  /\ nextPayloadSize = 0 \/ Head(net).sized
  /\ Head(net).type = type
  /\ nextPayloadSize' = 0 /\ net' = Tail(net)
  /\ UNCHANGED requests

TraceFileName ==
  /\ Datagram("fileName")
  /\ SetDatabase(socket.file, settings)
  /\ socket' = [socket EXCEPT !.wired = socket.file \in Readable]

TraceEntry(read) ==
  /\ Datagram("entry")
  /\ table' = IF socket.wired THEN TableHandlesEntry(table, Head(net).app, read) ELSE table
  /\ UNCHANGED <<socket, shown, clear, settings>>

ProcessShutdownEvent(read) ==
  /\ Datagram("shutdown")
  /\ table' = IF socket.wired
              THEN TableHandlesShutdown(table, Head(net).app, read, Head(net).app) ELSE table
  /\ UNCHANGED <<socket, shown, clear, settings>>

\* Mutant: the button is not enabled again.
NukedQuietly(c) == c

\* databaseWasNuked, for the button.
Nuked(c) == [c EXCEPT !.enabled = TRUE]

DatabaseNukeFinished ==
  /\ Datagram("nuked")
  /\ clear' = IF socket.wired THEN Nuked(clear) ELSE clear
  /\ table' = IF socket.wired THEN NoApplications ELSE table
  /\ socket' = [socket EXCEPT !.waiting = @ /\ ~socket.wired]
  /\ UNCHANGED <<shown, settings>>

Receive ==
  \/ TraceFileName \/ DatabaseNukeFinished
  \/ \E read \in {"real", "garbage"} : TraceEntry(read) \/ ProcessShutdownEvent(read)

-----------------------------------------------------------------------------
(* The user.                                                               *)

\* The process dies without saving anything; its daemon goes on.
Crash ==
  /\ up' = "crashed"
  /\ process' = Idle
  /\ socket' = NoSocket /\ net' = <<>> /\ requests' = 0
  /\ UNCHANGED <<sessions, ini, nextPayloadSize, daemonVars, attempts, settings>>

Unanswered == requests + Len(SelectSeq(net, LAMBDA m : m.type = "nuked"))

\* clearTracePoints runs as often as it is connected to the button, and the
\* user answers Yes k times.
ClearTracePoints(k) ==
  /\ up = "on" /\ clear.enabled
  /\ k \in 1 .. clear.slots /\ Unanswered + k <= MaxRequests
  /\ IF socket.state # "none"
     THEN /\ clear' = [clear EXCEPT !.enabled = FALSE]
          /\ requests' = IF socket.state = "refused" THEN 0 ELSE requests + k
          /\ socket' = [socket EXCEPT !.waiting = @ \/ socket.state \in {"connecting", "connected"}]
          /\ UNCHANGED <<sessionVars, net, nextPayloadSize, daemonVars, attempts, shown, table,
                         settings, columns, process>>
     ELSE IF shown # ""
     THEN /\ procs' = [procs EXCEPT ![shown] = [a \in {} |-> NoTime]]
          /\ clear' = Nuked(clear) /\ table' = NoApplications
          /\ UNCHANGED <<sessionVars, connectionVars, daemons, events, attempts, shown,
                         settings, columns, process>>
     ELSE Crash /\ UNCHANGED <<shown, clear, table, columns>>

\* toggleFreezeState without a model.
FreezeNothing ==
  /\ up = "on" /\ shown = ""
  /\ Crash /\ UNCHANGED <<shown, clear, table, columns>>

\* editSettings: the columns are changed before the model is needed.
EditSettings(c) ==
  /\ up = "on" /\ columns = RestoreColumns(ini.columns)
  /\ columns' = c
  /\ IF shown = "" THEN Crash
     ELSE UNCHANGED <<sessionVars, connectionVars, daemonVars, attempts, settings, process>>
  /\ UNCHANGED <<shown, clear, table>>

\* Mutant: the port for applications does not count.
NeedToReconnectForViewers(s) ==
  ~(socket.state # "none" /\ s.auto = settings.auto /\ s.port = settings.port
    /\ (s.auto => s.file = settings.file))

\* Mutant: the port counts only for a daemon the viewer starts.
NeedToReconnectIfAuto(s) ==
  ~(socket.state # "none" /\ s.auto = settings.auto
    /\ (s.auto => s.port = settings.port /\ s.file = settings.file
                  /\ s.tracePort = settings.tracePort))

\* editStorage
NeedToReconnect(s) ==
  ~(socket.state # "none" /\ s.auto = settings.auto /\ s.port = settings.port
    /\ (s.auto => s.file = settings.file /\ s.tracePort = settings.tracePort))

\* StorageView::accept and editStorage; "same" leaves the file as it is.
EditStorage(choice) ==
  /\ On
  /\ ~(choice.auto /\ choice.port = choice.tracePort)
  /\ LET s == [choice EXCEPT !.file = IF @ = "same" THEN settings.file ELSE @]
     IN  /\ settings' = s
         /\ IF NeedToReconnect(s)
            THEN /\ attempts < MaxAttempts /\ attempts' = attempts + 1
                 /\ \E found \in BOOLEAN : ConnectToServer(s, found)
            ELSE UNCHANGED <<daemons, process, socket, net, requests, attempts>>
  /\ UNCHANGED <<nextPayloadSize, procs, events, shown, clear, table, columns>>

\* main: with a file on the command line that is opened, otherwise the viewer
\* connects.  The static variable, like all memory, begins anew.
Start(file) ==
  /\ up # "on" /\ sessions < MaxSessions /\ attempts < MaxAttempts
  /\ sessions' = sessions + 1 /\ attempts' = attempts + 1
  /\ columns' = RestoreColumns(ini.columns)
  /\ nextPayloadSize' = 0
  /\ clear' = [enabled |-> TRUE,
               slots |-> IF file \in Readable THEN 1 ELSE 0]
  /\ IF file # ""
     THEN /\ up' = IF file \in Readable THEN "on" ELSE "off"
          /\ shown' = IF file \in Readable THEN file ELSE ""
          /\ settings' = [ini.settings EXCEPT !.file = file]
          /\ table' = IF file \in Readable
                      THEN SetApplications(DOMAIN procs[file], "real", procs[file])
                      ELSE NoApplications
          /\ UNCHANGED <<daemons, process, socket, net, requests>>
     ELSE /\ up' = "on" /\ shown' = "" /\ table' = NoApplications
          /\ settings' = ini.settings
          /\ \E found \in BOOLEAN : ConnectToServer(ini.settings, found)
  /\ UNCHANGED <<ini, procs, events>>

\* The end of main and ~MainWindow.
Quit ==
  /\ up = "on"
  /\ up' = "off"
  /\ ini' = [settings |-> settings, columns |-> ColumnsState(columns)]
  /\ process' = Idle /\ daemons' = WithoutProcess
  /\ socket' = NoSocket /\ net' = <<>> /\ requests' = 0
  /\ UNCHANGED <<sessions, nextPayloadSize, procs, events, windowVars, settings, columns>>

User ==
  \/ \E f \in Files : FileOpenTrace(f)
  \/ \E k \in 1 .. MaxRequests : ClearTracePoints(k)
  \/ FreezeNothing
  \/ \E c \in Moved(columns) : EditSettings(c)
  \/ \E choice \in StorageChoices : EditStorage(choice)
  \/ \E f \in Files \cup {""} : Start(f)
  \/ Quit

Next ==
  \/ Daemons \/ ProcessStarted
  \/ Connected \/ Disconnected \/ SizeArrives \/ WrongCookie \/ Receive
  \/ User

\* Sockets are read and daemons answer.
Spec ==
  /\ Init /\ [][Next]_vars
  /\ WF_vars(Connected) /\ WF_vars(Disconnected)
  /\ WF_vars(Receive) /\ WF_vars(WrongCookie)
  /\ WF_vars(Nukes /\ Daemons)

-----------------------------------------------------------------------------
(* Properties.                                                             *)

\* The variables are of their types.
ViewerTypeOK ==
  /\ up \in {"off", "on", "crashed"}
  /\ settings.file \in Files \cup {""} /\ settings.port \in Ports
  /\ process.state \in {"none", "starting", "listening", "exited"}
  /\ socket.state \in {"none", "connecting", "connected", "lost", "refused", "deaf"}
  /\ daemons \in [Ports -> Files \cup {""}]
  /\ shown \in Readable \cup {""}
  /\ clear.slots \in 0 .. MaxAttempts
  /\ nextPayloadSize \in {0, 9, 40, 90}
  /\ table.items = {r.key : r \in Range(table.rows)}

\* Whatever the user changes, the connection is one to the port of the settings,
\* unless the viewer should have started a daemon and could not, without a file
\* or without an executable: then the connection of before stays, if there is one.
SocketAsSet ==
  socket.state # "none" =>
    socket.port = settings.port \/ (settings.auto /\ process.state = "none")

\* The daemon the viewer has started listens where the settings say.
OwnDaemonAsSet ==
  process.state # "none" =>
    settings.auto /\ process.port = settings.port /\ process.tracePort = settings.tracePort

\* Entries are only received from the daemon whose file is shown, so that they
\* are never added to the table of another database.
WiredShowsServer == socket.wired => shown = socket.file

\* Every column is either visible or invisible, once: the table and the headers
\* index columns by their position.
ColumnsComplete ==
  LET all == columns.visible \o columns.invisible
  IN  Len(all) = Len(ColumnNames) /\ Range(all) = Range(ColumnNames)

\* Whatever columns the user has moved to and fro, and whatever an earlier
\* version has saved, the next session has the columns of this one.
SessionKept == RestoreColumns(ColumnsState(columns)) = columns

\* The connection, the daemon and the database shown follow the settings and the
\* files that are opened, with connections lost in between, and the columns
\* survive the session, in any order of all that.
FollowsSettings ==
  /\ ViewerTypeOK /\ SocketAsSet /\ OwnDaemonAsSet /\ WiredShowsServer
  /\ ColumnsComplete /\ SessionKept

\* When all has been received, the table lists every process in the database:
\* what it read when the database was opened and what it heard since.
ListsApplications ==
  up = "on" /\ socket.state = "connected" /\ socket.wired /\ net = <<>> =>
    DOMAIN procs[shown] \subseteq Listed(table)

\* An end time in the table is that of the application in its row.
StopTimesRight ==
  \A r \in Range(table.rows) : r.stop \in {NoTime, Epoch, r.key.app}

\* The viewer waits for a size that is none of this connection's.
Spoilt == nextPayloadSize # 0 /\ (net = <<>> \/ ~Head(net).sized)

\* A request to clear the database is answered, and the button can be used
\* again, unless the connection is lost or spoilt, or is one to a daemon whose
\* file the viewer cannot open: then nothing is connected to the answer.
ClearAnswered ==
  socket.waiting ~>
    \/ clear.enabled
    \/ socket.state # "connected" \/ Spoilt \/ up # "on"
    \/ socket.file \notin Readable
=============================================================================
