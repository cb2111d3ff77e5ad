---------------------------- MODULE NetworkOutput ---------------------------
(***************************************************************************)
(* The tracing library's TCP output (hooklib/networkoutput_unix.cpp) and   *)
(* the event loop that drives it (hooklib/eventthread_unix.cpp).           *)
(*                                                                         *)
(* The traced application calls open, write, close and the destructor.     *)
(* Each hands a task to the event thread through the command pipe and, but *)
(* for open, waits for an answer in the confirm pipe.  The event thread    *)
(* executes the tasks, watches the socket and owns the buffers.            *)
(*                                                                         *)
(* o is the NetworkOutputPrivate object as its event thread side sees it,  *)
(* together with the places of the EventContext where it is registered.    *)
(* Messages are numbered, have MsgLen bytes each, and the byte number b of *)
(* the stream belongs to message (b - 1) \div MsgLen + 1.                  *)
(***************************************************************************)
EXTENDS Naturals, Sequences, FiniteSets

CONSTANTS
  MsgLen,               \* bytes per message
  MaxMessages,          \* bound: messages written to one output
  MaxOutputs,           \* bound: outputs created one after the other
  Peer,                 \* what the other end may do: a subset of PeerFaults
  EventThreadCloses     \* the configuration may be reloaded (Trace::setOutput
                        \* in the event thread deletes the output)

PeerFaults == {"refuse", "break", "stall"}

ASSUME MsgLenAssumption == MsgLen \in Nat \ {0}
ASSUME BoundsAssumption == MaxMessages \in Nat /\ MaxOutputs \in Nat \ {0}
ASSUME PeerAssumption == Peer \subseteq PeerFaults
ASSUME EventThreadClosesAssumption == EventThreadCloses \in BOOLEAN

VARIABLES
  pc,                   \* where the calling thread is
  network_state,        \* NetworkOutputState, used by the calling thread only
  command,              \* command_pipe: the tasks posted or sent
  confirm,              \* confirm_pipe: the answers
  o,                    \* the observer
  loop,                 \* unixEventProc
  link,                 \* the TCP connection
  stalled,              \* the peer does not read, the socket's buffer is full
  accepted,             \* history: messages write() took into buffers
  wire,                 \* history: bytes given to ::write
  gaveUp,               \* history: the flushing timer expired
  outputs               \* history: outputs created

vars == <<pc, network_state, command, confirm, o, loop, link, stalled,
          accepted, wire, gaveUp, outputs>>

Callers == {"start", "connecting", "ready", "writing", "closing", "closed",
            "deleting", "gone", "discarded"}
NetworkStates == {"Idle", "Opened", "Closed", "Failure"}
ObserverStates == {"NotConnected", "Connecting", "Connected", "Closing", "Error"}
Links == {"none", "connecting", "up", "broken"}
Tasks == {"add", "write", "close"}

\* File descriptors: the socket, or -1.
Fds == {"fd", "none"}

NewObserver ==
  [state |-> "NotConnected", buffers |-> <<>>, buf_pos |-> 0, watching |-> {},
   m_socket |-> "none", m_read_list |-> {}, m_write_list |-> {}, timer |-> FALSE]

Init ==
  /\ pc = "start"
  /\ network_state = "Idle"
  /\ command = <<>> /\ confirm = <<>>
  /\ o = NewObserver
  /\ loop = "running"
  /\ link = "none" /\ stalled = FALSE
  /\ accepted = 0 /\ wire = <<>> /\ gaveUp = FALSE
  /\ outputs = 1

-----------------------------------------------------------------------------
(* The member functions that run in the event thread.                      *)

AddObserver(x, watch) ==
  [x EXCEPT !.m_read_list = IF "read" \in watch THEN @ \cup {x.m_socket} ELSE @,
            !.m_write_list = IF "write" \in watch THEN @ \cup {x.m_socket} ELSE @,
            !.watching = @ \cup watch]

RemoveObserver(x, watch) ==
  [x EXCEPT !.m_read_list = IF "read" \in watch THEN @ \ {x.m_socket} ELSE @,
            !.m_write_list = IF "write" \in watch THEN @ \ {x.m_socket} ELSE @,
            !.watching = @ \ watch]

\* clear: close the socket, drop the buffers (but not buf_pos).
Clear(x) ==
  [x EXCEPT !.state = IF x.m_socket = "none" THEN @ ELSE "NotConnected",
            !.m_socket = "none",
            !.buffers = <<>>]

\* Mutant: endClosing leaves its timer.
EndClosingKeepsTimer(x, notify) ==
  [Clear(RemoveObserver(x, x.watching)) EXCEPT !.state = "NotConnected"]

\* endClosing.  The test "watching != Error" compares with the ObserverState
\* of that name, not with FileEvent::Error, and is always true.
EndClosing(x, notify) ==
  LET y == Clear(RemoveObserver(x, x.watching))
  IN  [y EXCEPT !.state = "NotConnected", !.timer = @ /\ ~notify]

\* Mutant: the socket is watched only from the connection on.
BufferedUnwatched(x, m) == [x EXCEPT !.buffers = Append(@, m)]

\* Mutant: the position is reset even if a message is half written.
BufferedResetsPos(x, m) ==
  LET y == [x EXCEPT !.buffers = Append(@, m), !.buf_pos = 0]
  IN  IF "write" \in x.watching THEN y ELSE AddObserver(y, {"write"})

\* write: the message is buffered, and the socket watched for writing.
Buffered(x, m) ==
  LET y == [x EXCEPT !.buffers = Append(@, m)]
  IN  IF "write" \in x.watching
        THEN y
        ELSE AddObserver([y EXCEPT !.buf_pos = 0], {"write"})

\* The bytes of the buffers that are still to be written.
Pending(x) == Len(x.buffers) * MsgLen - x.buf_pos

\* The loop over the buffers has written n bytes.
Consumed(x, n) ==
  [x EXCEPT !.buffers = SubSeq(@, 1 + (x.buf_pos + n) \div MsgLen, Len(@)),
            !.buf_pos = (x.buf_pos + n) % MsgLen]

\* The number of the next byte of the stream that ::write is given.
NextByte(x) == (Head(x.buffers) - 1) * MsgLen + x.buf_pos + 1

\* The first lines of handleEvent for FileWrite.
NowConnected(x) ==
  IF x.state = "Connecting"
    THEN RemoveObserver([x EXCEPT !.state = "Connected"], {"read"})
    ELSE x

\* FileRead: the connection could not be established.
ConnectFailed(x) ==
  [Clear(RemoveObserver(x, {"read", "write"})) EXCEPT !.state = "Error"]

\* FileEvent::Error: the event loop found the descriptor closed.
Failed(x) ==
  [Clear(IF x.state = "Connecting" THEN RemoveObserver(x, {"write"}) ELSE x)
     EXCEPT !.state = "Error", !.watching = {}]

\* The event thread has no pointer to the object.
Unregistered(x) == x.m_read_list = {} /\ x.m_write_list = {} /\ ~x.timer

-----------------------------------------------------------------------------
(* The calling thread.                                                     *)

EventThread == <<o, loop, link, stalled, accepted, wire, gaveUp, outputs>>

\* open, connect: EINPROGRESS, the socket is handed to the event thread ...
Open ==
  /\ pc = "start"
  /\ network_state' = "Opened"
  /\ o' = [o EXCEPT !.state = "Error", !.m_socket = "fd",
                    !.watching = {"read", "write"}]
  /\ link' = "connecting"
  /\ command' = Append(command, [task |-> "add", message |-> 0])
  /\ pc' = "connecting"
  /\ UNCHANGED <<confirm, loop, stalled, accepted, wire, gaveUp, outputs>>

\* ... and only then marked, while the event thread may already use it.
OpenReturns ==
  /\ pc = "connecting"
  /\ o' = [o EXCEPT !.state = "Connecting"]
  /\ pc' = "ready"
  /\ UNCHANGED <<network_state, command, confirm, loop, link, stalled,
                 accepted, wire, gaveUp, outputs>>

\* open, connect: the host is unknown, or ::connect did not return EINPROGRESS.
OpenFails ==
  /\ pc = "start"
  /\ "refuse" \in Peer
  /\ network_state' = "Opened"
  /\ o' = [o EXCEPT !.state = "Error"]
  /\ link' = "broken"
  /\ pc' = "ready"
  /\ UNCHANGED <<command, confirm, loop, stalled, accepted, wire, gaveUp, outputs>>

\* write: sendTask( WriteDataTask ).
Write ==
  /\ pc = "ready"
  /\ network_state = "Opened"
  /\ accepted < MaxMessages
  /\ command' = Append(command, [task |-> "write", message |-> accepted + 1])
  /\ pc' = "writing"
  /\ UNCHANGED <<network_state, confirm>> /\ UNCHANGED EventThread

\* sendTask returns the task's result; the one byte that the event thread
\* leaves behind when it ends fills only a part of it.
WriteReturns ==
  /\ pc = "writing"
  /\ confirm # <<>>
  /\ confirm' = Tail(confirm)
  /\ network_state' \in IF Head(confirm) = "byte" THEN NetworkStates
                                                 ELSE {Head(confirm)}
  /\ pc' = "ready"
  /\ UNCHANGED command /\ UNCHANGED EventThread

\* NetworkOutput::close.
Close ==
  /\ pc = "ready"
  /\ network_state = "Opened"
  /\ network_state' = "Closed"
  /\ command' = Append(command, [task |-> "close", message |-> 0])
  /\ pc' = "closing"
  /\ UNCHANGED confirm /\ UNCHANGED EventThread

\* ~NetworkOutput, which calls NetworkOutputPrivate::close whatever the state.
Delete ==
  /\ pc \in {"start", "ready", "closed"}
  /\ command' = Append(command, [task |-> "close", message |-> 0])
  /\ pc' = "deleting"
  /\ UNCHANGED <<network_state, confirm>> /\ UNCHANGED EventThread

\* The read at the end of NetworkOutputPrivate::close, and clear().
CloseReturns ==
  /\ pc \in {"closing", "deleting"}
  /\ confirm # <<>>
  /\ confirm' = Tail(confirm)
  /\ o' = Clear(o)
  /\ pc' = IF pc = "closing" THEN "closed" ELSE "gone"
  /\ UNCHANGED <<network_state, command, loop, link, stalled, accepted, wire,
                 gaveUp, outputs>>

\* The handlers run for an output that exists.  What outlives the object (see
\* NoDangling) stays where it is: to call it is undefined behaviour, and the
\* model does not go on from there.
Exists == pc \notin {"gone", "discarded"}

\* The application uses another output (and another socket).
Renew ==
  /\ ~Exists
  /\ outputs < MaxOutputs
  /\ Unregistered(o)
  /\ pc' = "start"
  /\ network_state' = "Idle"
  /\ o' = NewObserver
  /\ link' = "none" /\ stalled' = FALSE
  /\ accepted' = 0 /\ wire' = <<>> /\ gaveUp' = FALSE
  /\ outputs' = outputs + 1
  /\ UNCHANGED <<command, confirm, loop>>

-----------------------------------------------------------------------------
(* The event thread.                                                       *)

\* A closed descriptor is still registered: select fails with EBADF.
Stale(x) == x.m_socket = "none" /\ "fd" \in x.m_read_list \cup x.m_write_list

Environment == <<link, stalled, outputs>>

\* handleError: one registration is erased and its observer told.
HandleError ==
  /\ loop = "running" /\ Exists
  /\ Stale(o)
  /\ o' = Failed(IF "fd" \in o.m_read_list
                   THEN [o EXCEPT !.m_read_list = @ \ {"fd"}]
                   ELSE [o EXCEPT !.m_write_list = @ \ {"fd"}])
  /\ UNCHANGED <<pc, network_state, command, confirm, loop, accepted, wire, gaveUp>>
  /\ UNCHANGED Environment

Executes(task) ==
  /\ loop = "running"
  /\ ~Stale(o)
  /\ command # <<>>
  /\ Head(command).task = task
  /\ command' = Tail(command)
  /\ UNCHANGED <<pc, network_state, loop, wire, gaveUp>>
  /\ UNCHANGED Environment

\* AddIOObserverTask of connect.
ExecuteAdd ==
  /\ Executes("add")
  /\ o' = AddObserver(o, {"read", "write"})
  /\ UNCHANGED <<confirm, accepted>>

\* WriteDataTask.
ExecuteWrite ==
  /\ Executes("write")
  /\ IF o.state \in {"Connecting", "Connected"}
       THEN /\ o' = Buffered(o, Head(command).message)
            /\ accepted' = accepted + 1
            /\ confirm' = Append(confirm, "Opened")
       ELSE /\ confirm' = Append(confirm, "Failure")
            /\ UNCHANGED <<o, accepted>>

\* Mutant: close without flushing.
ExecuteCloseNow ==
  /\ Executes("close")
  /\ o' = EndClosing(o, TRUE)
  /\ confirm' = Append(confirm, "closed")
  /\ UNCHANGED accepted

\* Mutant: flush for as long as it takes.
ExecuteCloseNoTimer ==
  /\ Executes("close")
  /\ IF o.buffers # <<>>
       THEN o' = [o EXCEPT !.state = "Closing"] /\ UNCHANGED confirm
       ELSE o' = EndClosing(o, TRUE) /\ confirm' = Append(confirm, "closed")
  /\ UNCHANGED accepted

\* SocketClosingTask: flush first if there is something to flush.
ExecuteClose ==
  /\ Executes("close")
  /\ IF o.buffers # <<>>
       THEN /\ o' = [o EXCEPT !.state = "Closing", !.timer = TRUE]
            /\ UNCHANGED confirm
       ELSE /\ o' = EndClosing(o, TRUE)
            /\ confirm' = Append(confirm, "closed")
  /\ UNCHANGED accepted

Readable == "fd" \in o.m_read_list /\ link = "broken"

Writable == "fd" \in o.m_write_list /\ (link = "broken" \/ (link = "up" /\ ~stalled))

\* select returned, and the command pipe is empty.
FdsReady ==
  /\ loop = "running" /\ Exists
  /\ ~Stale(o)
  /\ command = <<>>
  /\ UNCHANGED <<pc, network_state, command, loop, accepted, gaveUp>>
  /\ UNCHANGED Environment

HandleRead ==
  /\ FdsReady
  /\ Readable
  /\ o' = ConnectFailed(o)
  /\ UNCHANGED <<confirm, wire>>

\* Mutant: endClosing whenever the buffers are empty.
DrainedAlwaysAnswers(x) ==
  /\ o' = EndClosing(RemoveObserver(x, {"write"}), TRUE)
  /\ confirm' = Append(confirm, "closed")

\* Nothing is left to write: the end of handleEvent for FileWrite.
Drained(x) ==
  /\ IF x.state = "Closing"
       THEN /\ o' = EndClosing(RemoveObserver(x, {"write"}), TRUE)
            /\ confirm' = Append(confirm, "closed")
       ELSE /\ o' = RemoveObserver(x, {"write"})
            /\ UNCHANGED confirm

\* FileWrite without anything to write.
HandleWriteIdle ==
  /\ FdsReady
  /\ ~Readable /\ Writable
  /\ o.buffers = <<>>
  /\ Drained(NowConnected(o))
  /\ UNCHANGED wire

\* FileWrite: the socket takes n bytes of the buffers.
HandleWrite ==
  /\ FdsReady
  /\ ~Readable /\ Writable
  /\ o.buffers # <<>>
  /\ link = "up"
  /\ \E n \in 1 .. Pending(o) :
       /\ wire' = wire \o [i \in 1 .. n |-> NextByte(o) + i - 1]
       /\ IF n = Pending(o)
            THEN Drained(Consumed(NowConnected(o), n))
            ELSE /\ o' = Consumed(NowConnected(o), n)
                 /\ UNCHANGED confirm

\* FileWrite: nothing could be written.  clear() has closed the socket, so
\* removeObserver no longer finds its registration.
HandleWriteError ==
  /\ FdsReady
  /\ ~Readable /\ Writable
  /\ o.buffers # <<>>
  /\ link = "broken"
  /\ o' = RemoveObserver([Clear(NowConnected(o)) EXCEPT !.state = "Error"], {"write"})
  /\ UNCHANGED <<confirm, wire>>

\* handleTimeout: the ten seconds are over.  The descriptor sets for the
\* select that follows were computed before, so a socket closed now makes it
\* fail; handleError finds nothing wrong with the lists, and the event loop
\* ends, leaving one byte in the confirm pipe.
HandleTimeout ==
  /\ loop = "running" /\ Exists
  /\ o.timer
  /\ IF o.state = "Closing"
       THEN /\ o' = EndClosing(o, TRUE)
            /\ gaveUp' = TRUE
            /\ IF o.m_socket = "fd" /\ "fd" \in o.m_read_list \cup o.m_write_list
                 THEN /\ loop' = "ended"
                      /\ confirm' = confirm \o <<"closed", "byte">>
                 ELSE /\ confirm' = Append(confirm, "closed")
                      /\ UNCHANGED loop
       ELSE /\ o' = [o EXCEPT !.timer = FALSE]
            /\ UNCHANGED <<confirm, gaveUp, loop>>
  /\ UNCHANGED <<pc, network_state, command, accepted, wire>>
  /\ UNCHANGED Environment

\* Trace::reloadConfiguration, called by the file monitor in the event thread,
\* deletes the output.  SocketClosingTask runs at once, and as it leaves the
\* state Connected the loop of close() that would process events does nothing:
\* with data to write the destructor returns with the timer just armed and the
\* socket still registered.
EventThreadDelete ==
  /\ EventThreadCloses
  /\ loop = "running"
  /\ ~Stale(o)
  /\ command = <<>>
  /\ pc \in {"start", "ready"}
  /\ o' = IF o.buffers # <<>>
            THEN [o EXCEPT !.state = "Closing", !.timer = TRUE]
            ELSE EndClosing(o, FALSE)
  /\ pc' = "discarded"
  /\ UNCHANGED <<network_state, command, confirm, loop, accepted, wire, gaveUp>>
  /\ UNCHANGED Environment

-----------------------------------------------------------------------------
(* The connection.                                                         *)

LinkOnly == <<pc, network_state, command, confirm, o, loop, accepted, wire,
              gaveUp, outputs>>

Established ==
  /\ link = "connecting"
  /\ link' = "up"
  /\ UNCHANGED stalled /\ UNCHANGED LinkOnly

Refused ==
  /\ "refuse" \in Peer
  /\ link = "connecting"
  /\ link' = "broken"
  /\ UNCHANGED stalled /\ UNCHANGED LinkOnly

Broken ==
  /\ "break" \in Peer
  /\ link = "up"
  /\ link' = "broken"
  /\ UNCHANGED stalled /\ UNCHANGED LinkOnly

Stall ==
  /\ "stall" \in Peer
  /\ link = "up"
  /\ stalled' = ~stalled
  /\ UNCHANGED link /\ UNCHANGED LinkOnly

EventLoop ==
  \/ HandleError \/ HandleTimeout
  \/ ExecuteAdd \/ ExecuteWrite \/ ExecuteClose
  \/ HandleRead \/ HandleWriteIdle \/ HandleWrite \/ HandleWriteError

Next ==
  \/ Open \/ OpenReturns \/ OpenFails \/ Write \/ WriteReturns
  \/ Close \/ Delete \/ CloseReturns \/ Renew
  \/ EventLoop \/ EventThreadDelete
  \/ Established \/ Refused \/ Broken \/ Stall

\* The calling thread executes its code, the event thread its loop (whose
\* timer fires sooner or later, though perhaps too late for the data), and a
\* connection attempt ends.  The application need not call anything.
Fairness ==
  /\ WF_vars(OpenReturns \/ WriteReturns \/ CloseReturns)
  /\ WF_vars(HandleError \/ ExecuteAdd \/ ExecuteWrite \/ ExecuteClose
             \/ HandleRead \/ HandleWriteIdle \/ HandleWrite \/ HandleWriteError)
  /\ WF_vars(HandleTimeout)
  /\ WF_vars(Established \/ Refused)

Spec == Init /\ [][Next]_vars /\ Fairness

-----------------------------------------------------------------------------
(* Properties.                                                             *)

\* The variables are of their types; the position is in the first buffer.
NetworkTypeOK ==
  /\ pc \in Callers /\ network_state \in NetworkStates
  /\ command \in Seq([task : Tasks, message : 0 .. MaxMessages])
  /\ confirm \in Seq({"Opened", "Failure", "closed", "byte"})
  /\ o.state \in ObserverStates
  /\ o.buffers \in Seq(1 .. MaxMessages)
  /\ o.buf_pos \in 0 .. MsgLen - 1
  /\ o.watching \subseteq {"read", "write"}
  /\ o.m_socket \in Fds
  /\ o.m_read_list \subseteq Fds /\ o.m_write_list \subseteq Fds
  /\ o.timer \in BOOLEAN
  /\ loop \in {"running", "ended"}
  /\ link \in Links /\ stalled \in BOOLEAN
  /\ accepted \in 0 .. MaxMessages
  /\ gaveUp \in BOOLEAN
  /\ outputs \in 1 .. MaxOutputs

\* The bytes written to the socket are those of the accepted messages, in
\* order, each once: partial writes, errors and the flush at the end never
\* skip, repeat or interleave any.
Stream == INSTANCE LogStream
ImplementsLogStream == Stream!StreamSpec

\* No lost wakeup: while there is something to write to an open socket, the
\* event loop watches it for writing.
PendingIsWatched ==
  o.buffers # <<>> /\ o.m_socket = "fd" => "fd" \in o.m_write_list

\* No answer is lost or left over: a caller that waits has a task in the
\* command pipe, an answer in the confirm pipe, or a flush going on.
OneAnswerPerCall ==
  loop = "running" =>
    Len(confirm) + Cardinality({i \in DOMAIN command : command[i].task # "add"})
      <= IF pc \in {"writing", "closing", "deleting"} THEN 1 ELSE 0

\* A reload has deleted the output while there were data to write.
DroppedByReload == pc = "discarded" /\ o.buffers # <<>>

\* When the destructor has returned, the event thread has no pointer to the
\* object any more, with one exception: close() in the event thread itself does
\* not wait for the flush it starts, and so an output that a reload deletes with
\* data to write stays in the lists and timers.
NoDangling == ~Exists => (Unregistered(o) <=> ~DroppedByReload)

\* What the two threads rely on between any two of their steps: pending data
\* have a watcher, a waiting caller one answer, a deleted output nobody, unless
\* a reload deleted it with data to write.
NetworkInv == NetworkTypeOK /\ PendingIsWatched /\ OneAnswerPerCall /\ NoDangling

\* trace.cpp:386 "Delete the output object to make sure it flushes any data
\* which it might have buffered": closing an output in an application thread
\* loses data only if the connection failed or the ten seconds were over.
FlushedOnClose ==
  pc \in {"closed", "gone"} /\ link # "broken" /\ ~gaveUp
    => Len(wire) = accepted * MsgLen

\* A call that waits for the event thread is answered, whatever the peer does,
\* unless the connection breaks while the output is flushed or the event thread
\* has ended: then close() waits for ever.
CallsReturn ==
  (pc \in {"writing", "closing", "deleting"})
    ~> \/ pc \notin {"writing", "closing", "deleting"}
       \/ pc # "writing" /\ link = "broken"
       \/ loop = "ended"

\* An accepted message reaches the socket, even if the application never calls
\* the output again, provided that the connection holds and the peer ends up
\* reading.
Delivered ==
  <>[]~stalled =>
    \A m \in 1 .. MaxMessages :
      (accepted >= m) ~> \/ Len(wire) >= m * MsgLen \/ gaveUp
                         \/ ~Exists \/ link = "broken" \/ loop = "ended"
=============================================================================
