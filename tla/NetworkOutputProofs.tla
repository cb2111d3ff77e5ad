-------------------------- MODULE NetworkOutputProofs ------------------------
(***************************************************************************)
(* Proofs about NetworkOutput for any message length, any number of        *)
(* messages and outputs, every peer, with and without reloads.             *)
(***************************************************************************)
EXTENDS NetworkOutput, TLAPS, FiniteSetTheorems, SequenceTheorems

Observer ==
  [state : ObserverStates, buffers : Seq(1 .. MaxMessages), buf_pos : 0 .. MsgLen - 1,
   watching : SUBSET {"read", "write"}, m_socket : Fds,
   m_read_list : SUBSET Fds, m_write_list : SUBSET Fds, timer : BOOLEAN]

Commands == [task : Tasks, message : 0 .. MaxMessages]

Answers == {"Opened", "Failure", "closed", "byte"}

(* The object's fields, and the variables of the two threads.              *)
TypeInv ==
  /\ pc \in Callers /\ network_state \in NetworkStates
  /\ command \in Seq(Commands)
  /\ confirm \in Seq(Answers)
  /\ o \in Observer
  /\ loop \in {"running", "ended"}
  /\ link \in Links
  /\ accepted \in 0 .. MaxMessages
  /\ outputs \in 1 .. MaxOutputs

(* The task of connect, and the one of the call that is waiting.           *)
AddTask == [task |-> "add", message |-> 0]
CallTask == IF pc = "writing" THEN [task |-> "write", message |-> accepted + 1]
                              ELSE [task |-> "close", message |-> 0]

(* While the event loop runs the pipes hold what the caller's place allows; *)
(* after it has ended, at most the byte it left and the answer before it.   *)
PipesInv ==
  /\ loop = "running" /\ pc \in {"start", "closed", "gone", "discarded"} =>
       command = <<>> /\ confirm = <<>>
  /\ loop = "running" /\ pc \in {"connecting", "ready"} =>
       command \in {<<>>, <<AddTask>>} /\ confirm = <<>>
  /\ loop = "running" /\ pc = "writing" =>
       \/ /\ command \in {<<CallTask>>, <<AddTask, CallTask>>} /\ confirm = <<>>
          /\ accepted < MaxMessages
       \/ command = <<>> /\ confirm \in {<<"Opened">>, <<"Failure">>}
  /\ loop = "running" /\ pc \in {"closing", "deleting"} =>
       \/ command \in {<<>>, <<CallTask>>, <<AddTask, CallTask>>} /\ confirm = <<>>
       \/ command = <<>> /\ confirm = <<"closed">>
  /\ loop = "ended" =>
       \/ confirm \in {<<>>, <<"byte">>}
       \/ confirm = <<"closed", "byte">> /\ pc \in {"closing", "deleting"}

(* Who closes an output waits for it.                                      *)
ClosingWaits ==
  Exists /\ o.state = "Closing" =>
    /\ loop = "running" /\ pc \in {"closing", "deleting"}
    /\ command = <<>> /\ confirm = <<>>

(* An object is registered under its socket, as "watching" says; under the *)
(* descriptor it once had only if it is registered under that alone.       *)
Registrations(x) ==
  /\ x.m_socket \in x.m_read_list => "read" \in x.watching
  /\ x.m_socket \in x.m_write_list => "write" \in x.watching
  /\ "none" \in x.m_read_list \cup x.m_write_list =>
       x.m_socket = "none" /\ "fd" \notin x.m_read_list \cup x.m_write_list

(* Nothing is registered before open, after close and once the event loop  *)
(* has ended; a socket closed under its registrations is an error's.       *)
RegisteredInv ==
  /\ pc = "start" => o = NewObserver
  /\ pc \in {"closed", "gone"} => Unregistered(o) /\ o.m_socket = "none" /\ o.buffers = <<>>
  /\ pc \in {"closing", "deleting"} /\ confirm # <<>> => Unregistered(o) /\ o.buffers = <<>>
  /\ loop = "ended" => Unregistered(o) /\ o.buffers = <<>>
  /\ Registrations(o)
  /\ Stale(o) => o.state = "Error" /\ pc # "connecting"
  /\ pc = "connecting" => o.buffers = <<>> /\ (o.m_socket = "none" => link = "broken")
  /\ ClosingWaits

(* What is to be written to an open socket is watched for writing.         *)
WatchedInv ==
  /\ o.buffers # <<>> /\ o.m_socket = "fd" => "fd" \in o.m_write_list
  /\ loop = "running" /\ o.m_socket = "fd" /\ "write" \in o.watching =>
       \/ "fd" \in o.m_write_list
       \/ command # <<>> /\ Head(command) = AddTask

(* The timer is armed by a close(), which waits for the flush, but for the  *)
(* one in the event thread: it leaves the timer if there is data to write. *)
TimerInv ==
  /\ o.timer => pc \in {"closing", "deleting", "discarded"}
  /\ pc = "discarded" => IF o.buffers = <<>> THEN Unregistered(o) ELSE o.timer

SafetyInv == TypeInv /\ PipesInv /\ RegisteredInv /\ WatchedInv

(* With w bytes sent, the object holds the last of the a accepted messages *)
(* but what was sent of the first of them.                                 *)
LastOf(b, a) == Len(b) <= a /\ \A i \in 1 .. Len(b) : b[i] = a - Len(b) + i

Holds(x, a, w) ==
  /\ LastOf(x.buffers, a)
  /\ x.buffers = <<>> => x.buf_pos = 0
  /\ w = (a - Len(x.buffers)) * MsgLen + x.buf_pos

(* The bytes sent are the first of the accepted messages; what the buffers *)
(* hold behind an open socket are the others; and the socket is closed     *)
(* before they are gone only if the connection broke or the time was over. *)
StreamInv ==
  /\ wire = [b \in 1 .. Len(wire) |-> b]
  /\ Len(wire) \in 0 .. accepted * MsgLen
  /\ pc = "start" => accepted = 0 /\ wire = <<>>
  /\ o.m_socket = "fd" => Holds(o, accepted, Len(wire))
  /\ o.m_socket = "none" /\ link # "broken" /\ ~gaveUp /\ pc # "discarded" =>
       /\ Len(wire) = accepted * MsgLen
       /\ o.state \notin {"Connecting", "Connected"}

-----------------------------------------------------------------------------
(* What the object's member functions do to its fields.                    *)

LEMMA ObserverTyped ==
  ASSUME NEW x \in Observer
  PROVE  /\ \A w \in SUBSET {"read", "write"} :
              AddObserver(x, w) \in Observer /\ RemoveObserver(x, w) \in Observer
         /\ Clear(x) \in Observer
         /\ \A s \in ObserverStates : [x EXCEPT !.state = s] \in Observer
         /\ [x EXCEPT !.timer = FALSE] \in Observer
         /\ [x EXCEPT !.state = "Closing", !.timer = TRUE] \in Observer
<1> USE DEF Observer
<1>1. ASSUME NEW w \in SUBSET {"read", "write"} PROVE AddObserver(x, w) \in Observer
  BY DEF AddObserver
<1>2. ASSUME NEW w \in SUBSET {"read", "write"} PROVE RemoveObserver(x, w) \in Observer
  BY DEF RemoveObserver
<1>3. Clear(x) \in Observer
  <2>1. <<>> \in Seq(1 .. MaxMessages)
    OBVIOUS
  <2> QED BY <2>1 DEF Clear, Fds, ObserverStates
<1>4. ASSUME NEW s \in ObserverStates PROVE [x EXCEPT !.state = s] \in Observer
  OBVIOUS
<1>5. [x EXCEPT !.timer = FALSE] \in Observer
  OBVIOUS
<1>6. [x EXCEPT !.state = "Closing", !.timer = TRUE] \in Observer
  BY DEF ObserverStates
<1> QED BY <1>1, <1>2, <1>3, <1>4, <1>5, <1>6

LEMMA HandlersTyped ==
  ASSUME NEW x \in Observer
  PROVE  /\ EndClosing(x, TRUE) \in Observer /\ EndClosing(x, FALSE) \in Observer
         /\ NowConnected(x) \in Observer
         /\ ConnectFailed(x) \in Observer
         /\ Failed(x) \in Observer
         /\ \A m \in 1 .. MaxMessages : Buffered(x, m) \in Observer
<1>1. EndClosing(x, TRUE) \in Observer /\ EndClosing(x, FALSE) \in Observer
  <2> DEFINE y == Clear(RemoveObserver(x, x.watching))
  <2>1. x.watching \in SUBSET {"read", "write"}
    BY DEF Observer
  <2>2. y \in Observer
    BY <2>1, ObserverTyped
  <2>3. /\ EndClosing(x, TRUE) = [y EXCEPT !.state = "NotConnected", !.timer = FALSE]
        /\ EndClosing(x, FALSE) = [y EXCEPT !.state = "NotConnected", !.timer = y.timer]
    BY <2>2 DEF EndClosing, Observer
  <2> HIDE DEF y
  <2> QED BY <2>2, <2>3 DEF Observer, ObserverStates
<1>2. NowConnected(x) \in Observer
  BY ObserverTyped DEF NowConnected, ObserverStates
<1>3. ConnectFailed(x) \in Observer
  BY ObserverTyped DEF ConnectFailed, ObserverStates
<1>4. Failed(x) \in Observer
  <2> DEFINE y == IF x.state = "Connecting" THEN RemoveObserver(x, {"write"}) ELSE x
  <2>1. Clear(y) \in Observer
    BY ObserverTyped
  <2> QED BY <2>1 DEF Failed, Observer, ObserverStates
<1>5. ASSUME NEW m \in 1 .. MaxMessages PROVE Buffered(x, m) \in Observer
  <2>1. Append(x.buffers, m) \in Seq(1 .. MaxMessages) /\ 0 \in 0 .. MsgLen - 1
    BY MsgLenAssumption DEF Observer
  <2>2. [x EXCEPT !.buffers = Append(@, m)] \in Observer
    BY <2>1 DEF Observer
  <2>3. [x EXCEPT !.buffers = Append(@, m), !.buf_pos = 0] \in Observer
    BY <2>1 DEF Observer
  <2>4. [[x EXCEPT !.buffers = Append(@, m)] EXCEPT !.buf_pos = 0] \in Observer
    BY <2>1, <2>2 DEF Observer
  <2> QED BY <2>2, <2>4, ObserverTyped DEF Buffered
<1> QED BY <1>1, <1>2, <1>3, <1>4, <1>5

(* Whole and broken messages of a number of bytes.                         *)
LEMMA Division ==
  ASSUME NEW k \in Nat
  PROVE  /\ k \div MsgLen \in Nat /\ k % MsgLen \in 0 .. MsgLen - 1
         /\ k = (k \div MsgLen) * MsgLen + (k % MsgLen)
BY MsgLenAssumption

LEMMA Multiples ==
  ASSUME NEW a \in Nat, NEW b \in Nat
  PROVE  /\ a <= b => a * MsgLen <= b * MsgLen
         /\ a < b => a * MsgLen + MsgLen <= b * MsgLen
         /\ (a + b) * MsgLen = a * MsgLen + b * MsgLen
         /\ a * MsgLen \in Nat
BY MsgLenAssumption

-----------------------------------------------------------------------------
(* Types.                                                                  *)

LEMMA NewObserverTyped == NewObserver \in Observer
<1>1. <<>> \in Seq(1 .. MaxMessages) /\ 0 \in 0 .. MsgLen - 1
  BY MsgLenAssumption
<1> QED BY <1>1 DEF NewObserver, Observer, ObserverStates, Fds

LEMMA TypeInit == Init => TypeInv
<1> SUFFICES ASSUME Init PROVE TypeInv
  OBVIOUS
<1> QED
  BY NewObserverTyped, BoundsAssumption
  DEF Init, TypeInv, Callers, NetworkStates, Links

LEMMA SuffixTyped ==
  ASSUME NEW S, NEW q \in Seq(S), NEW k \in Nat
  PROVE  /\ SubSeq(q, 1 + k, Len(q)) \in Seq(S)
         /\ k <= Len(q) => Len(SubSeq(q, 1 + k, Len(q))) = Len(q) - k
         /\ \A i \in 1 .. Len(q) - k : SubSeq(q, 1 + k, Len(q))[i] = q[i + k]
<1>1. \A i \in 1 + k .. Len(q) : q[i] \in S
  OBVIOUS
<1>2. /\ SubSeq(q, 1 + k, Len(q)) \in Seq(S)
      /\ Len(SubSeq(q, 1 + k, Len(q))) = IF 1 + k <= Len(q) THEN Len(q) - (1 + k) + 1 ELSE 0
      /\ \A i \in 1 .. Len(q) - (1 + k) + 1 : SubSeq(q, 1 + k, Len(q))[i] = q[1 + k + i - 1]
  BY <1>1, SubSeqProperties, Len(q) \in Int, 1 + k \in Int
<1> QED BY <1>2

(* The buffers after n bytes of them were written.                         *)
LEMMA ConsumedTyped ==
  ASSUME NEW x \in Observer, NEW n \in 1 .. Pending(x)
  PROVE  Consumed(x, n) \in Observer
<1>0. x.buf_pos + n \in Nat /\ n \in Nat
  BY MsgLenAssumption DEF Observer
<1>1. /\ (x.buf_pos + n) \div MsgLen \in Nat
      /\ (x.buf_pos + n) % MsgLen \in 0 .. MsgLen - 1
  BY <1>0, Division
<1>2. SubSeq(x.buffers, 1 + (x.buf_pos + n) \div MsgLen, Len(x.buffers))
        \in Seq(1 .. MaxMessages)
  BY <1>1, SuffixTyped DEF Observer
<1> QED BY <1>1, <1>2 DEF Consumed, Observer

LEMMA Answered ==
  ASSUME NEW q \in Seq(Answers), NEW a \in Answers
  PROVE  Append(q, a) \in Seq(Answers)
OBVIOUS

LEMMA AnswersTyped == {"Opened", "Failure", "closed", "byte"} \subseteq Answers
BY DEF Answers

LEMMA NowConnectedKeeps ==
  ASSUME NEW x \in Observer
  PROVE  /\ NowConnected(x).buffers = x.buffers /\ NowConnected(x).buf_pos = x.buf_pos
         /\ NowConnected(x).m_socket = x.m_socket /\ NowConnected(x).timer = x.timer
         /\ NowConnected(x).m_write_list = x.m_write_list
         /\ NowConnected(x).state = IF x.state = "Connecting" THEN "Connected" ELSE x.state
BY DEF NowConnected, RemoveObserver, Observer

LEMMA DrainedTyped ==
  ASSUME NEW x \in Observer, TypeInv, Drained(x)
  PROVE  o' \in Observer /\ confirm' \in Seq(Answers)
<1>1. RemoveObserver(x, {"write"}) \in Observer
  BY ObserverTyped
<1>2. EndClosing(RemoveObserver(x, {"write"}), TRUE) \in Observer
  BY <1>1, HandlersTyped
<1>3. confirm' \in Seq(Answers)
  BY Answered, AnswersTyped DEF Drained, TypeInv
<1> QED BY <1>1, <1>2, <1>3 DEF Drained

LEMMA TasksTyped ==
  /\ [task |-> "add", message |-> 0] \in Commands
  /\ [task |-> "close", message |-> 0] \in Commands
  /\ \A m \in 0 .. MaxMessages : [task |-> "write", message |-> m] \in Commands
BY BoundsAssumption DEF Commands, Tasks

(* The task the event thread executes is the one of the call that waits,   *)
(* and the last in the pipe, or the first of connect.                      *)
LEMMA NextTask ==
  ASSUME TypeInv, PipesInv, loop = "running", command # <<>>
  PROVE  /\ confirm = <<>>
         /\ \/ Head(command) = AddTask
            \/ /\ Head(command) = CallTask /\ Tail(command) = <<>>
               /\ pc \in {"writing", "closing", "deleting"}
               /\ pc = "writing" => accepted < MaxMessages
<1>1. /\ Head(<<AddTask>>) = AddTask /\ Head(<<AddTask, CallTask>>) = AddTask
      /\ Head(<<CallTask>>) = CallTask /\ Tail(<<CallTask>>) = <<>>
  OBVIOUS
<1>2. pc \in Callers
  BY DEF TypeInv
<1> QED BY <1>1, <1>2 DEF PipesInv, Callers

LEMMA TypeStep == TypeInv /\ PipesInv /\ [Next]_vars => TypeInv'
<1> SUFFICES ASSUME TypeInv, PipesInv, [Next]_vars PROVE TypeInv'
  OBVIOUS
<1> USE DEF TypeInv
<1>1. CASE Open
  <2>1. o' \in Observer
    BY <1>1 DEF Open, Observer, ObserverStates, Fds
  <2> QED BY <1>1, <2>1, TasksTyped DEF Open, Callers, NetworkStates, Links
<1>2. CASE OpenReturns
  BY <1>2, ObserverTyped DEF OpenReturns, ObserverStates, Callers
<1>3. CASE OpenFails
  BY <1>3, ObserverTyped DEF OpenFails, ObserverStates, Callers, NetworkStates, Links
<1>4. CASE Write
  BY <1>4, TasksTyped, BoundsAssumption DEF Write, EventThread, Callers
<1>5. CASE WriteReturns
  BY <1>5 DEF WriteReturns, EventThread, Callers, NetworkStates, PipesInv
<1>6. CASE Close
  BY <1>6, TasksTyped DEF Close, EventThread, Callers, NetworkStates
<1>7. CASE Delete
  BY <1>7, TasksTyped DEF Delete, EventThread, Callers
<1>8. CASE CloseReturns
  <2>1. o' \in Observer
    BY <1>8, ObserverTyped DEF CloseReturns
  <2>2. confirm' \in Seq(Answers)
    BY <1>8 DEF CloseReturns
  <2>3. pc' \in Callers
    BY <1>8 DEF CloseReturns, Callers
  <2> QED BY <1>8, <2>1, <2>2, <2>3 DEF CloseReturns
<1>9. CASE Renew
  <2>1. o' \in Observer
    BY <1>9, NewObserverTyped DEF Renew
  <2>2. accepted' \in 0 .. MaxMessages /\ outputs' \in 1 .. MaxOutputs
    BY <1>9, BoundsAssumption DEF Renew
  <2> QED BY <1>9, <2>1, <2>2 DEF Renew, Callers, NetworkStates, Links
<1>10. CASE HandleError
  <2> DEFINE x == IF "fd" \in o.m_read_list
                    THEN [o EXCEPT !.m_read_list = @ \ {"fd"}]
                    ELSE [o EXCEPT !.m_write_list = @ \ {"fd"}]
  <2>1. x \in Observer
    BY DEF Observer
  <2>2. o' = Failed(x)
    BY <1>10 DEF HandleError
  <2>3. o' \in Observer
    BY <2>1, <2>2, HandlersTyped
  <2> QED BY <1>10, <2>3 DEF HandleError, Environment
<1>11. CASE HandleTimeout
  <2>1. o' \in Observer
    BY <1>11, HandlersTyped, ObserverTyped DEF HandleTimeout
  <2>2. confirm' \in Seq(Answers) /\ loop' \in {"running", "ended"}
    <3>1. <<"closed", "byte">> \in Seq(Answers)
      BY DEF Answers
    <3>2. /\ confirm' = confirm \/ confirm' = Append(confirm, "closed")
             \/ confirm' = confirm \o <<"closed", "byte">>
          /\ loop' = loop \/ loop' = "ended"
      BY <1>11 DEF HandleTimeout
    <3>3. /\ Append(confirm, "closed") \in Seq(Answers)
          /\ confirm \o <<"closed", "byte">> \in Seq(Answers)
      BY <3>1, Answered, AnswersTyped, ConcatProperties
    <3> QED BY <3>2, <3>3
  <2> QED BY <1>11, <2>1, <2>2 DEF HandleTimeout, Environment
<1>12. CASE ExecuteAdd
  <2>1. o' \in Observer
    BY <1>12, ObserverTyped
    DEF ExecuteAdd
  <2> QED BY <1>12, <2>1 DEF ExecuteAdd, Executes, Environment
<1>13. CASE ExecuteWrite
  <2>1. Head(command) = CallTask /\ pc = "writing" /\ accepted + 1 \in 1 .. MaxMessages
    BY <1>13, NextTask, BoundsAssumption DEF ExecuteWrite, Executes, AddTask, CallTask
  <2>2. Head(command).message = accepted + 1
    BY <2>1 DEF CallTask
  <2>3. Buffered(o, accepted + 1) \in Observer
    BY <2>1, HandlersTyped
  <2>4. o' \in Observer /\ accepted' \in 0 .. MaxMessages
    BY <1>13, <2>1, <2>2, <2>3 DEF ExecuteWrite
  <2>5. confirm' \in Seq(Answers)
    BY <1>13, Answered, AnswersTyped DEF ExecuteWrite
  <2> QED BY <1>13, <2>4, <2>5 DEF ExecuteWrite, Executes, Environment
<1>14. CASE ExecuteClose
  <2>1. o' \in Observer
    BY <1>14, HandlersTyped, ObserverTyped DEF ExecuteClose
  <2>2. confirm' \in Seq(Answers)
    BY <1>14, Answered, AnswersTyped DEF ExecuteClose
  <2> QED BY <1>14, <2>1, <2>2 DEF ExecuteClose, Executes, Environment
<1>15. CASE HandleRead
  <2>1. o' \in Observer
    BY <1>15, HandlersTyped
    DEF HandleRead
  <2> QED BY <1>15, <2>1 DEF HandleRead, FdsReady, Environment
<1>16. CASE HandleWriteIdle
  <2>0. NowConnected(o) \in Observer /\ Drained(NowConnected(o))
    BY <1>16, HandlersTyped DEF HandleWriteIdle
  <2>1. o' \in Observer /\ confirm' \in Seq(Answers)
    BY <2>0, DrainedTyped
  <2> QED BY <1>16, <2>1 DEF HandleWriteIdle, FdsReady, Environment
<1>17. CASE HandleWrite
  <2>0. PICK n \in 1 .. Pending(o) :
          IF n = Pending(o) THEN Drained(Consumed(NowConnected(o), n))
          ELSE o' = Consumed(NowConnected(o), n) /\ UNCHANGED confirm
    BY <1>17 DEF HandleWrite
  <2>1. NowConnected(o) \in Observer /\ n \in 1 .. Pending(NowConnected(o))
    BY <1>17, HandlersTyped, NowConnectedKeeps DEF HandleWrite, Pending
  <2>2. Consumed(NowConnected(o), n) \in Observer
    BY <2>1, ConsumedTyped
  <2>3. o' \in Observer /\ confirm' \in Seq(Answers)
    BY <2>0, <2>2, DrainedTyped
  <2> QED BY <1>17, <2>3 DEF HandleWrite, FdsReady, Environment
<1>18. CASE HandleWriteError
  <2>1. o' \in Observer
    BY <1>18, HandlersTyped, ObserverTyped
    DEF HandleWriteError, ObserverStates
  <2> QED BY <1>18, <2>1 DEF HandleWriteError, FdsReady, Environment
<1>19. CASE EventThreadDelete
  <2>1. o' \in Observer
    BY <1>19, HandlersTyped, ObserverTyped
    DEF EventThreadDelete
  <2> QED BY <1>19, <2>1 DEF EventThreadDelete, Environment, Callers
<1>20. CASE Established \/ Refused \/ Broken \/ Stall
  BY <1>20 DEF Established, Refused, Broken, Stall, LinkOnly, Links
<1>21. CASE UNCHANGED vars
  BY <1>21 DEF vars
<1> QED BY <1>1, <1>2, <1>3, <1>4, <1>5, <1>6, <1>7, <1>8, <1>9, <1>10, <1>11,
           <1>12, <1>13, <1>14, <1>15, <1>16, <1>17, <1>18, <1>19, <1>20, <1>21
        DEF Next, EventLoop

-----------------------------------------------------------------------------
(* The pipes.                                                              *)

LEMMA ShortSequences ==
  ASSUME NEW a, NEW b
  PROVE  /\ Append(<<>>, a) = <<a>> /\ Append(<<a>>, b) = <<a, b>>
         /\ Head(<<a>>) = a /\ Tail(<<a>>) = <<>>
         /\ Head(<<a, b>>) = a /\ Tail(<<a, b>>) = <<b>>
         /\ <<a>> # <<>> /\ <<a, b>> # <<>>
<1>1. Append(<<a>>, b) = <<a, b>>
  <2>1. <<a>> \in Seq({a, b}) /\ <<a, b>> \in Seq({a, b}) /\ b \in {a, b}
    OBVIOUS
  <2>2. /\ Append(<<a>>, b) \in Seq({a, b})
        /\ Len(Append(<<a>>, b)) = 2 /\ Len(<<a, b>>) = 2
        /\ Append(<<a>>, b)[1] = a /\ Append(<<a>>, b)[2] = b
    BY <2>1
  <2>3. \A i \in 1 .. 2 : Append(<<a>>, b)[i] = <<a, b>>[i]
    BY <2>2
  <2> QED BY <2>1, <2>2, <2>3, SeqEqual
<1> QED BY <1>1

LEMMA PipesInit == Init => PipesInv
BY DEF Init, PipesInv

LEMMA PipesStep == TypeInv /\ PipesInv /\ ClosingWaits /\ [Next]_vars => PipesInv'
<1> SUFFICES ASSUME TypeInv, PipesInv, ClosingWaits, [Next]_vars PROVE PipesInv'
  OBVIOUS
<1>p. pc \in Callers /\ loop \in {"running", "ended"}
  BY DEF TypeInv
<1>1. CASE Open
  <2>1. loop = "running" => command' = <<AddTask>> /\ confirm' = <<>>
    BY <1>1, ShortSequences DEF Open, PipesInv, AddTask
  <2> QED BY <1>1, <1>p, <2>1 DEF Open, PipesInv
<1>2. CASE OpenReturns
  BY <1>2, <1>p DEF OpenReturns, PipesInv
<1>3. CASE OpenFails
  BY <1>3, <1>p DEF OpenFails, PipesInv
<1>4. CASE Write
  <2>1. /\ pc = "ready" /\ pc' = "writing" /\ accepted < MaxMessages
        /\ UNCHANGED <<loop, confirm, accepted>>
    BY <1>4 DEF Write, EventThread
  <2>2. command' = Append(command, CallTask')
    BY <1>4 DEF Write, EventThread, CallTask
  <2>3. loop = "running" => command' \in {<<CallTask'>>, <<AddTask', CallTask'>>} /\ confirm = <<>>
    BY <2>1, <2>2, ShortSequences DEF PipesInv, AddTask
  <2> QED BY <1>p, <2>1, <2>3 DEF PipesInv
<1>5. CASE WriteReturns
  <2>1. pc = "writing" /\ pc' = "ready" /\ UNCHANGED <<loop, command>>
        /\ confirm # <<>> /\ confirm' = Tail(confirm)
    BY <1>5 DEF WriteReturns, EventThread
  <2> QED BY <1>p, <2>1, ShortSequences DEF PipesInv
<1>6. CASE Close
  <2>1. /\ pc = "ready" /\ pc' = "closing" /\ UNCHANGED <<loop, confirm>>
        /\ command' = Append(command, CallTask')
    BY <1>6 DEF Close, EventThread, CallTask
  <2>2. loop = "running" => command' \in {<<CallTask'>>, <<AddTask', CallTask'>>} /\ confirm = <<>>
    BY <2>1, ShortSequences DEF PipesInv, AddTask
  <2> QED BY <1>p, <2>1, <2>2 DEF PipesInv
<1>7. CASE Delete
  <2>1. /\ pc \in {"start", "ready", "closed"} /\ pc' = "deleting" /\ UNCHANGED <<loop, confirm>>
        /\ command' = Append(command, CallTask')
    BY <1>7 DEF Delete, EventThread, CallTask
  <2>2. loop = "running" => command \in {<<>>, <<AddTask'>>} /\ confirm = <<>>
    BY <2>1 DEF PipesInv, AddTask
  <2>3. loop = "running" => command' \in {<<CallTask'>>, <<AddTask', CallTask'>>}
    <3>1. /\ Append(<<>>, CallTask') = <<CallTask'>>
          /\ Append(<<AddTask'>>, CallTask') = <<AddTask', CallTask'>>
      BY ShortSequences
    <3> QED BY <2>1, <2>2, <3>1
  <2> QED BY <1>p, <2>1, <2>2, <2>3 DEF PipesInv
<1>8. CASE CloseReturns
  <2>1. pc \in {"closing", "deleting"} /\ pc' \in {"closed", "gone"}
        /\ UNCHANGED <<loop, command>> /\ confirm # <<>> /\ confirm' = Tail(confirm)
    BY <1>8 DEF CloseReturns
  <2>2. CASE loop = "running"
    <3>1. command = <<>> /\ confirm' = <<>>
      BY <2>1, <2>2, ShortSequences DEF PipesInv
    <3> QED BY <2>1, <2>2, <3>1 DEF PipesInv
  <2>3. CASE loop = "ended"
    <3>1. confirm' \in {<<>>, <<"byte">>}
      <4>1. Tail(<<"byte">>) = <<>> /\ Tail(<<"closed", "byte">>) = <<"byte">>
        BY ShortSequences
      <4> QED BY <2>1, <2>3, <4>1 DEF PipesInv
    <3> QED BY <2>1, <2>3, <3>1 DEF PipesInv
  <2> QED BY <1>p, <2>2, <2>3
<1>9. CASE Renew
  BY <1>9, <1>p DEF Renew, Exists, PipesInv
<1>10. ASSUME UNCHANGED <<pc, command, confirm, loop, accepted>> PROVE PipesInv'
  BY <1>10 DEF PipesInv, CallTask, AddTask
<1>11. CASE HandleTimeout
  <2>1. CASE o.state = "Closing"
    <3>1. /\ loop = "running" /\ pc \in {"closing", "deleting"}
          /\ command = <<>> /\ confirm = <<>>
      BY <1>11, <2>1 DEF HandleTimeout, ClosingWaits
    <3>2. /\ UNCHANGED <<pc, command>>
          /\ \/ loop' = "ended" /\ confirm' = confirm \o <<"closed", "byte">>
             \/ loop' = loop /\ confirm' = Append(confirm, "closed")
      BY <1>11, <2>1 DEF HandleTimeout
    <3>3. confirm \o <<"closed", "byte">> = <<"closed", "byte">>
      BY <3>1
    <3> QED BY <3>1, <3>2, <3>3, ShortSequences DEF PipesInv
  <2>2. CASE o.state # "Closing"
    BY <1>10, <1>11, <2>2 DEF HandleTimeout, Environment
  <2> QED BY <2>1, <2>2
<1>12. CASE ExecuteAdd
  <2>1. /\ loop = "running" /\ command # <<>> /\ command' = Tail(command)
        /\ Head(command).task = "add" /\ UNCHANGED <<pc, loop, confirm, accepted>>
    BY <1>12 DEF ExecuteAdd, Executes
  <2>2. confirm = <<>> /\ Head(command) = AddTask
    BY <2>1, NextTask DEF AddTask, CallTask
  <2>3. AddTask # CallTask
    BY DEF AddTask, CallTask
  <2>4. /\ command \in {<<AddTask>>, <<AddTask, CallTask>>}
        /\ pc \in {"connecting", "ready", "writing", "closing", "deleting"}
        /\ pc = "writing" => accepted < MaxMessages
        /\ pc \in {"connecting", "ready"} => command = <<AddTask>>
        /\ pc = "writing" => command = <<AddTask, CallTask>>
    BY <1>p, <2>1, <2>2, <2>3, ShortSequences DEF PipesInv, Callers
  <2>5. /\ command' \in {<<>>, <<CallTask>>}
        /\ pc \in {"connecting", "ready"} => command' = <<>>
        /\ pc = "writing" => command' = <<CallTask>>
    <3>1. Tail(<<AddTask>>) = <<>> /\ Tail(<<AddTask, CallTask>>) = <<CallTask>>
      BY ShortSequences
    <3> QED BY <2>1, <2>4, <3>1
  <2>6. CallTask' = CallTask
    BY <2>1 DEF CallTask
  <2> QED BY <2>1, <2>2, <2>4, <2>5, <2>6 DEF PipesInv
<1>13. CASE ExecuteWrite
  <2>1. loop = "running" /\ confirm = <<>> /\ pc = "writing" /\ Tail(command) = <<>>
    BY <1>13, NextTask DEF ExecuteWrite, Executes, AddTask, CallTask
  <2>2. /\ UNCHANGED <<pc, loop>> /\ command' = Tail(command)
        /\ confirm' \in {Append(confirm, "Opened"), Append(confirm, "Failure")}
    BY <1>13 DEF ExecuteWrite, Executes
  <2> QED BY <2>1, <2>2, ShortSequences DEF PipesInv
<1>14. CASE ExecuteClose
  <2>1. loop = "running" /\ confirm = <<>> /\ pc \in {"closing", "deleting"} /\ Tail(command) = <<>>
    BY <1>14, NextTask DEF ExecuteClose, Executes, AddTask, CallTask
  <2>2. /\ UNCHANGED <<pc, loop>> /\ command' = Tail(command)
        /\ confirm' \in {confirm, Append(confirm, "closed")}
    BY <1>14 DEF ExecuteClose, Executes
  <2> QED BY <2>1, <2>2, ShortSequences DEF PipesInv
(* The buffers have been written: who waits for it is told.                *)
<1>15. ASSUME NEW x, x.state = "Closing" => o.state = "Closing", Drained(x), Exists,
              UNCHANGED <<pc, command, loop, accepted>>
       PROVE  PipesInv'
  <2>1. CASE x.state = "Closing"
    <3>1. confirm = <<>> /\ command = <<>> /\ pc \in {"closing", "deleting"} /\ loop = "running"
      BY <1>15, <2>1 DEF ClosingWaits
    <3>2. confirm' = <<"closed">>
      BY <1>15, <2>1, <3>1, ShortSequences DEF Drained
    <3> QED BY <1>15, <3>1, <3>2 DEF PipesInv
  <2>2. CASE x.state # "Closing"
    BY <1>10, <1>15, <2>2 DEF Drained
  <2> QED BY <2>1, <2>2
<1>16. CASE HandleWriteIdle
  <2>1. NowConnected(o).state = "Closing" => o.state = "Closing"
    BY NowConnectedKeeps DEF TypeInv
  <2> QED BY <1>15, <1>16, <2>1 DEF HandleWriteIdle, FdsReady
<1>17. CASE HandleWrite
  <2>0. /\ Exists /\ UNCHANGED <<pc, command, loop, accepted>>
        /\ \E n \in 1 .. Pending(o) :
             IF n = Pending(o) THEN Drained(Consumed(NowConnected(o), n))
             ELSE o' = Consumed(NowConnected(o), n) /\ UNCHANGED confirm
    BY <1>17 DEF HandleWrite, FdsReady
  <2>1. ASSUME NEW n PROVE Consumed(NowConnected(o), n).state = "Closing" => o.state = "Closing"
    <3>1. NowConnected(o) \in Observer
      BY HandlersTyped DEF TypeInv
    <3>2. Consumed(NowConnected(o), n).state = NowConnected(o).state
      BY <3>1 DEF Consumed, Observer
    <3> QED BY <3>2, NowConnectedKeeps DEF TypeInv
  <2> QED BY <1>10, <1>15, <2>0, <2>1
<1>18. CASE HandleError \/ HandleRead \/ HandleWriteError
  BY <1>10, <1>18 DEF HandleError, HandleRead, HandleWriteError, FdsReady, Environment
<1>19. CASE EventThreadDelete
  BY <1>19, <1>p DEF EventThreadDelete, PipesInv
<1>20. CASE Established \/ Refused \/ Broken \/ Stall
  BY <1>10, <1>20 DEF Established, Refused, Broken, Stall, LinkOnly
<1>21. CASE UNCHANGED vars
  BY <1>10, <1>21 DEF vars
<1> QED BY <1>1, <1>2, <1>3, <1>4, <1>5, <1>6, <1>7, <1>8, <1>9, <1>11,
           <1>12, <1>13, <1>14, <1>16, <1>17, <1>18, <1>19, <1>20, <1>21
        DEF Next, EventLoop

-----------------------------------------------------------------------------
(* The registrations.                                                      *)

LEMMA AddProperties ==
  ASSUME NEW x \in Observer, NEW w \in SUBSET {"read", "write"}
  PROVE  LET y == AddObserver(x, w)
         IN  /\ y.state = x.state /\ y.buffers = x.buffers /\ y.buf_pos = x.buf_pos
             /\ y.m_socket = x.m_socket /\ y.timer = x.timer
             /\ y.watching = x.watching \cup w
             /\ x.m_write_list \subseteq y.m_write_list
             /\ "write" \in w => x.m_socket \in y.m_write_list
             /\ Registrations(x) /\ ~Stale(x) => Registrations(y) /\ ~Stale(y)
<1>1. x.m_socket \in {"fd", "none"}
  BY DEF Observer, Fds
<1> QED BY <1>1 DEF AddObserver, Observer, Registrations, Stale

LEMMA RemoveProperties ==
  ASSUME NEW x \in Observer, NEW w \in SUBSET {"read", "write"}
  PROVE  LET y == RemoveObserver(x, w)
         IN  /\ y.state = x.state /\ y.buffers = x.buffers /\ y.buf_pos = x.buf_pos
             /\ y.m_socket = x.m_socket /\ y.timer = x.timer
             /\ y.watching = x.watching \ w
             /\ "write" \notin w => y.m_write_list = x.m_write_list
             /\ y.m_read_list \subseteq x.m_read_list /\ y.m_write_list \subseteq x.m_write_list
             /\ Registrations(x) => Registrations(y)
             /\ Registrations(x) /\ ~Stale(x) => ~Stale(y)
             /\ Registrations(x) /\ ~Stale(x) /\ x.watching \subseteq w =>
                  y.m_read_list = {} /\ y.m_write_list = {}
<1>1. x.m_socket \in {"fd", "none"} /\ x.m_read_list \subseteq {"fd", "none"}
      /\ x.m_write_list \subseteq {"fd", "none"} /\ x.watching \subseteq {"read", "write"}
  BY DEF Observer, Fds
<1> DEFINE y == RemoveObserver(x, w)
<1>2. /\ y.state = x.state /\ y.buffers = x.buffers /\ y.buf_pos = x.buf_pos
      /\ y.m_socket = x.m_socket /\ y.timer = x.timer /\ y.watching = x.watching \ w
      /\ y.m_read_list = IF "read" \in w THEN x.m_read_list \ {x.m_socket} ELSE x.m_read_list
      /\ y.m_write_list = IF "write" \in w THEN x.m_write_list \ {x.m_socket} ELSE x.m_write_list
  BY DEF RemoveObserver, Observer
<1> HIDE DEF y
<1>3. Registrations(x) => Registrations(y)
  BY <1>1, <1>2 DEF Registrations
<1>4. ~Stale(x) => ~Stale(y)
  BY <1>1, <1>2 DEF Stale
<1>5. Registrations(x) /\ ~Stale(x) /\ x.watching \subseteq w =>
        y.m_read_list = {} /\ y.m_write_list = {}
  BY <1>1, <1>2 DEF Registrations, Stale
<1> QED BY <1>2, <1>3, <1>4, <1>5 DEF y

(* What clear and what endClosing leave behind.                            *)
LEMMA ClearProperties ==
  ASSUME NEW x \in Observer
  PROVE  LET y == Clear(x)
         IN  /\ y.state = IF x.m_socket = "none" THEN x.state ELSE "NotConnected"
             /\ y.m_socket = "none" /\ y.buffers = <<>> /\ y.buf_pos = x.buf_pos
             /\ y.watching = x.watching /\ y.timer = x.timer
             /\ y.m_read_list = x.m_read_list /\ y.m_write_list = x.m_write_list
BY DEF Clear, Observer

Ended(x, y) ==
  /\ y.state = "NotConnected" /\ y.buffers = <<>> /\ y.m_socket = "none" /\ y.watching = {}
  /\ Registrations(x) /\ ~Stale(x) => y.m_read_list = {} /\ y.m_write_list = {}

LEMMA EndClosingProperties ==
  ASSUME NEW x \in Observer
  PROVE  /\ Ended(x, EndClosing(x, TRUE)) /\ ~EndClosing(x, TRUE).timer
         /\ Ended(x, EndClosing(x, FALSE))
         /\ EndClosing(x, FALSE).timer = x.timer
<1> DEFINE r == RemoveObserver(x, x.watching)
           y == Clear(r)
<1>1. x.watching \in SUBSET {"read", "write"}
  BY DEF Observer
<1>2. r \in Observer /\ y \in Observer
  <2>1. \A w \in SUBSET {"read", "write"} : RemoveObserver(x, w) \in Observer
    BY ObserverTyped, Zenon
  <2>2. \A z \in Observer : Clear(z) \in Observer
    BY ObserverTyped, Zenon
  <2>3. r \in Observer
    BY <1>1, <2>1, Zenon
  <2> QED BY <2>2, <2>3, Zenon
<1>3. /\ y.buffers = <<>> /\ y.m_socket = "none" /\ y.watching = {} /\ y.timer = x.timer
      /\ Registrations(x) /\ ~Stale(x) => y.m_read_list = {} /\ y.m_write_list = {}
  BY <1>1, <1>2, RemoveProperties, ClearProperties
<1>4. /\ EndClosing(x, TRUE) = [y EXCEPT !.state = "NotConnected", !.timer = FALSE]
      /\ EndClosing(x, FALSE) = [y EXCEPT !.state = "NotConnected", !.timer = y.timer]
  BY <1>2 DEF EndClosing, Observer
<1> HIDE DEF y, r
<1>5. Ended(x, EndClosing(x, TRUE)) /\ Ended(x, EndClosing(x, FALSE))
  BY <1>2, <1>3, <1>4 DEF Ended, Observer
<1>6. ~EndClosing(x, TRUE).timer
  BY <1>2, <1>4 DEF Observer
<1>7. EndClosing(x, FALSE).timer = x.timer
  BY <1>2, <1>3, <1>4 DEF Observer
<1> QED BY <1>5, <1>6, <1>7


LEMMA BufferedProperties ==
  ASSUME NEW x \in Observer, NEW m \in 1 .. MaxMessages
  PROVE  LET y == Buffered(x, m)
         IN  /\ y.state = x.state /\ y.m_socket = x.m_socket /\ y.timer = x.timer
             /\ y.buffers = Append(x.buffers, m)
             /\ y.buf_pos = IF "write" \in x.watching THEN x.buf_pos ELSE 0
             /\ y.watching = x.watching \cup {"write"}
             /\ x.m_write_list \subseteq y.m_write_list
             /\ "write" \notin x.watching => x.m_socket \in y.m_write_list
             /\ Registrations(x) /\ ~Stale(x) => Registrations(y) /\ ~Stale(y)
<1> DEFINE z == [x EXCEPT !.buffers = Append(@, m)]
           c == [z EXCEPT !.buf_pos = 0]
<1>1. Append(x.buffers, m) \in Seq(1 .. MaxMessages) /\ 0 \in 0 .. MsgLen - 1
  BY MsgLenAssumption DEF Observer
<1>2. z \in Observer /\ c \in Observer
  BY <1>1 DEF Observer
<1>3. /\ z.state = x.state /\ z.m_socket = x.m_socket /\ z.timer = x.timer
      /\ z.buffers = Append(x.buffers, m) /\ z.buf_pos = x.buf_pos
      /\ z.watching = x.watching
      /\ z.m_read_list = x.m_read_list /\ z.m_write_list = x.m_write_list
  BY DEF Observer
<1>4. /\ c.state = x.state /\ c.m_socket = x.m_socket /\ c.timer = x.timer
      /\ c.buffers = Append(x.buffers, m) /\ c.buf_pos = 0
      /\ c.watching = x.watching
      /\ c.m_read_list = x.m_read_list /\ c.m_write_list = x.m_write_list
  BY <1>2 DEF Observer
<1>5. Buffered(x, m) = IF "write" \in x.watching THEN z ELSE AddObserver(c, {"write"})
  BY DEF Buffered
<1> HIDE DEF z, c
<1>6. CASE "write" \in x.watching
  BY <1>3, <1>5, <1>6 DEF Registrations, Stale
<1>7. CASE "write" \notin x.watching
  <2>1. Registrations(x) /\ ~Stale(x) => Registrations(c) /\ ~Stale(c)
    BY <1>4 DEF Registrations, Stale
  <2>2. {"write"} \in SUBSET {"read", "write"}
    OBVIOUS
  <2>3. LET y == AddObserver(c, {"write"})
        IN  /\ y.state = c.state /\ y.buffers = c.buffers /\ y.buf_pos = c.buf_pos
            /\ y.m_socket = c.m_socket /\ y.timer = c.timer
            /\ y.watching = c.watching \cup {"write"}
            /\ c.m_write_list \subseteq y.m_write_list
            /\ c.m_socket \in y.m_write_list
            /\ Registrations(c) /\ ~Stale(c) => Registrations(y) /\ ~Stale(y)
    BY <1>2, <2>2, AddProperties
  <2> QED BY <1>4, <1>5, <1>7, <2>1, <2>3
<1> QED BY <1>6, <1>7

LEMMA NowConnectedProperties ==
  ASSUME NEW x \in Observer, Registrations(x), ~Stale(x)
  PROVE  Registrations(NowConnected(x)) /\ ~Stale(NowConnected(x))
<1> DEFINE z == [x EXCEPT !.state = "Connected"]
<1>1. z \in Observer
  BY DEF Observer, ObserverStates
<1>2. Registrations(z) /\ ~Stale(z)
  BY DEF Registrations, Stale, Observer
<1>3. NowConnected(x) = IF x.state = "Connecting" THEN RemoveObserver(z, {"read"}) ELSE x
  BY DEF NowConnected
<1>4. {"read"} \in SUBSET {"read", "write"}
  OBVIOUS
<1> HIDE DEF z
<1>5. Registrations(RemoveObserver(z, {"read"})) /\ ~Stale(RemoveObserver(z, {"read"}))
  BY <1>1, <1>2, <1>4, RemoveProperties
<1> QED BY <1>3, <1>5

(* Nothing is left of a failed connection attempt.                         *)
LEMMA ConnectFailedProperties ==
  ASSUME NEW x \in Observer, Registrations(x), ~Stale(x)
  PROVE  LET y == ConnectFailed(x)
         IN  /\ y.state = "Error" /\ y.buffers = <<>> /\ y.m_socket = "none"
             /\ y.timer = x.timer /\ y.m_read_list = {} /\ y.m_write_list = {}
<1> DEFINE r == RemoveObserver(x, {"read", "write"})
<1>1. {"read", "write"} \in SUBSET {"read", "write"} /\ x.watching \subseteq {"read", "write"}
  BY DEF Observer
<1>2. r \in Observer
  BY <1>1, ObserverTyped, Zenon
<1>3. r.m_read_list = {} /\ r.m_write_list = {} /\ r.timer = x.timer
  BY <1>1, RemoveProperties
<1>4. ConnectFailed(x) = [Clear(r) EXCEPT !.state = "Error"]
  BY DEF ConnectFailed
<1> HIDE DEF r
<1>5. Clear(r) \in Observer
  BY <1>2, ObserverTyped, Zenon
<1> QED BY <1>2, <1>3, <1>4, <1>5, ClearProperties DEF Observer

LEMMA RegisteredInit == Init => RegisteredInv
BY DEF Init, RegisteredInv, NewObserver, Registrations, Stale, ClosingWaits


LEMMA RegisteredStep == TypeInv /\ PipesInv /\ RegisteredInv /\ [Next]_vars => RegisteredInv'
<1> SUFFICES ASSUME TypeInv, PipesInv, RegisteredInv, [Next]_vars PROVE RegisteredInv'
  OBVIOUS
<1>t. o \in Observer /\ pc \in Callers /\ loop \in {"running", "ended"}
  BY DEF TypeInv
(* The object is as before, and so is what the caller waits for.           *)
<1>1. CASE Open
  <2>1. /\ pc = "start" /\ pc' = "connecting" /\ UNCHANGED <<confirm, loop>>
        /\ o' = [NewObserver EXCEPT !.state = "Error", !.m_socket = "fd",
                                    !.watching = {"read", "write"}]
    BY <1>1 DEF Open, RegisteredInv
  <2>2. /\ o'.state = "Error" /\ o'.m_socket = "fd" /\ o'.buffers = <<>>
        /\ Unregistered(o')
    BY <2>1 DEF NewObserver, Unregistered
  <2> QED BY <2>1, <2>2 DEF RegisteredInv, Unregistered, Registrations, Stale, ClosingWaits
<1>2. CASE OpenReturns
  <2>1. /\ pc = "connecting" /\ pc' = "ready" /\ UNCHANGED <<confirm, loop>>
        /\ o' = [o EXCEPT !.state = "Connecting"]
    BY <1>2 DEF OpenReturns
  <2>2. /\ o'.state = "Connecting" /\ o'.m_socket = o.m_socket /\ o'.buffers = o.buffers
        /\ o'.watching = o.watching /\ o'.timer = o.timer
        /\ o'.m_read_list = o.m_read_list /\ o'.m_write_list = o.m_write_list
    BY <1>t, <2>1 DEF Observer
  <2>3. Registrations(o') /\ ~Stale(o')
    BY <2>1, <2>2 DEF RegisteredInv, Registrations, Stale
  <2> QED BY <2>1, <2>2, <2>3 DEF RegisteredInv, Unregistered, ClosingWaits
<1>3. CASE OpenFails
  <2>1. /\ pc = "start" /\ pc' = "ready" /\ UNCHANGED <<confirm, loop>>
        /\ o' = [NewObserver EXCEPT !.state = "Error"]
    BY <1>3 DEF OpenFails, RegisteredInv
  <2>2. /\ o'.state = "Error" /\ o'.m_socket = "none" /\ o'.buffers = <<>>
        /\ Unregistered(o')
    BY <2>1 DEF NewObserver, Unregistered
  <2> QED BY <2>1, <2>2 DEF RegisteredInv, Unregistered, Registrations, Stale, ClosingWaits
<1>4. CASE Write \/ WriteReturns
  <2>1. /\ UNCHANGED <<o, loop>> /\ pc \in {"ready", "writing"} /\ pc' \in {"ready", "writing"}
    BY <1>4 DEF Write, WriteReturns, EventThread
  <2>2. o.state # "Closing"
    BY <2>1 DEF RegisteredInv, ClosingWaits, Exists
  <2> QED BY <2>1, <2>2 DEF RegisteredInv, ClosingWaits, Exists
<1>5. CASE Close \/ Delete
  <2>1. /\ UNCHANGED <<o, loop, confirm>> /\ pc \in {"start", "ready", "closed"}
        /\ pc' \in {"closing", "deleting"}
    BY <1>5 DEF Close, Delete, EventThread
  <2>2. o.state # "Closing"
    BY <2>1 DEF RegisteredInv, ClosingWaits, Exists
  <2>3. confirm # <<>> => loop = "ended"
    BY <1>t, <2>1 DEF PipesInv
  <2> QED BY <2>1, <2>2, <2>3 DEF RegisteredInv, ClosingWaits
<1>6. CASE CloseReturns
  <2>1. /\ pc \in {"closing", "deleting"} /\ confirm # <<>> /\ o' = Clear(o)
        /\ UNCHANGED loop /\ pc' \in {"closed", "gone"}
    BY <1>6 DEF CloseReturns
  <2>2. Unregistered(o) /\ o.buffers = <<>> /\ o.state # "Closing"
    BY <2>1 DEF RegisteredInv, ClosingWaits, Exists
  <2>3. /\ o'.m_socket = "none" /\ o'.buffers = <<>> /\ o'.timer = o.timer
        /\ o'.m_read_list = o.m_read_list /\ o'.m_write_list = o.m_write_list
        /\ o'.state # "Closing"
    BY <1>t, <2>1, <2>2, ClearProperties
  <2>4. Unregistered(o') /\ Registrations(o') /\ ~Stale(o')
    BY <2>2, <2>3 DEF Unregistered, Registrations, Stale
  <2> QED BY <2>1, <2>3, <2>4 DEF RegisteredInv, ClosingWaits
<1>7. CASE Renew
  <2>1. pc' = "start" /\ o' = NewObserver
    BY <1>7 DEF Renew
  <2>2. o'.m_socket = "none" /\ o'.buffers = <<>> /\ Unregistered(o') /\ o'.state = "NotConnected"
    BY <2>1 DEF NewObserver, Unregistered
  <2>3. Registrations(o') /\ ~Stale(o')
    BY <2>2 DEF Unregistered, Registrations, Stale
  <2> QED BY <2>1, <2>2, <2>3 DEF RegisteredInv, ClosingWaits
<1>8. CASE HandleError
  <2> DEFINE x == IF "fd" \in o.m_read_list
                    THEN [o EXCEPT !.m_read_list = @ \ {"fd"}]
                    ELSE [o EXCEPT !.m_write_list = @ \ {"fd"}]
  <2>1. /\ Stale(o) /\ loop = "running" /\ UNCHANGED <<pc, confirm, loop, command, link>>
        /\ o' = Failed(x)
    BY <1>8 DEF HandleError, Environment
  <2>2. x \in Observer /\ x.state = o.state
        /\ x.m_read_list \subseteq o.m_read_list /\ x.m_write_list \subseteq o.m_write_list
    BY <1>t DEF Observer
  <2>3. o.state = "Error" /\ pc \notin {"start", "connecting", "closed", "gone"} /\ ~Unregistered(o)
    BY <2>1 DEF RegisteredInv, Stale, Unregistered, NewObserver
  <2>4. o' = [Clear(x) EXCEPT !.state = "Error", !.watching = {}]
    BY <2>1, <2>2, <2>3 DEF Failed
  <2> HIDE DEF x
  <2>5. Clear(x) \in Observer
    BY <2>2, ObserverTyped, Zenon
  <2>6. /\ o'.state = "Error" /\ o'.m_socket = "none" /\ o'.buffers = <<>>
        /\ o'.m_read_list = x.m_read_list /\ o'.m_write_list = x.m_write_list
    BY <2>2, <2>4, <2>5, ClearProperties DEF Observer
  <2>7. "none" \notin o.m_read_list \cup o.m_write_list
    BY <2>1 DEF RegisteredInv, Registrations, Stale
  <2>8. Registrations(o')
    BY <2>2, <2>6, <2>7 DEF Registrations
  <2> QED BY <2>1, <2>3, <2>6, <2>8 DEF RegisteredInv, ClosingWaits
<1>9. CASE HandleTimeout
  <2>1. /\ o.timer /\ loop = "running" /\ Exists /\ UNCHANGED <<pc, command, link>>
    BY <1>9 DEF HandleTimeout, Environment
  <2>2. pc \notin {"start", "closed", "gone"} /\ ~Unregistered(o)
    BY <2>1 DEF RegisteredInv, Unregistered, NewObserver
  <2>3. CASE o.state = "Closing"
    <3>1. pc \in {"closing", "deleting"} /\ o' = EndClosing(o, TRUE)
      BY <1>9, <2>1, <2>3 DEF HandleTimeout, RegisteredInv, ClosingWaits
    <3>2. Registrations(o) /\ ~Stale(o)
      BY <2>3 DEF RegisteredInv
    <3>3. /\ o'.state = "NotConnected" /\ o'.m_socket = "none" /\ o'.buffers = <<>>
          /\ Unregistered(o')
      BY <1>t, <3>1, <3>2, EndClosingProperties DEF Ended, Unregistered
    <3>4. Registrations(o') /\ ~Stale(o')
      BY <3>3 DEF Registrations, Stale, Unregistered
    <3> QED BY <2>1, <3>1, <3>3, <3>4 DEF RegisteredInv, ClosingWaits
  <2>4. CASE o.state # "Closing"
    <3>1. o' = [o EXCEPT !.timer = FALSE] /\ UNCHANGED <<confirm, loop>>
      BY <1>9, <2>4 DEF HandleTimeout
    <3>2. /\ o'.state = o.state /\ o'.m_socket = o.m_socket /\ o'.buffers = o.buffers
          /\ o'.watching = o.watching /\ Registrations(o') /\ (Stale(o') <=> Stale(o))
      BY <1>t, <3>1 DEF Observer, RegisteredInv, Registrations, Stale
    <3>3. confirm = <<>> \/ pc \notin {"closing", "deleting"}
      BY <2>2 DEF RegisteredInv
    <3> QED BY <2>1, <2>2, <2>4, <3>1, <3>2, <3>3 DEF RegisteredInv, ClosingWaits
  <2> QED BY <2>3, <2>4
<1>10. CASE ExecuteAdd
  <2>1. /\ loop = "running" /\ ~Stale(o) /\ command # <<>> /\ UNCHANGED <<pc, loop, confirm, link>>
        /\ o' = AddObserver(o, {"read", "write"})
    BY <1>10 DEF ExecuteAdd, Executes, Environment
  <2>2. confirm = <<>> /\ pc \in {"connecting", "ready", "writing", "closing", "deleting"}
    BY <1>t, <2>1, NextTask DEF PipesInv, Callers
  <2>3. {"read", "write"} \in SUBSET {"read", "write"} /\ Registrations(o)
    BY DEF RegisteredInv
  <2>4. /\ o'.state = o.state /\ o'.buffers = o.buffers /\ o'.m_socket = o.m_socket
        /\ Registrations(o') /\ ~Stale(o')
    BY <1>t, <2>1, <2>3, AddProperties
  <2>5. o.state # "Closing"
    BY <2>1, <2>2 DEF RegisteredInv, ClosingWaits, Exists
  <2> QED BY <2>1, <2>2, <2>4, <2>5 DEF RegisteredInv, ClosingWaits
<1>11. CASE ExecuteWrite
  <2>1. Head(command) = CallTask /\ pc = "writing" /\ accepted + 1 \in 1 .. MaxMessages
    BY <1>11, NextTask, BoundsAssumption DEF ExecuteWrite, Executes, AddTask, CallTask, TypeInv
  <2>2. Head(command).message = accepted + 1
    BY <2>1 DEF CallTask
  <2>3. /\ loop = "running" /\ ~Stale(o) /\ UNCHANGED <<pc, loop>>
        /\ o' = o \/ o' = Buffered(o, accepted + 1)
    BY <1>11, <2>2 DEF ExecuteWrite, Executes
  <2>4. Registrations(o)
    BY DEF RegisteredInv
  <2>5. o'.state = o.state /\ Registrations(o') /\ ~Stale(o')
    BY <1>t, <2>1, <2>3, <2>4, BufferedProperties
  <2>6. o.state # "Closing"
    BY <2>1 DEF RegisteredInv, ClosingWaits, Exists
  <2> QED BY <2>1, <2>3, <2>5, <2>6 DEF RegisteredInv, ClosingWaits
<1>12. CASE ExecuteClose
  <2>1. confirm = <<>> /\ pc \in {"closing", "deleting"} /\ Tail(command) = <<>>
    BY <1>12, NextTask DEF ExecuteClose, Executes, AddTask, CallTask
  <2>2. /\ loop = "running" /\ ~Stale(o) /\ UNCHANGED <<pc, loop>> /\ command' = <<>>
        /\ Registrations(o)
    BY <1>12, <2>1 DEF ExecuteClose, Executes, RegisteredInv
  <2>3. CASE o.buffers # <<>>
    <3>1. o' = [o EXCEPT !.state = "Closing", !.timer = TRUE] /\ confirm' = <<>>
      BY <1>12, <2>1, <2>3 DEF ExecuteClose
    <3>2. Registrations(o') /\ ~Stale(o')
      BY <1>t, <2>2, <3>1 DEF Observer, Registrations, Stale
    <3> QED BY <2>1, <2>2, <3>1, <3>2 DEF RegisteredInv, ClosingWaits
  <2>4. CASE o.buffers = <<>>
    <3>1. o' = EndClosing(o, TRUE)
      BY <1>12, <2>4 DEF ExecuteClose
    <3>2. /\ o'.state = "NotConnected" /\ o'.m_socket = "none" /\ o'.buffers = <<>>
          /\ Unregistered(o')
      BY <1>t, <2>2, <3>1, EndClosingProperties DEF Ended, Unregistered
    <3>3. Registrations(o') /\ ~Stale(o')
      BY <3>2 DEF Registrations, Stale, Unregistered
    <3> QED BY <2>1, <2>2, <3>2, <3>3 DEF RegisteredInv, ClosingWaits
  <2> QED BY <2>3, <2>4
<1>13. CASE EventThreadDelete
  <2>1. /\ loop = "running" /\ ~Stale(o) /\ UNCHANGED loop /\ pc' = "discarded"
        /\ Registrations(o)
    BY <1>13 DEF EventThreadDelete, RegisteredInv
  <2>2. CASE o.buffers # <<>>
    <3>1. o' = [o EXCEPT !.state = "Closing", !.timer = TRUE]
      BY <1>13, <2>2 DEF EventThreadDelete
    <3>2. Registrations(o') /\ ~Stale(o')
      BY <1>t, <2>1, <3>1 DEF Observer, Registrations, Stale
    <3> QED BY <2>1, <3>2 DEF RegisteredInv, ClosingWaits, Exists
  <2>3. CASE o.buffers = <<>>
    <3>1. o' = EndClosing(o, FALSE)
      BY <1>13, <2>3 DEF EventThreadDelete
    <3>2. o'.m_read_list = {} /\ o'.m_write_list = {}
      BY <1>t, <2>1, <3>1, EndClosingProperties DEF Ended
    <3>3. Registrations(o') /\ ~Stale(o')
      BY <3>2 DEF Registrations, Stale
    <3> QED BY <2>1, <3>3 DEF RegisteredInv, ClosingWaits, Exists
  <2> QED BY <2>2, <2>3

(* The event loop works for an object that is registered, and so in use.   *)
<1>14. ASSUME FdsReady, Readable \/ Writable
       PROVE  /\ loop = "running" /\ UNCHANGED <<pc, command, loop, link>>
              /\ ~Stale(o) /\ Registrations(o) /\ Exists
              /\ pc \notin {"start", "closed", "gone"} /\ ~Unregistered(o)
              /\ confirm = <<>> \/ pc \notin {"closing", "deleting"}
  <2>1. /\ loop = "running" /\ UNCHANGED <<pc, command, loop, link>> /\ ~Stale(o) /\ Exists
        /\ Registrations(o)
    BY <1>14 DEF FdsReady, Environment, RegisteredInv
  <2>2. ~Unregistered(o) /\ pc # "start"
    BY <1>14 DEF Readable, Writable, Unregistered, RegisteredInv, NewObserver
  <2> QED BY <2>1, <2>2 DEF RegisteredInv
<1>15. CASE HandleRead
  <2>1. o' = ConnectFailed(o) /\ FdsReady /\ Readable /\ UNCHANGED confirm
    BY <1>15 DEF HandleRead
  <2>2. /\ o'.state = "Error" /\ o'.buffers = <<>> /\ o'.m_read_list = {} /\ o'.m_write_list = {}
    BY <1>t, <1>14, <2>1, ConnectFailedProperties
  <2>3. Registrations(o') /\ ~Stale(o')
    BY <2>2 DEF Registrations, Stale
  <2>4. link = "broken"
    BY <2>1 DEF Readable
  <2> QED BY <1>14, <2>1, <2>2, <2>3, <2>4 DEF RegisteredInv, ClosingWaits
<1>16. ASSUME NEW x \in Observer, Registrations(x), ~Stale(x), Drained(x), FdsReady, Writable,
              x.m_socket = o.m_socket, x.state = "Closing" => o.state = "Closing",
              pc = "connecting" => x.buffers = <<>>
       PROVE  RegisteredInv'
  <2>0. {"write"} \in SUBSET {"read", "write"}
    OBVIOUS
  <2>1. RemoveObserver(x, {"write"}) \in Observer
    BY <1>16, <2>0, ObserverTyped, Zenon
  <2>2. LET r == RemoveObserver(x, {"write"})
        IN  /\ r.state = x.state /\ r.m_socket = x.m_socket /\ r.buffers = x.buffers
            /\ Registrations(r) /\ ~Stale(r)
    BY <1>16, <2>0, RemoveProperties
  <2>3. CASE x.state = "Closing"
    <3>1. o' = EndClosing(RemoveObserver(x, {"write"}), TRUE)
      BY <1>16, <2>3 DEF Drained
    <3>2. /\ o'.state = "NotConnected" /\ o'.buffers = <<>> /\ Unregistered(o')
      BY <2>1, <2>2, <3>1, EndClosingProperties DEF Ended, Unregistered
    <3>3. Registrations(o') /\ ~Stale(o')
      BY <3>2 DEF Registrations, Stale, Unregistered
    <3>4. pc \in {"closing", "deleting"}
      BY <1>14, <1>16, <2>3 DEF RegisteredInv, ClosingWaits
    <3> QED BY <1>14, <1>16, <3>2, <3>3, <3>4 DEF RegisteredInv, ClosingWaits
  <2>4. CASE x.state # "Closing"
    <3>1. o' = RemoveObserver(x, {"write"}) /\ UNCHANGED confirm
      BY <1>16, <2>4 DEF Drained
    <3>2. /\ o'.state # "Closing" /\ o'.m_socket = o.m_socket /\ o'.buffers = x.buffers
          /\ Registrations(o') /\ ~Stale(o')
      BY <1>16, <2>2, <2>4, <3>1
    <3> QED BY <1>14, <1>16, <3>1, <3>2 DEF RegisteredInv, ClosingWaits
  <2> QED BY <2>3, <2>4
<1>17. ASSUME FdsReady, Writable
       PROVE  /\ NowConnected(o) \in Observer
              /\ Registrations(NowConnected(o)) /\ ~Stale(NowConnected(o))
              /\ NowConnected(o).m_socket = o.m_socket /\ NowConnected(o).buffers = o.buffers
              /\ NowConnected(o).m_write_list = o.m_write_list
              /\ NowConnected(o).state = "Closing" => o.state = "Closing"
  BY <1>t, <1>14, <1>17, HandlersTyped, NowConnectedProperties, NowConnectedKeeps
<1>18. CASE HandleWriteIdle
  <2>1. FdsReady /\ Writable /\ Drained(NowConnected(o)) /\ o.buffers = <<>>
    BY <1>18 DEF HandleWriteIdle
  <2> QED BY <1>16, <1>17, <2>1
<1>19. CASE HandleWrite
  <2>1. /\ FdsReady /\ Writable /\ o.buffers # <<>>
        /\ \E n \in 1 .. Pending(o) :
             IF n = Pending(o) THEN Drained(Consumed(NowConnected(o), n))
             ELSE o' = Consumed(NowConnected(o), n) /\ UNCHANGED confirm
    BY <1>19 DEF HandleWrite
  <2>2. PICK n \in 1 .. Pending(o) :
          IF n = Pending(o) THEN Drained(Consumed(NowConnected(o), n))
          ELSE o' = Consumed(NowConnected(o), n) /\ UNCHANGED confirm
    BY <2>1
  <2> DEFINE x == Consumed(NowConnected(o), n)
  <2>3. n \in 1 .. Pending(NowConnected(o))
    BY <1>t, NowConnectedKeeps DEF Pending
  <2>4. x \in Observer
    BY <1>17, <2>1, <2>3, ConsumedTyped
  <2>5. /\ x.state = NowConnected(o).state /\ x.m_socket = o.m_socket
        /\ Registrations(x) /\ ~Stale(x)
    BY <1>17, <2>1 DEF Consumed, Observer, Registrations, Stale
  <2>6. pc # "connecting"
    BY <2>1 DEF RegisteredInv
  <2>7. x.state = "Closing" => o.state = "Closing"
    BY <1>17, <2>1, <2>5
  <2>8. IF n = Pending(o) THEN Drained(x) ELSE o' = x /\ UNCHANGED confirm
    BY <2>2
  <2> HIDE DEF x
  <2>9. CASE n = Pending(o)
    BY <1>16, <2>1, <2>4, <2>5, <2>6, <2>7, <2>8, <2>9
  <2>10. CASE n # Pending(o)
    <3>1. o' = x /\ UNCHANGED confirm
      BY <2>8, <2>10
    <3> QED BY <1>14, <2>1, <2>5, <2>6, <2>7, <3>1 DEF RegisteredInv, ClosingWaits
  <2> QED BY <2>9, <2>10
<1>20. CASE HandleWriteError
  <2> DEFINE c == Clear(NowConnected(o))
             e == [c EXCEPT !.state = "Error"]
  <2>1. /\ FdsReady /\ Writable /\ o.buffers # <<>> /\ UNCHANGED confirm
        /\ o' = RemoveObserver(e, {"write"})
    BY <1>20 DEF HandleWriteError
  <2>2. c \in Observer
    BY <1>17, <2>1, ObserverTyped, Zenon
  <2>3. /\ c.m_socket = "none" /\ c.buffers = <<>>
        /\ c.m_read_list = NowConnected(o).m_read_list /\ c.m_write_list = o.m_write_list
    BY <1>17, <2>1, ClearProperties
  <2> HIDE DEF c
  <2>4. e \in Observer
    BY <2>2 DEF Observer, ObserverStates
  <2>5. /\ e.state = "Error" /\ e.m_socket = "none" /\ e.buffers = <<>>
        /\ e.m_read_list = NowConnected(o).m_read_list /\ e.m_write_list = o.m_write_list
    BY <2>2, <2>3 DEF Observer
  <2> HIDE DEF e
  <2>6. "none" \notin NowConnected(o).m_read_list \cup o.m_write_list
    BY <1>17, <2>1 DEF Registrations, Writable
  <2>7. /\ o'.state = "Error" /\ o'.m_socket = "none" /\ o'.buffers = <<>>
        /\ o'.m_read_list \subseteq e.m_read_list /\ o'.m_write_list \subseteq e.m_write_list
    BY <2>1, <2>4, <2>5, RemoveProperties, {"write"} \in SUBSET {"read", "write"}
  <2>8. Registrations(o')
    BY <2>5, <2>6, <2>7 DEF Registrations
  <2>9. pc # "connecting"
    BY <2>1 DEF RegisteredInv
  <2> QED BY <1>14, <2>1, <2>7, <2>8, <2>9 DEF RegisteredInv, ClosingWaits
<1>21. CASE Established \/ Refused \/ Broken \/ Stall
  <2>1. UNCHANGED <<pc, command, confirm, o, loop>>
    BY <1>21 DEF Established, Refused, Broken, Stall, LinkOnly
  <2>2. link = "broken" => link' = "broken"
    BY <1>21 DEF Established, Refused, Broken, Stall
  <2> QED BY <2>1, <2>2 DEF RegisteredInv, ClosingWaits, Exists
<1>22. CASE UNCHANGED vars
  BY <1>22 DEF vars, RegisteredInv, ClosingWaits, Exists
<1> QED BY <1>1, <1>2, <1>3, <1>4, <1>5, <1>6, <1>7, <1>8, <1>9, <1>10, <1>11,
           <1>12, <1>13, <1>15, <1>18, <1>19, <1>20, <1>21, <1>22
        DEF Next, EventLoop


-----------------------------------------------------------------------------
(* What is watched for writing.                                            *)

(* After n bytes of the buffers were written: so many whole messages less, *)
(* and a position in the one that is first now.                            *)
LEMMA ConsumedProperties ==
  ASSUME NEW x \in Observer, NEW n \in 1 .. Pending(x)
  PROVE  LET y == Consumed(x, n)
             k == (x.buf_pos + n) \div MsgLen
         IN  /\ y.state = x.state /\ y.m_socket = x.m_socket /\ y.watching = x.watching
             /\ y.m_read_list = x.m_read_list /\ y.m_write_list = x.m_write_list
             /\ k \in Nat /\ k <= Len(x.buffers)
             /\ Len(y.buffers) = Len(x.buffers) - k
             /\ \A i \in 1 .. Len(y.buffers) : y.buffers[i] = x.buffers[i + k]
             /\ y.buf_pos \in 0 .. MsgLen - 1
             /\ x.buf_pos + n = k * MsgLen + y.buf_pos
             /\ n = Pending(x) <=> y.buffers = <<>>
             /\ y.buffers = <<>> => y.buf_pos = 0
<1> DEFINE y == Consumed(x, n)
           L == Len(x.buffers)
           s == x.buf_pos + n
           k == s \div MsgLen
           r == s % MsgLen
<1>1. L \in Nat /\ s \in Nat /\ n \in Nat /\ x.buf_pos \in Nat /\ MsgLen \in Nat \ {0}
      /\ x.buffers \in Seq(1 .. MaxMessages)
  BY MsgLenAssumption DEF Observer
<1>2. k \in Nat /\ r \in 0 .. MsgLen - 1 /\ s = k * MsgLen + r
  BY <1>1, Division
<1> HIDE DEF y, k, r, s, L
<1>3. L * MsgLen \in Nat /\ k * MsgLen \in Nat
  BY <1>1, <1>2, Multiples
<1>4. s <= L * MsgLen /\ (n = Pending(x) <=> s = L * MsgLen)
  <2>1. Pending(x) = L * MsgLen - x.buf_pos /\ s = x.buf_pos + n
    BY DEF Pending, L, s
  <2>2. n <= Pending(x)
    BY <1>1, <1>3, <2>1
  <2> QED BY <1>1, <1>3, <2>1, <2>2
<1>5. /\ y.state = x.state /\ y.m_socket = x.m_socket /\ y.watching = x.watching
      /\ y.m_read_list = x.m_read_list /\ y.m_write_list = x.m_write_list
      /\ y.buf_pos = r /\ y.buffers = SubSeq(x.buffers, 1 + k, L)
  BY DEF Consumed, Observer, y, k, r, s, L
<1>6. k <= L
  <2>1. L < k => L * MsgLen + MsgLen <= k * MsgLen
    BY <1>1, <1>2, Multiples
  <2> QED BY <1>1, <1>2, <1>3, <1>4, <2>1
<1>7. k = L => r = 0 /\ s = L * MsgLen
  BY <1>1, <1>2, <1>3, <1>4
<1>8. s = L * MsgLen => k = L
  <2>1. k < L => k * MsgLen + MsgLen <= L * MsgLen
    BY <1>1, <1>2, Multiples
  <2> QED BY <1>1, <1>2, <1>3, <1>6, <2>1
<1>9. /\ y.buffers \in Seq(1 .. MaxMessages) /\ Len(y.buffers) = L - k
      /\ \A i \in 1 .. Len(y.buffers) : y.buffers[i] = x.buffers[i + k]
  <2>1. L = Len(x.buffers)
    BY DEF L
  <2>2. /\ SubSeq(x.buffers, 1 + k, Len(x.buffers)) \in Seq(1 .. MaxMessages)
        /\ Len(SubSeq(x.buffers, 1 + k, Len(x.buffers))) = Len(x.buffers) - k
        /\ \A i \in 1 .. Len(x.buffers) - k :
             SubSeq(x.buffers, 1 + k, Len(x.buffers))[i] = x.buffers[i + k]
    BY <1>1, <1>2, <1>6, <2>1, SuffixTyped
  <2> QED BY <1>5, <2>1, <2>2
<1>10. y.buffers = <<>> <=> k = L
  BY <1>1, <1>2, <1>9, EmptySeq
<1> QED BY <1>2, <1>4, <1>5, <1>6, <1>7, <1>8, <1>9, <1>10 DEF y, k, r, s, L

LEMMA WatchedInit == Init => WatchedInv
BY DEF Init, WatchedInv, NewObserver


LEMMA WatchedStep == TypeInv /\ PipesInv /\ RegisteredInv /\ WatchedInv /\ [Next]_vars => WatchedInv'
<1> SUFFICES ASSUME TypeInv, PipesInv, RegisteredInv, WatchedInv, [Next]_vars PROVE WatchedInv'
  OBVIOUS
<1>t. o \in Observer /\ pc \in Callers /\ loop \in {"running", "ended"}
      /\ o.m_socket \in {"fd", "none"}
  BY DEF TypeInv, Observer, Fds
<1>1. ASSUME UNCHANGED <<o, command, loop>> PROVE WatchedInv'
  BY <1>1 DEF WatchedInv
<1>2. ASSUME o'.m_socket # "fd" PROVE WatchedInv'
  BY <1>2 DEF WatchedInv
<1>3. CASE Open
  <2>1. /\ pc = "start" /\ UNCHANGED loop /\ command' = Append(command, AddTask)
        /\ o' = [NewObserver EXCEPT !.state = "Error", !.m_socket = "fd",
                                    !.watching = {"read", "write"}]
    BY <1>3 DEF Open, RegisteredInv, AddTask
  <2>2. o'.buffers = <<>>
    BY <2>1 DEF NewObserver
  <2>3. loop = "running" => command' # <<>> /\ Head(command') = AddTask
    BY <2>1, ShortSequences DEF PipesInv
  <2> QED BY <2>1, <2>2, <2>3 DEF WatchedInv
<1>4. CASE OpenReturns
  <2>1. /\ o'.m_socket = o.m_socket /\ o'.buffers = o.buffers /\ o'.watching = o.watching
        /\ o'.m_write_list = o.m_write_list /\ UNCHANGED <<command, loop>>
    BY <1>4, <1>t DEF OpenReturns, Observer
  <2> QED BY <2>1 DEF WatchedInv
<1>5. CASE OpenFails
  <2>1. o' = [NewObserver EXCEPT !.state = "Error"]
    BY <1>5 DEF OpenFails, RegisteredInv
  <2> QED BY <1>2, <2>1 DEF NewObserver
<1>6. CASE Write \/ Close \/ Delete
  <2>1. /\ UNCHANGED <<o, loop>> /\ pc \in {"start", "ready", "closed"}
        /\ \E t : command' = Append(command, t)
    BY <1>6 DEF Write, Close, Delete, EventThread
  <2>2. PICK t : command' = Append(command, t)
    BY <2>1
  <2>3. loop = "running" => command \in {<<>>, <<AddTask>>}
    BY <2>1 DEF PipesInv
  <2>4. loop = "running" /\ command # <<>> => command' # <<>> /\ Head(command') = AddTask
    <3>1. /\ Append(<<AddTask>>, t) = <<AddTask, t>> /\ Head(<<AddTask, t>>) = AddTask
          /\ <<AddTask, t>> # <<>>
      BY ShortSequences
    <3> QED BY <2>2, <2>3, <3>1
  <2> QED BY <2>1, <2>4 DEF WatchedInv
<1>7. CASE WriteReturns
  BY <1>1, <1>7 DEF WriteReturns, EventThread
<1>8. CASE CloseReturns
  BY <1>2, <1>8, <1>t, ClearProperties DEF CloseReturns
<1>9. CASE Renew
  BY <1>2, <1>9 DEF Renew, NewObserver
<1>10. CASE HandleError
  <2> DEFINE x == IF "fd" \in o.m_read_list
                    THEN [o EXCEPT !.m_read_list = @ \ {"fd"}]
                    ELSE [o EXCEPT !.m_write_list = @ \ {"fd"}]
             y == IF x.state = "Connecting" THEN RemoveObserver(x, {"write"}) ELSE x
  <2>1. x \in Observer
    BY <1>t DEF Observer
  <2>2. o' = [Clear(y) EXCEPT !.state = "Error", !.watching = {}]
    BY <1>10 DEF HandleError, Failed
  <2> HIDE DEF x
  <2>3. RemoveObserver(x, {"write"}) \in Observer
    BY <2>1, ObserverTyped, Zenon, {"write"} \in SUBSET {"read", "write"}
  <2>4. y \in Observer
    BY <2>1, <2>3
  <2> HIDE DEF y
  <2>5. Clear(y) \in Observer /\ Clear(y).m_socket = "none"
    BY <2>4, ObserverTyped, ClearProperties, Zenon
  <2> QED BY <1>2, <2>2, <2>5 DEF Observer
<1>11. ASSUME ~Stale(o), o' = EndClosing(o, TRUE) \/ o' = EndClosing(o, FALSE) PROVE WatchedInv'
  <2>1. o'.m_socket = "none"
    BY <1>11, <1>t, EndClosingProperties DEF Ended
  <2> QED BY <1>2, <2>1
<1>12. CASE HandleTimeout
  <2>1. CASE o.state = "Closing"
    <3>1. ~Stale(o) /\ o' = EndClosing(o, TRUE)
      BY <1>12, <2>1 DEF HandleTimeout, RegisteredInv
    <3> QED BY <1>11, <3>1
  <2>2. CASE o.state # "Closing"
    <3>1. o' = [o EXCEPT !.timer = FALSE] /\ UNCHANGED <<command, loop>>
      BY <1>12, <2>2 DEF HandleTimeout
    <3>2. /\ o'.m_socket = o.m_socket /\ o'.buffers = o.buffers /\ o'.watching = o.watching
          /\ o'.m_write_list = o.m_write_list
      BY <1>t, <3>1 DEF Observer
    <3> QED BY <3>1, <3>2 DEF WatchedInv
  <2> QED BY <2>1, <2>2
<1>13. CASE ExecuteAdd
  <2>1. o' = AddObserver(o, {"read", "write"}) /\ {"read", "write"} \in SUBSET {"read", "write"}
    BY <1>13 DEF ExecuteAdd
  <2>2. o'.m_socket = o.m_socket /\ o.m_socket \in o'.m_write_list
    BY <1>t, <2>1, AddProperties
  <2> QED BY <2>2 DEF WatchedInv
<1>14. CASE ExecuteWrite
  <2>1. /\ Head(command) = CallTask /\ pc = "writing" /\ accepted + 1 \in 1 .. MaxMessages
        /\ Head(command) # AddTask
    BY <1>14, NextTask, BoundsAssumption DEF ExecuteWrite, Executes, AddTask, CallTask, TypeInv
  <2>2. Head(command).message = accepted + 1
    BY <2>1 DEF CallTask
  <2>3. /\ loop = "running" /\ (o' = o \/ o' = Buffered(o, accepted + 1))
    BY <1>14, <2>2 DEF ExecuteWrite, Executes
  <2>4. /\ o'.m_socket = o.m_socket /\ o.m_write_list \subseteq o'.m_write_list
        /\ o' # o /\ "write" \notin o.watching => o.m_socket \in o'.m_write_list
    BY <1>t, <2>1, <2>3, BufferedProperties
  <2>5. o'.m_socket = "fd" /\ "write" \in o.watching => "fd" \in o'.m_write_list
    BY <2>1, <2>3, <2>4 DEF WatchedInv
  <2>6. CASE o' = o
    BY <2>5, <2>6 DEF WatchedInv
  <2>7. CASE o' # o
    BY <2>4, <2>5, <2>7 DEF WatchedInv
  <2> QED BY <2>6, <2>7
<1>15. CASE ExecuteClose
  <2>1. /\ Head(command).task = "close" /\ loop = "running" /\ ~Stale(o)
        /\ (o' = [o EXCEPT !.state = "Closing", !.timer = TRUE] \/ o' = EndClosing(o, TRUE))
    BY <1>15 DEF ExecuteClose, Executes
  <2>2. CASE o' = [o EXCEPT !.state = "Closing", !.timer = TRUE]
    <3>1. /\ o'.m_socket = o.m_socket /\ o'.buffers = o.buffers /\ o'.watching = o.watching
          /\ o'.m_write_list = o.m_write_list
      BY <1>t, <2>2 DEF Observer
    <3> QED BY <2>1, <3>1 DEF WatchedInv, AddTask
  <2> QED BY <1>11, <2>1, <2>2
<1>16. CASE EventThreadDelete
  <2>1. /\ UNCHANGED <<command, loop>> /\ ~Stale(o)
        /\ (o' = [o EXCEPT !.state = "Closing", !.timer = TRUE] \/ o' = EndClosing(o, FALSE))
    BY <1>16 DEF EventThreadDelete
  <2>2. CASE o' = [o EXCEPT !.state = "Closing", !.timer = TRUE]
    <3>1. /\ o'.m_socket = o.m_socket /\ o'.buffers = o.buffers /\ o'.watching = o.watching
          /\ o'.m_write_list = o.m_write_list
      BY <1>t, <2>2 DEF Observer
    <3> QED BY <2>1, <3>1 DEF WatchedInv
  <2> QED BY <1>11, <2>1, <2>2
<1>17. CASE HandleRead
  <2>1. ~Stale(o) /\ Registrations(o) /\ o' = ConnectFailed(o)
    BY <1>17 DEF HandleRead, FdsReady, RegisteredInv
  <2>2. o'.m_socket = "none"
    BY <1>t, <2>1, ConnectFailedProperties
  <2> QED BY <1>2, <2>2
(* The buffers are empty: the socket is no longer watched.                 *)
<1>18. ASSUME NEW x \in Observer, x.buffers = <<>>, Drained(x) PROVE WatchedInv'
  <2>0. {"write"} \in SUBSET {"read", "write"}
    OBVIOUS
  <2>1. RemoveObserver(x, {"write"}) \in Observer
    BY <1>18, <2>0, ObserverTyped, Zenon
  <2>2. LET r == RemoveObserver(x, {"write"})
        IN  r.buffers = <<>> /\ "write" \notin r.watching
    BY <1>18, <2>0, RemoveProperties
  <2>3. EndClosing(RemoveObserver(x, {"write"}), TRUE).m_socket = "none"
    BY <2>1, EndClosingProperties DEF Ended
  <2> QED BY <1>18, <2>2, <2>3 DEF Drained, WatchedInv
<1>19. CASE HandleWriteIdle
  <2>1. NowConnected(o) \in Observer /\ NowConnected(o).buffers = <<>> /\ Drained(NowConnected(o))
    BY <1>19, <1>t, HandlersTyped, NowConnectedKeeps DEF HandleWriteIdle
  <2> QED BY <1>18, <2>1
<1>20. CASE HandleWrite
  <2>1. /\ "fd" \in o.m_write_list
        /\ \E n \in 1 .. Pending(o) :
             IF n = Pending(o) THEN Drained(Consumed(NowConnected(o), n))
             ELSE o' = Consumed(NowConnected(o), n) /\ UNCHANGED confirm
    BY <1>20 DEF HandleWrite, Writable
  <2>2. PICK n \in 1 .. Pending(o) :
          IF n = Pending(o) THEN Drained(Consumed(NowConnected(o), n))
          ELSE o' = Consumed(NowConnected(o), n) /\ UNCHANGED confirm
    BY <2>1
  <2>3. /\ NowConnected(o) \in Observer /\ Pending(NowConnected(o)) = Pending(o)
        /\ NowConnected(o).m_write_list = o.m_write_list
    BY <1>t, HandlersTyped, NowConnectedKeeps DEF Pending
  <2>4. /\ Consumed(NowConnected(o), n) \in Observer
        /\ Consumed(NowConnected(o), n).m_write_list = o.m_write_list
        /\ n = Pending(o) => Consumed(NowConnected(o), n).buffers = <<>>
    BY <2>2, <2>3, ConsumedTyped, ConsumedProperties
  <2>5. CASE n = Pending(o)
    BY <1>18, <2>2, <2>4, <2>5
  <2>6. CASE n # Pending(o)
    <3>1. "fd" \in o'.m_write_list
      BY <2>1, <2>2, <2>4, <2>6
    <3> QED BY <3>1 DEF WatchedInv
  <2> QED BY <2>5, <2>6
<1>21. CASE HandleWriteError
  <2> DEFINE c == Clear(NowConnected(o))
             e == [c EXCEPT !.state = "Error"]
  <2>1. o' = RemoveObserver(e, {"write"})
    BY <1>21 DEF HandleWriteError
  <2>2. NowConnected(o) \in Observer
    BY <1>t, HandlersTyped
  <2>3. c \in Observer /\ c.m_socket = "none"
    BY <2>2, ObserverTyped, ClearProperties, Zenon
  <2> HIDE DEF c
  <2>4. e \in Observer /\ e.m_socket = "none"
    BY <2>3 DEF Observer, ObserverStates
  <2> HIDE DEF e
  <2>5. o'.m_socket = "none"
    BY <2>1, <2>4, RemoveProperties, {"write"} \in SUBSET {"read", "write"}
  <2> QED BY <1>2, <2>5
<1>22. CASE Established \/ Refused \/ Broken \/ Stall
  BY <1>1, <1>22 DEF Established, Refused, Broken, Stall, LinkOnly
<1>23. CASE UNCHANGED vars
  BY <1>1, <1>23 DEF vars
<1> QED BY <1>3, <1>4, <1>5, <1>6, <1>7, <1>8, <1>9, <1>10, <1>12, <1>13, <1>14, <1>15,
           <1>16, <1>17, <1>19, <1>20, <1>21, <1>22, <1>23
        DEF Next, EventLoop


-----------------------------------------------------------------------------
(* The timer, and what a deleted output leaves.                            *)

(* Only arming and ending the flush change the timer.                      *)
LEMMA TimerKept ==
  ASSUME NEW x \in Observer
  PROVE  /\ \A w \in SUBSET {"read", "write"} :
              AddObserver(x, w).timer = x.timer /\ RemoveObserver(x, w).timer = x.timer
         /\ Clear(x).timer = x.timer /\ Failed(x).timer = x.timer
         /\ ConnectFailed(x).timer = x.timer /\ NowConnected(x).timer = x.timer
         /\ \A m \in 1 .. MaxMessages : Buffered(x, m).timer = x.timer
         /\ \A n \in 1 .. Pending(x) : Consumed(x, n).timer = x.timer
<1>1. ASSUME NEW w \in SUBSET {"read", "write"}
      PROVE  AddObserver(x, w).timer = x.timer /\ RemoveObserver(x, w).timer = x.timer
  BY AddProperties, RemoveProperties
<1>2. Clear(x).timer = x.timer
  BY ClearProperties
<1>3. Failed(x).timer = x.timer
  <2> DEFINE r == RemoveObserver(x, {"write"})
  <2>1. r \in Observer /\ r.timer = x.timer
    BY <1>1, ObserverTyped
  <2> HIDE DEF r
  <2>2. Clear(r) \in Observer /\ Clear(x) \in Observer /\ Clear(r).timer = x.timer
    BY <2>1, ObserverTyped, ClearProperties
  <2>3. \A y \in Observer : [y EXCEPT !.state = "Error", !.watching = {}].timer = y.timer
    BY DEF Observer
  <2> QED BY <1>2, <2>2, <2>3 DEF Failed, r
<1>4. ConnectFailed(x).timer = x.timer
  <2> DEFINE r == RemoveObserver(x, {"read", "write"})
  <2>1. r \in Observer /\ r.timer = x.timer
    BY <1>1, ObserverTyped
  <2> HIDE DEF r
  <2>2. Clear(r) \in Observer /\ Clear(r).timer = x.timer
    BY <2>1, ObserverTyped, ClearProperties
  <2>3. \A y \in Observer : [y EXCEPT !.state = "Error"].timer = y.timer
    BY DEF Observer
  <2> QED BY <2>2, <2>3 DEF ConnectFailed, r
<1>5. NowConnected(x).timer = x.timer
  BY NowConnectedKeeps
<1>6. ASSUME NEW m \in 1 .. MaxMessages PROVE Buffered(x, m).timer = x.timer
  BY BufferedProperties
<1>7. ASSUME NEW n \in 1 .. Pending(x) PROVE Consumed(x, n).timer = x.timer
  BY DEF Consumed, Observer
<1> QED BY <1>1, <1>2, <1>3, <1>4, <1>5, <1>6, <1>7

LEMMA DrainedTimer ==
  ASSUME NEW x \in Observer, Drained(x), o'.timer
  PROVE  x.timer
<1>1. RemoveObserver(x, {"write"}) \in Observer
  BY ObserverTyped
<1>2. RemoveObserver(x, {"write"}).timer = x.timer
  BY TimerKept
<1>3. ~EndClosing(RemoveObserver(x, {"write"}), TRUE).timer
  BY <1>1, EndClosingProperties
<1> QED BY <1>2, <1>3 DEF Drained

LEMMA TimerInit == Init => TimerInv
BY DEF Init, TimerInv, NewObserver

LEMMA TimerStep ==
  TypeInv /\ PipesInv /\ RegisteredInv /\ TimerInv /\ [Next]_vars => TimerInv'
<1> SUFFICES ASSUME TypeInv, PipesInv, RegisteredInv, TimerInv, [Next]_vars PROVE TimerInv'
  OBVIOUS
<1>t. o \in Observer /\ pc \in Callers
  BY DEF TypeInv
(* The object is as before, and the caller where it may be.                *)
<1>1. CASE Open \/ OpenFails
  <2>1. pc = "start" /\ pc' \in {"connecting", "ready"} /\ o = NewObserver
    BY <1>1 DEF Open, OpenFails, RegisteredInv
  <2>2. o'.timer = NewObserver.timer
    BY <1>1, <2>1 DEF Open, OpenFails, NewObserver
  <2> QED BY <2>1, <2>2 DEF TimerInv, NewObserver
<1>2. CASE OpenReturns
  <2>1. pc = "connecting" /\ pc' = "ready" /\ o'.timer = o.timer
    BY <1>t, <1>2 DEF OpenReturns, Observer
  <2> QED BY <2>1 DEF TimerInv
<1>3. CASE Write \/ WriteReturns
  <2>1. /\ UNCHANGED o /\ pc \in {"ready", "writing"} /\ pc' \in {"ready", "writing"}
    BY <1>3 DEF Write, WriteReturns, EventThread
  <2> QED BY <2>1 DEF TimerInv
<1>4. CASE Close \/ Delete
  BY <1>4 DEF Close, Delete, EventThread, TimerInv
<1>5. CASE CloseReturns
  <2>1. /\ pc \in {"closing", "deleting"} /\ confirm # <<>> /\ o' = Clear(o)
        /\ pc' \in {"closed", "gone"}
    BY <1>5 DEF CloseReturns
  <2>2. ~o.timer
    BY <2>1 DEF RegisteredInv, Unregistered
  <2> QED BY <1>t, <2>1, <2>2, TimerKept DEF TimerInv
<1>6. CASE Renew
  BY <1>6 DEF Renew, TimerInv, NewObserver
<1>7. CASE EventThreadDelete
  <2>1. /\ ~Stale(o) /\ Registrations(o) /\ pc \in {"start", "ready"} /\ pc' = "discarded"
    BY <1>7 DEF EventThreadDelete, RegisteredInv
  <2>2. CASE o.buffers # <<>>
    <3>1. o' = [o EXCEPT !.state = "Closing", !.timer = TRUE]
      BY <1>7, <2>2 DEF EventThreadDelete
    <3>2. o'.timer /\ o'.buffers # <<>>
      BY <1>t, <2>2, <3>1 DEF Observer
    <3> QED BY <2>1, <3>2 DEF TimerInv
  <2>3. CASE o.buffers = <<>>
    <3>1. o' = EndClosing(o, FALSE)
      BY <1>7, <2>3 DEF EventThreadDelete
    <3>2. /\ o'.m_read_list = {} /\ o'.m_write_list = {} /\ o'.buffers = <<>>
          /\ o'.timer = o.timer
      BY <1>t, <2>1, <3>1, EndClosingProperties DEF Ended
    <3>3. ~o.timer
      BY <2>1 DEF TimerInv
    <3> QED BY <2>1, <3>2, <3>3 DEF TimerInv, Unregistered
  <2> QED BY <2>2, <2>3
(* The event loop: the output exists, and only ExecuteClose arms the timer. *)
<1>8. ASSUME Exists, UNCHANGED pc, o'.timer => o.timer \/ pc \in {"closing", "deleting"}
      PROVE  TimerInv'
  BY <1>8 DEF TimerInv, Exists
<1>9. CASE HandleError
  <2> DEFINE x == IF "fd" \in o.m_read_list
                    THEN [o EXCEPT !.m_read_list = @ \ {"fd"}]
                    ELSE [o EXCEPT !.m_write_list = @ \ {"fd"}]
  <2>1. x \in Observer /\ x.timer = o.timer
    BY <1>t DEF Observer
  <2>2. o' = Failed(x) /\ Exists /\ UNCHANGED pc
    BY <1>9 DEF HandleError
  <2> HIDE DEF x
  <2> QED BY <1>8, <2>1, <2>2, TimerKept
<1>10. CASE HandleTimeout
  <2>1. Exists /\ UNCHANGED pc /\ o.timer
    BY <1>10 DEF HandleTimeout
  <2> QED BY <1>8, <2>1
<1>11. ASSUME loop = "running", command # <<>> PROVE Exists
  BY <1>11 DEF PipesInv, Exists
<1>12. CASE ExecuteAdd
  <2>1. Exists /\ UNCHANGED pc /\ o' = AddObserver(o, {"read", "write"})
    BY <1>11, <1>12 DEF ExecuteAdd, Executes
  <2>2. {"read", "write"} \in SUBSET {"read", "write"}
    OBVIOUS
  <2> QED BY <1>t, <1>8, <2>1, <2>2, TimerKept
<1>13. CASE ExecuteWrite
  <2>1. Head(command) = CallTask /\ pc = "writing" /\ accepted + 1 \in 1 .. MaxMessages
    BY <1>13, NextTask, BoundsAssumption DEF ExecuteWrite, Executes, AddTask, CallTask, TypeInv
  <2>2. Head(command).message = accepted + 1
    BY <2>1 DEF CallTask
  <2>3. Exists /\ UNCHANGED pc /\ (o' = o \/ o' = Buffered(o, accepted + 1))
    BY <1>11, <1>13, <2>2 DEF ExecuteWrite, Executes
  <2> QED BY <1>t, <1>8, <2>1, <2>3, TimerKept
<1>14. CASE ExecuteClose
  <2>1. pc \in {"closing", "deleting"}
    BY <1>14, NextTask DEF ExecuteClose, Executes, AddTask, CallTask
  <2>2. Exists /\ UNCHANGED pc
    BY <1>11, <1>14 DEF ExecuteClose, Executes
  <2> QED BY <1>8, <2>1, <2>2
<1>15. CASE HandleRead
  <2>1. Exists /\ UNCHANGED pc /\ o' = ConnectFailed(o)
    BY <1>15 DEF HandleRead, FdsReady
  <2> QED BY <1>t, <1>8, <2>1, TimerKept
<1>16. NowConnected(o) \in Observer /\ NowConnected(o).timer = o.timer
  BY <1>t, HandlersTyped, TimerKept
<1>17. CASE HandleWriteIdle
  <2>1. Exists /\ UNCHANGED pc /\ Drained(NowConnected(o))
    BY <1>17 DEF HandleWriteIdle, FdsReady
  <2> QED BY <1>8, <1>16, <2>1, DrainedTimer
<1>18. CASE HandleWrite
  <2>1. Exists /\ UNCHANGED pc
    BY <1>18 DEF HandleWrite, FdsReady
  <2>2. PICK n \in 1 .. Pending(o) :
          IF n = Pending(o) THEN Drained(Consumed(NowConnected(o), n))
          ELSE o' = Consumed(NowConnected(o), n)
    BY <1>18 DEF HandleWrite
  <2>3. n \in 1 .. Pending(NowConnected(o))
    BY <1>t, NowConnectedKeeps DEF Pending
  <2>4. Consumed(NowConnected(o), n).timer = o.timer
    BY <1>16, <2>3, TimerKept
  <2>5. Consumed(NowConnected(o), n) \in Observer
    BY <1>16, <1>18, <2>3, ConsumedTyped, NowConnectedKeeps DEF HandleWrite
  <2> QED BY <1>8, <2>1, <2>2, <2>4, <2>5, DrainedTimer
<1>19. CASE HandleWriteError
  <2>1. Exists /\ UNCHANGED pc
        /\ o' = RemoveObserver([Clear(NowConnected(o)) EXCEPT !.state = "Error"], {"write"})
    BY <1>19 DEF HandleWriteError, FdsReady
  <2> DEFINE c == Clear(NowConnected(o))
             e == [c EXCEPT !.state = "Error"]
  <2>2. c \in Observer /\ c.timer = o.timer
    BY <1>16, ObserverTyped, TimerKept
  <2> HIDE DEF c
  <2>3. e \in Observer /\ e.timer = o.timer
    BY <2>2 DEF Observer, ObserverStates
  <2>4. o' = RemoveObserver(e, {"write"})
    BY <2>1 DEF c
  <2> HIDE DEF e
  <2> QED BY <1>8, <2>1, <2>3, <2>4, TimerKept
<1>20. CASE Established \/ Refused \/ Broken \/ Stall \/ UNCHANGED vars
  <2>1. UNCHANGED <<pc, o>>
    BY <1>20 DEF Established, Refused, Broken, Stall, LinkOnly, vars
  <2> QED BY <2>1 DEF TimerInv, Unregistered
<1> QED BY <1>1, <1>2, <1>3, <1>4, <1>5, <1>6, <1>7, <1>9, <1>10, <1>12, <1>13, <1>14,
           <1>15, <1>17, <1>18, <1>19, <1>20
        DEF Next, EventLoop

-----------------------------------------------------------------------------
(* What the run checks of every state follows.                             *)

(* The flags of the other end and of the flushing timer.                   *)
Flags == stalled \in BOOLEAN /\ gaveUp \in BOOLEAN

LEMMA FlagsInit == Init => Flags
BY Zenon DEF Init, Flags

LEMMA FlagsStep == Flags /\ [Next]_vars => Flags'
<1> SUFFICES ASSUME Flags, [Next]_vars PROVE Flags'
  OBVIOUS
<1>1. stalled' = stalled \/ stalled' = ~stalled \/ stalled' = FALSE
  BY DEF Next, vars, Open, OpenReturns, OpenFails, Write, WriteReturns, Close, Delete,
         CloseReturns, Renew, EventLoop, HandleError, HandleTimeout, ExecuteAdd, ExecuteWrite,
         ExecuteClose, Executes, HandleRead, HandleWriteIdle, HandleWrite, HandleWriteError,
         FdsReady, EventThreadDelete, Established, Refused, Broken, Stall, LinkOnly,
         Environment, EventThread
<1>2. gaveUp' = gaveUp \/ gaveUp' = TRUE \/ gaveUp' = FALSE
  BY DEF Next, vars, Open, OpenReturns, OpenFails, Write, WriteReturns, Close, Delete,
         CloseReturns, Renew, EventLoop, HandleError, HandleTimeout, ExecuteAdd, ExecuteWrite,
         ExecuteClose, Executes, HandleRead, HandleWriteIdle, HandleWrite, HandleWriteError,
         FdsReady, EventThreadDelete, Established, Refused, Broken, Stall, LinkOnly,
         Environment, EventThread
<1> QED BY <1>1, <1>2, Zenon DEF Flags

(* Tasks in the pipe that somebody waits for.                              *)
LEMMA AwaitedTasks ==
  ASSUME PipesInv, loop = "running", pc \in Callers
  PROVE  OneAnswerPerCall
<1> DEFINE Awaited == {i \in DOMAIN command : command[i].task # "add"}
           Waits == pc \in {"writing", "closing", "deleting"}
<1>1. AddTask.task = "add" /\ CallTask.task \in {"write", "close"}
  BY DEF AddTask, CallTask
<1>2. Cardinality({}) = 0 /\ \A e : Cardinality({e}) = 1
  BY FS_EmptySet, FS_Singleton
<1>3. CASE command \in {<<>>, <<AddTask>>}
  <2>1. Awaited = {}
    BY <1>1, <1>3
  <2>2. /\ confirm \in {<<>>, <<"Opened">>, <<"Failure">>, <<"closed">>}
        /\ confirm # <<>> => Waits
    BY DEF PipesInv, Callers
  <2>3. Len(confirm) = IF confirm = <<>> THEN 0 ELSE 1
    BY <2>2
  <2> QED BY <1>2, <2>1, <2>2, <2>3 DEF OneAnswerPerCall
<1>4. CASE command \in {<<CallTask>>, <<AddTask, CallTask>>}
  <2>1. Awaited = {1} \/ Awaited = {2}
    <3>1. CASE command = <<CallTask>>
      BY <1>1, <3>1
    <3>2. CASE command = <<AddTask, CallTask>>
      BY <1>1, <3>2
    <3> QED BY <1>4, <3>1, <3>2
  <2>2. Cardinality(Awaited) = 1
    BY <1>2, <2>1
  <2>3. AddTask # CallTask
    BY <1>1
  <2>4. Waits /\ confirm = <<>>
    BY <1>4, <2>3, ShortSequences DEF PipesInv, Callers
  <2> QED BY <2>2, <2>4 DEF OneAnswerPerCall
<1> QED BY <1>3, <1>4 DEF PipesInv, Callers

LEMMA SafetyImplies == SafetyInv /\ TimerInv /\ Flags => NetworkInv
<1> SUFFICES ASSUME SafetyInv, TimerInv, Flags PROVE NetworkInv
  OBVIOUS
<1>1. NetworkTypeOK
  <2>1. /\ pc \in Callers /\ network_state \in NetworkStates
        /\ command \in Seq([task : Tasks, message : 0 .. MaxMessages])
        /\ confirm \in Seq({"Opened", "Failure", "closed", "byte"})
        /\ loop \in {"running", "ended"}
        /\ link \in Links
        /\ accepted \in 0 .. MaxMessages
        /\ outputs \in 1 .. MaxOutputs
    BY DEF SafetyInv, TypeInv, Commands, Answers
  <2>2. /\ o.state \in ObserverStates /\ o.buffers \in Seq(1 .. MaxMessages)
        /\ o.buf_pos \in 0 .. MsgLen - 1 /\ o.watching \subseteq {"read", "write"}
        /\ o.m_socket \in Fds /\ o.m_read_list \subseteq Fds /\ o.m_write_list \subseteq Fds
    BY DEF SafetyInv, TypeInv, Observer
  <2>3. o.timer \in BOOLEAN
    BY Zenon DEF SafetyInv, TypeInv, Observer
  <2> QED BY <2>1, <2>2, <2>3, Zenon DEF NetworkTypeOK, Flags
<1>2. PendingIsWatched
  BY DEF SafetyInv, WatchedInv, PendingIsWatched
<1>3. OneAnswerPerCall
  <2>1. CASE loop = "running"
    BY <2>1, AwaitedTasks DEF SafetyInv, TypeInv
  <2> QED BY <2>1 DEF OneAnswerPerCall
<1>4. NoDangling
  <2>1. CASE pc = "gone"
    BY <2>1 DEF SafetyInv, RegisteredInv, NoDangling, DroppedByReload
  <2>2. CASE pc = "discarded"
    BY <2>2 DEF TimerInv, Unregistered, NoDangling, DroppedByReload
  <2> QED BY <2>1, <2>2 DEF NoDangling, Exists
<1> QED BY <1>1, <1>2, <1>3, <1>4 DEF NetworkInv

LEMMA SafetyStep == SafetyInv /\ [Next]_vars => SafetyInv'
<1>1. RegisteredInv => ClosingWaits
  BY DEF RegisteredInv
<1> QED BY <1>1, TypeStep, PipesStep, RegisteredStep, WatchedStep DEF SafetyInv

(* Between any two steps of the application's and of the event thread,     *)
(* pending data are watched, a waiting call has one task or answer, and    *)
(* nothing points to an output whose destructor has returned, unless a     *)
(* reload deleted it with data to write.                                   *)
THEOREM NetworkSafe == Spec => []NetworkInv
<1> DEFINE Inv == SafetyInv /\ TimerInv /\ Flags
<1>1. Init => Inv
  BY TypeInit, PipesInit, RegisteredInit, WatchedInit, TimerInit, FlagsInit DEF SafetyInv
<1>2. Inv /\ [Next]_vars => Inv'
  BY SafetyStep, TimerStep, FlagsStep DEF SafetyInv
<1> QED BY <1>1, <1>2, SafetyImplies, PTL DEF Spec


-----------------------------------------------------------------------------
(* The stream of bytes.                                                    *)

LEMMA WireTyped ==
  ASSUME StreamInv, accepted \in Nat
  PROVE  /\ wire \in Seq(Nat) /\ Len(wire) \in Nat
         /\ \A b \in 1 .. Len(wire) : wire[b] = b
<1>1. accepted * MsgLen \in Nat
  BY Multiples
<1>2. Len(wire) \in Nat
  BY <1>1 DEF StreamInv
<1>3. wire = [b \in 1 .. Len(wire) |-> b]
  BY DEF StreamInv
<1>4. [b \in 1 .. Len(wire) |-> b] \in Seq(Nat)
  BY <1>2
<1> QED BY <1>2, <1>3, <1>4

(* ::write is given the bytes that follow those sent.                      *)
LEMMA NextBytes ==
  ASSUME NEW x \in Observer, NEW a \in Nat, NEW w \in Nat, Holds(x, a, w)
  PROVE  /\ w + Pending(x) = a * MsgLen
         /\ x.buffers # <<>> => NextByte(x) = w + 1
<1>1. x.buf_pos \in Nat /\ Len(x.buffers) \in Nat /\ MsgLen \in Nat
      /\ x.buffers \in Seq(1 .. MaxMessages)
  BY MsgLenAssumption DEF Observer
<1>2. a - Len(x.buffers) \in Nat
  BY <1>1 DEF Holds, LastOf
<1>3. /\ (a - Len(x.buffers)) * MsgLen \in Nat /\ Len(x.buffers) * MsgLen \in Nat
      /\ (a - Len(x.buffers) + Len(x.buffers)) * MsgLen =
           (a - Len(x.buffers)) * MsgLen + Len(x.buffers) * MsgLen
  BY <1>1, <1>2, Multiples
<1>4. a - Len(x.buffers) + Len(x.buffers) = a
  BY <1>1, <1>2
<1>5. w = (a - Len(x.buffers)) * MsgLen + x.buf_pos
  BY DEF Holds
<1>6. w + Pending(x) = a * MsgLen
  BY <1>1, <1>3, <1>4, <1>5 DEF Pending
<1>7. ASSUME x.buffers # <<>> PROVE NextByte(x) = w + 1
  <2>1. Head(x.buffers) = x.buffers[1] /\ 1 \in 1 .. Len(x.buffers)
    BY <1>1, <1>7
  <2>2. \A i \in 1 .. Len(x.buffers) : x.buffers[i] = a - Len(x.buffers) + i
    BY DEF Holds, LastOf
  <2>3. Head(x.buffers) = a - Len(x.buffers) + 1
    BY <2>1, <2>2
  <2>4. Head(x.buffers) - 1 = a - Len(x.buffers)
    <3>1. \A d \in Nat : (d + 1) - 1 = d
      OBVIOUS
    <3> QED BY <1>2, <2>3, <3>1, Zenon
  <2>5. NextByte(x) = (a - Len(x.buffers)) * MsgLen + x.buf_pos + 1
    BY <2>4 DEF NextByte
  <2> QED BY <1>5, <2>5
<1> QED BY <1>6, <1>7

(* What is left after n bytes more.                                        *)
LEMMA HoldsTheRest ==
  ASSUME NEW x \in Observer, NEW n \in 1 .. Pending(x), NEW a \in Nat, NEW w \in Nat,
         Holds(x, a, w)
  PROVE  Holds(Consumed(x, n), a, w + n)
<1> DEFINE y == Consumed(x, n)
           k == (x.buf_pos + n) \div MsgLen
           L == Len(x.buffers)
<1>1. /\ k \in Nat /\ k <= L /\ Len(y.buffers) = L - k
      /\ \A i \in 1 .. Len(y.buffers) : y.buffers[i] = x.buffers[i + k]
      /\ y.buf_pos \in 0 .. MsgLen - 1
      /\ x.buf_pos + n = k * MsgLen + y.buf_pos
      /\ y.buffers = <<>> => y.buf_pos = 0
  BY ConsumedProperties
<1>2. x.buf_pos \in Nat /\ L \in Nat /\ MsgLen \in Nat /\ L <= a
      /\ w = (a - L) * MsgLen + x.buf_pos
      /\ \A i \in 1 .. L : x.buffers[i] = a - L + i
  BY MsgLenAssumption DEF Observer, Holds, LastOf
<1>3. n \in Nat
  OBVIOUS
<1> HIDE DEF y, k, L
<1>4. a - L \in Nat /\ a - (L - k) = (a - L) + k /\ y.buf_pos \in Nat
  BY <1>1, <1>2
<1>5. /\ (a - L) * MsgLen \in Nat /\ k * MsgLen \in Nat
      /\ ((a - L) + k) * MsgLen = (a - L) * MsgLen + k * MsgLen
  BY <1>1, <1>2, <1>4, Multiples
<1>6. Len(y.buffers) <= a /\ a - Len(y.buffers) = (a - L) + k
  BY <1>1, <1>2, <1>4
<1>7. w + n = (a - Len(y.buffers)) * MsgLen + y.buf_pos
  <2> DEFINE sent == (a - L) * MsgLen
             more == k * MsgLen
  <2>1. (a - Len(y.buffers)) * MsgLen = sent + more
    BY <1>5, <1>6
  <2>2. sent \in Nat /\ more \in Nat /\ x.buf_pos \in Nat /\ y.buf_pos \in Nat
    BY <1>2, <1>4, <1>5
  <2>3. x.buf_pos + n = more + y.buf_pos
    BY <1>1
  <2>4. w = sent + x.buf_pos
    BY <1>2
  <2> HIDE DEF sent, more
  <2>5. w + n = sent + more + y.buf_pos
    BY <1>3, <2>2, <2>3, <2>4
  <2> QED BY <2>1, <2>5
<1>8. ASSUME NEW i \in 1 .. Len(y.buffers) PROVE y.buffers[i] = a - Len(y.buffers) + i
  <2>1. i + k \in 1 .. L
    BY <1>1, <1>2
  <2>2. y.buffers[i] = a - L + (i + k)
    BY <1>1, <1>2, <2>1
  <2> QED BY <1>1, <1>2, <1>6, <2>2
<1>9. LastOf(y.buffers, a)
  BY <1>6, <1>8 DEF LastOf
<1> QED BY <1>1, <1>7, <1>9 DEF Holds, y

LEMMA OneMore ==
  ASSUME NEW L \in Nat, NEW a \in Nat
  PROVE  /\ \A i \in 1 .. L + 1 : i \in 1 .. L \/ i = L + 1
         /\ L <= a => (a + 1) - (L + 1) = a - L /\ L + 1 <= a + 1 /\ a - L + (L + 1) = a + 1
OBVIOUS

LEMMA LastOfOneMore ==
  ASSUME NEW b, NEW c, NEW a \in Nat, Len(b) \in Nat, Len(c) = Len(b) + 1,
         \A i \in 1 .. Len(b) : c[i] = b[i], c[Len(b) + 1] = a + 1, LastOf(b, a)
  PROVE  LastOf(c, a + 1) /\ (a + 1) - Len(c) = a - Len(b)
<1> DEFINE L == Len(b)
<1>1. L \in Nat /\ L <= a
  BY Zenon DEF LastOf
<1>2. \A i \in 1 .. L : b[i] = a - L + i
  BY Zenon DEF LastOf
<1>3. (a + 1) - (L + 1) = a - L /\ L + 1 <= a + 1 /\ a - L + (L + 1) = a + 1
  BY <1>1, OneMore, Zenon
<1>4. ASSUME NEW i \in 1 .. L + 1 PROVE c[i] = (a + 1) - (L + 1) + i
  <2>1. CASE i \in 1 .. L
    BY <1>2, <1>3, <2>1, Zenon
  <2>2. CASE i = L + 1
    BY <1>3, <2>2, Zenon
  <2> QED BY <1>1, <2>1, <2>2, OneMore, Zenon
<1>5. Len(c) <= a + 1 /\ \A i \in 1 .. Len(c) : c[i] = (a + 1) - Len(c) + i
  BY <1>3, <1>4, Zenon
<1>6. LastOf(c, a + 1)
  BY <1>5, Zenon DEF LastOf
<1> QED BY <1>3, <1>6, Zenon

(* One more message.                                                       *)
LEMMA HoldsOneMore ==
  ASSUME NEW x, NEW y, NEW a \in Nat, NEW w, NEW S, x.buffers \in Seq(S), a + 1 \in S,
         y.buffers = Append(x.buffers, a + 1), y.buf_pos = x.buf_pos, Holds(x, a, w)
  PROVE  Holds(y, a + 1, w)
<1> DEFINE b == x.buffers
           c == y.buffers
<1>1. b \in Seq(S) /\ c = Append(b, a + 1)
  OBVIOUS
<1> HIDE DEF b, c
<1>2. /\ Len(b) \in Nat /\ Len(c) = Len(b) + 1 /\ c # <<>>
      /\ (\A i \in 1 .. Len(b) : c[i] = b[i]) /\ c[Len(b) + 1] = a + 1
  BY <1>1
<1>3. LastOf(b, a) /\ w = (a - Len(b)) * MsgLen + y.buf_pos
  BY DEF Holds, b
<1>4. LastOf(c, a + 1) /\ (a + 1) - Len(c) = a - Len(b)
  BY <1>2, <1>3, LastOfOneMore
<1>5. w = ((a + 1) - Len(c)) * MsgLen + y.buf_pos
  BY <1>3, <1>4, Zenon
<1> QED BY <1>2, <1>4, <1>5, Zenon DEF Holds, c


LEMMA HoldsNothing ==
  ASSUME NEW x, NEW a \in Nat, NEW w, Holds(x, a, w), x.buffers = <<>>
  PROVE  w = a * MsgLen
<1>1. w = (a - 0) * MsgLen + 0
  BY DEF Holds
<1>2. a - 0 = a /\ a * MsgLen \in Nat
  BY Multiples
<1> QED BY <1>1, <1>2

LEMMA HoldsSame ==
  ASSUME NEW x, NEW y, NEW a, NEW w, Holds(x, a, w), y.buffers = x.buffers, y.buf_pos = x.buf_pos
  PROVE  Holds(y, a, w)
BY Zenon DEF Holds

(* What the end of a write leaves of an object with nothing to write.      *)
LEMMA DrainedKeeps ==
  ASSUME NEW x \in Observer, Drained(x), x.buffers = <<>>
  PROVE  /\ o'.m_socket = "fd" =>
              x.m_socket = "fd" /\ o'.buffers = x.buffers /\ o'.buf_pos = x.buf_pos
         /\ o'.m_socket = "none" /\ x.m_socket = "fd" => o'.state = "NotConnected"
<1>0. {"write"} \in SUBSET {"read", "write"}
  OBVIOUS
<1>1. RemoveObserver(x, {"write"}) \in Observer
  BY <1>0, ObserverTyped, Zenon
<1>2. LET r == RemoveObserver(x, {"write"})
      IN  r.buffers = x.buffers /\ r.buf_pos = x.buf_pos /\ r.m_socket = x.m_socket
  BY <1>0, RemoveProperties
<1>3. LET e == EndClosing(RemoveObserver(x, {"write"}), TRUE)
      IN  e.m_socket = "none" /\ e.state = "NotConnected"
  BY <1>1, EndClosingProperties DEF Ended
<1> QED BY <1>2, <1>3 DEF Drained

(* The bytes that HandleWrite hands over are the next ones.                *)
LEMMA NextBytesSent ==
  ASSUME TypeInv, RegisteredInv, StreamInv, HandleWrite
  PROVE  \E n \in 1 .. Pending(o) :
           /\ wire' = [b \in 1 .. Len(wire) + n |-> b] /\ Len(wire') = Len(wire) + n
           /\ Len(wire) + n <= accepted * MsgLen
           /\ IF n = Pending(o) THEN Drained(Consumed(NowConnected(o), n))
                                ELSE o' = Consumed(NowConnected(o), n)
<1>1. /\ "fd" \in o.m_write_list /\ ~Stale(o) /\ o.buffers # <<>>
      /\ \E n \in 1 .. Pending(o) :
           /\ wire' = wire \o [i \in 1 .. n |-> NextByte(o) + i - 1]
           /\ IF n = Pending(o) THEN Drained(Consumed(NowConnected(o), n))
                                ELSE o' = Consumed(NowConnected(o), n)
  BY DEF HandleWrite, FdsReady, Writable
<1>2. PICK n \in 1 .. Pending(o) :
        /\ wire' = wire \o [i \in 1 .. n |-> NextByte(o) + i - 1]
        /\ IF n = Pending(o) THEN Drained(Consumed(NowConnected(o), n))
                             ELSE o' = Consumed(NowConnected(o), n)
  BY <1>1
<1>3. accepted \in Nat /\ o \in Observer /\ o.m_socket = "fd"
  BY <1>1, BoundsAssumption DEF TypeInv, Observer, Fds, Stale
<1>4. /\ wire \in Seq(Nat) /\ Len(wire) \in Nat /\ \A b \in 1 .. Len(wire) : wire[b] = b
  BY <1>3, WireTyped
<1>5. Holds(o, accepted, Len(wire))
  BY <1>3 DEF StreamInv
<1>6. Len(wire) + Pending(o) = accepted * MsgLen /\ NextByte(o) = Len(wire) + 1
  BY <1>1, <1>3, <1>4, <1>5, NextBytes
<1>7. Pending(o) \in Int /\ n \in Nat
  BY <1>3, MsgLenAssumption DEF Pending, Observer
<1>8. Len(wire) + n <= accepted * MsgLen
  BY <1>4, <1>6, <1>7
<1> DEFINE w == Len(wire)
           sent == [i \in 1 .. n |-> (w + 1) + i - 1]
<1>9. sent \in Seq(Nat) /\ Len(sent) = n /\ \A i \in 1 .. n : sent[i] = (w + 1) + i - 1
  BY <1>4, <1>7
<1>10. wire' = wire \o sent
  BY <1>2, <1>6
<1> HIDE DEF sent
<1>11. /\ wire' \in Seq(Nat) /\ Len(wire') = w + n
       /\ \A b \in 1 .. w + n : wire'[b] = IF b <= w THEN wire[b] ELSE sent[b - w]
  BY <1>4, <1>9, <1>10, ConcatProperties
<1> HIDE DEF w
<1>12. ASSUME NEW b \in 1 .. w + n PROVE wire'[b] = b
  <2>1. w \in Nat /\ b \in Nat
    BY <1>4, <1>7 DEF w
  <2>2. CASE b <= w
    <3>1. b \in 1 .. Len(wire)
      BY <2>1, <2>2 DEF w
    <3>2. wire'[b] = wire[b]
      BY <1>11, <2>2
    <3> QED BY <1>4, <3>1, <3>2
  <2>3. CASE w < b
    <3>1. b - w \in 1 .. n
      BY <1>7, <2>1, <2>3
    <3>2. wire'[b] = sent[b - w]
      BY <1>11, <2>1, <2>3
    <3>3. sent[b - w] = (w + 1) + (b - w) - 1
      BY <1>9, <3>1
    <3>4. (w + 1) + (b - w) - 1 = b
      BY <2>1
    <3> QED BY <3>2, <3>3, <3>4
  <2> QED BY <2>1, <2>2, <2>3
<1>13. wire' = [b \in 1 .. w + n |-> b]
  <2> DEFINE all == [b \in 1 .. w + n |-> b]
  <2>1. w + n \in Nat
    BY <1>4, <1>7 DEF w
  <2>2. all \in Seq(Nat) /\ Len(all) = w + n /\ \A b \in 1 .. w + n : all[b] = b
    BY <2>1
  <2> HIDE DEF all
  <2>3. wire' = all
    BY <1>11, <1>12, <2>2, SeqEqual
  <2> QED BY <2>3 DEF all
<1> QED BY <1>2, <1>8, <1>11, <1>13 DEF w


LEMMA StreamInitially == Init => StreamInv
<1> SUFFICES ASSUME Init PROVE StreamInv
  OBVIOUS
<1>1. 0 * MsgLen = 0
  BY MsgLenAssumption
<1> QED BY <1>1 DEF Init, StreamInv, NewObserver

LEMMA StreamStep == SafetyInv /\ StreamInv /\ [Next]_vars => StreamInv'
<1> SUFFICES ASSUME SafetyInv, StreamInv, [Next]_vars PROVE StreamInv'
  OBVIOUS
<1>t. /\ TypeInv /\ PipesInv /\ RegisteredInv /\ WatchedInv
      /\ o \in Observer /\ o' \in Observer /\ accepted \in Nat
      /\ o.m_socket \in {"fd", "none"} /\ o'.m_socket \in {"fd", "none"}
  BY SafetyStep, BoundsAssumption DEF SafetyInv, TypeInv, Observer, Fds
(* Nothing is written; a socket is closed when nothing is left to write,   *)
(* or when the connection is broken or the time over.                      *)
<1>1. ASSUME UNCHANGED <<wire, accepted>>, pc' = "start" => pc = "start",
             o'.m_socket = "fd" =>
               o.m_socket = "fd" /\ o'.buffers = o.buffers /\ o'.buf_pos = o.buf_pos,
             o'.m_socket = "none" /\ link' # "broken" /\ ~gaveUp' /\ pc' # "discarded" =>
               /\ link # "broken" /\ ~gaveUp /\ pc # "discarded"
               /\ o'.state \notin {"Connecting", "Connected"}
               /\ o.m_socket = "none" \/ o.buffers = <<>>
      PROVE  StreamInv'
  <2>1. o'.m_socket = "fd" => Holds(o', accepted, Len(wire))
    BY <1>1, HoldsSame DEF StreamInv
  <2>2. o'.m_socket = "none" /\ link' # "broken" /\ ~gaveUp' /\ pc' # "discarded" =>
          Len(wire) = accepted * MsgLen
    BY <1>t, <1>1, HoldsNothing DEF StreamInv
  <2> QED BY <1>1, <2>1, <2>2 DEF StreamInv
<1>2. CASE Open
  <2>1. /\ pc = "start" /\ pc' = "connecting" /\ UNCHANGED <<wire, accepted>>
        /\ o' = [NewObserver EXCEPT !.state = "Error", !.m_socket = "fd",
                                    !.watching = {"read", "write"}]
    BY <1>2, <1>t DEF Open, RegisteredInv
  <2>2. o'.buffers = <<>> /\ o'.buf_pos = 0 /\ o'.m_socket = "fd"
    BY <2>1 DEF NewObserver
  <2>3. accepted = 0 /\ Len(wire) = 0
    BY <2>1 DEF StreamInv
  <2>4. Holds(o', 0, 0)
    <3>1. 0 = (0 - 0) * MsgLen + 0
      BY MsgLenAssumption
    <3> QED BY <2>2, <3>1 DEF Holds, LastOf
  <2> QED BY <2>1, <2>2, <2>3, <2>4 DEF StreamInv
<1>3. CASE OpenReturns
  <2>1. /\ UNCHANGED <<wire, accepted, link, gaveUp>> /\ pc = "connecting" /\ pc' = "ready"
        /\ o'.m_socket = o.m_socket /\ o'.buffers = o.buffers /\ o'.buf_pos = o.buf_pos
    BY <1>3, <1>t DEF OpenReturns, Observer
  <2>2. o.m_socket = "none" => link = "broken"
    BY <1>t, <2>1 DEF RegisteredInv
  <2> QED BY <1>1, <2>1, <2>2
<1>4. CASE OpenFails
  <2>1. /\ UNCHANGED <<wire, accepted>> /\ pc' = "ready" /\ link' = "broken"
        /\ o'.m_socket = o.m_socket /\ o'.buffers = o.buffers /\ o'.buf_pos = o.buf_pos
    BY <1>4, <1>t DEF OpenFails, Observer
  <2> QED BY <1>1, <2>1
<1>5. ASSUME UNCHANGED <<o, wire, accepted, gaveUp>>, pc' = "start" => pc = "start",
             link' # "broken" => link # "broken", pc' # "discarded" => pc # "discarded"
      PROVE  StreamInv'
  BY <1>5, <1>t DEF StreamInv
<1>6. CASE Write \/ WriteReturns \/ Close \/ Delete
  BY <1>5, <1>6 DEF Write, WriteReturns, Close, Delete, EventThread
<1>7. CASE CloseReturns
  <2>1. /\ UNCHANGED <<wire, accepted, link, gaveUp>> /\ o' = Clear(o)
        /\ pc \in {"closing", "deleting"} /\ pc' \in {"closed", "gone"} /\ confirm # <<>>
    BY <1>7 DEF CloseReturns
  <2>2. o.buffers = <<>>
    BY <1>t, <2>1 DEF RegisteredInv
  <2>3. /\ o'.m_socket = "none"
        /\ o'.state = IF o.m_socket = "none" THEN o.state ELSE "NotConnected"
    BY <1>t, <2>1, ClearProperties
  <2>4. o.m_socket = "none" /\ link # "broken" /\ ~gaveUp =>
          o.state \notin {"Connecting", "Connected"}
    BY <2>1 DEF StreamInv
  <2>5. link' # "broken" /\ ~gaveUp' => o'.state \notin {"Connecting", "Connected"}
    BY <2>1, <2>3, <2>4
  <2>6. link' # "broken" => link # "broken"
    BY <2>1
  <2>7. ~gaveUp' => ~gaveUp
    BY <2>1
  <2> QED BY <1>1, <2>1, <2>2, <2>3, <2>5, <2>6, <2>7
<1>8. CASE Renew
  <2>1. /\ wire' = <<>> /\ accepted' = 0 /\ o' = NewObserver
    BY <1>8 DEF Renew
  <2>2. 0 * MsgLen = 0
    BY MsgLenAssumption
  <2> QED BY <2>1, <2>2 DEF StreamInv, NewObserver
<1>9. CASE HandleError
  <2>1. /\ UNCHANGED <<wire, accepted, link, gaveUp, pc>> /\ o.m_socket = "none"
        /\ o.state = "Error"
    BY <1>9, <1>t DEF HandleError, Environment, Stale, RegisteredInv
  <2> DEFINE x == IF "fd" \in o.m_read_list
                    THEN [o EXCEPT !.m_read_list = @ \ {"fd"}]
                    ELSE [o EXCEPT !.m_write_list = @ \ {"fd"}]
  <2>2. x \in Observer /\ x.state = "Error"
    BY <1>t, <2>1 DEF Observer
  <2>3. o' = [Clear(x) EXCEPT !.state = "Error", !.watching = {}]
    BY <1>9, <2>2 DEF HandleError, Failed
  <2> HIDE DEF x
  <2>4. Clear(x) \in Observer /\ Clear(x).m_socket = "none"
    BY <2>2, ObserverTyped, ClearProperties, Zenon
  <2>5. o'.m_socket = "none" /\ o'.state = "Error"
    BY <2>3, <2>4 DEF Observer
  <2> QED BY <1>1, <2>1, <2>5
<1>10. ASSUME UNCHANGED <<wire, accepted, link, gaveUp>>, pc' = "start" => pc = "start",
              pc' # "discarded" => pc # "discarded",
              ~Stale(o), o.buffers = <<>>,
              o' = EndClosing(o, TRUE) \/ o' = EndClosing(o, FALSE)
       PROVE  StreamInv'
  <2>1. o'.m_socket = "none" /\ o'.state = "NotConnected"
    BY <1>10, <1>t, EndClosingProperties DEF Ended
  <2> QED BY <1>1, <1>10, <2>1
<1>11. ASSUME UNCHANGED <<wire, accepted, link, gaveUp>>, pc' = "start" => pc = "start",
              pc' # "discarded" => pc # "discarded",
              \/ o' = [o EXCEPT !.state = "Closing", !.timer = TRUE]
              \/ o' = [o EXCEPT !.timer = FALSE]
       PROVE  StreamInv'
  <2>1. /\ o'.m_socket = o.m_socket /\ o'.buffers = o.buffers /\ o'.buf_pos = o.buf_pos
        /\ o'.state = o.state \/ o'.state = "Closing"
    BY <1>11, <1>t DEF Observer
  <2>2. o.m_socket = "none" /\ link # "broken" /\ ~gaveUp /\ pc # "discarded" =>
          o.state \notin {"Connecting", "Connected"}
    BY DEF StreamInv
  <2> QED BY <1>1, <1>11, <2>1, <2>2
<1>12. CASE HandleTimeout
  <2>1. CASE o.state = "Closing"
    <3>1. /\ UNCHANGED <<wire, accepted, pc>> /\ gaveUp' = TRUE /\ o' = EndClosing(o, TRUE)
      BY <1>12, <2>1 DEF HandleTimeout
    <3>2. o'.m_socket = "none"
      BY <1>t, <3>1, EndClosingProperties DEF Ended
    <3> QED BY <1>1, <3>1, <3>2
  <2>2. CASE o.state # "Closing"
    BY <1>11, <1>12, <2>2 DEF HandleTimeout, Environment
  <2> QED BY <2>1, <2>2
<1>13. CASE ExecuteAdd
  <2>1. /\ UNCHANGED <<wire, accepted, pc, link, gaveUp>> /\ o' = AddObserver(o, {"read", "write"})
    BY <1>13 DEF ExecuteAdd, Executes, Environment
  <2>2. /\ o'.m_socket = o.m_socket /\ o'.buffers = o.buffers /\ o'.buf_pos = o.buf_pos
        /\ o'.state = o.state
    BY <1>t, <2>1, AddProperties, {"read", "write"} \in SUBSET {"read", "write"}
  <2>3. o.m_socket = "none" /\ link # "broken" /\ ~gaveUp /\ pc # "discarded" =>
          o.state \notin {"Connecting", "Connected"}
    BY DEF StreamInv
  <2> QED BY <1>1, <2>1, <2>2, <2>3
<1>14. CASE ExecuteWrite
  <2>1. /\ Head(command) = CallTask /\ pc = "writing" /\ accepted + 1 \in 1 .. MaxMessages
    BY <1>14, <1>t, NextTask, BoundsAssumption
    DEF ExecuteWrite, Executes, AddTask, CallTask, TypeInv
  <2>2. Head(command).message = accepted + 1
    BY <2>1 DEF CallTask
  <2>3. /\ UNCHANGED <<wire, pc, link, gaveUp>>
        /\ IF o.state \in {"Connecting", "Connected"}
             THEN o' = Buffered(o, accepted + 1) /\ accepted' = accepted + 1
             ELSE UNCHANGED <<o, accepted>>
    BY <1>14, <2>2 DEF ExecuteWrite, Executes, Environment
  <2>4. CASE o.state \in {"Connecting", "Connected"}
    <3>1. /\ o'.m_socket = o.m_socket /\ o'.buffers = Append(o.buffers, accepted + 1)
          /\ o'.buf_pos = IF "write" \in o.watching THEN o.buf_pos ELSE 0
      BY <1>t, <2>1, <2>3, <2>4, BufferedProperties
    <3>2. o.m_socket = "fd" => o'.buf_pos = o.buf_pos
      <4>1. o.m_socket = "fd" /\ "write" \notin o.watching => o.buffers = <<>>
        BY <1>t DEF RegisteredInv, Registrations, WatchedInv
      <4>2. o.m_socket = "fd" /\ "write" \notin o.watching => o.buf_pos = 0
        BY <4>1 DEF StreamInv, Holds
      <4> QED BY <3>1, <4>2
    <3>3. o.m_socket = "fd" => Holds(o', accepted + 1, Len(wire))
      <4>1. o.m_socket = "fd" => Holds(o, accepted, Len(wire))
        BY DEF StreamInv
      <4>2. o.buffers \in Seq(1 .. MaxMessages)
        BY <1>t DEF Observer
      <4> QED BY <1>t, <2>1, <3>1, <3>2, <4>1, <4>2, HoldsOneMore
    <3>4. o.m_socket = "none" => link = "broken" \/ gaveUp
      BY <2>1, <2>4 DEF StreamInv
    <3>5. Len(wire) \in 0 .. (accepted + 1) * MsgLen
      <4>1. /\ accepted * MsgLen \in Nat /\ (accepted + 1) * MsgLen \in Nat
            /\ accepted * MsgLen <= (accepted + 1) * MsgLen
        BY <1>t, Multiples
      <4>2. Len(wire) \in 0 .. accepted * MsgLen
        BY DEF StreamInv
      <4> DEFINE p == accepted * MsgLen
                 q == (accepted + 1) * MsgLen
      <4> HIDE DEF p, q
      <4>3. p \in Nat /\ q \in Nat /\ p <= q /\ Len(wire) \in 0 .. p
        BY <4>1, <4>2 DEF p, q
      <4>4. Len(wire) \in 0 .. q
        BY <4>3
      <4> QED BY <4>4 DEF q
    <3>6. accepted' = accepted + 1
      BY <2>3, <2>4
    <3> QED BY <1>t, <2>1, <2>3, <3>1, <3>3, <3>4, <3>5, <3>6 DEF StreamInv
  <2>5. CASE o.state \notin {"Connecting", "Connected"}
    BY <1>5, <2>3, <2>5
  <2> QED BY <2>4, <2>5
<1>15. CASE ExecuteClose
  <2>1. /\ UNCHANGED <<wire, accepted, pc, link, gaveUp>> /\ ~Stale(o)
        /\ IF o.buffers # <<>> THEN o' = [o EXCEPT !.state = "Closing", !.timer = TRUE]
                               ELSE o' = EndClosing(o, TRUE)
    BY <1>15 DEF ExecuteClose, Executes, Environment
  <2> QED BY <1>10, <1>11, <2>1
<1>16. CASE EventThreadDelete
  <2>1. /\ UNCHANGED <<wire, accepted, link, gaveUp>> /\ ~Stale(o) /\ pc' = "discarded"
        /\ IF o.buffers # <<>> THEN o' = [o EXCEPT !.state = "Closing", !.timer = TRUE]
                               ELSE o' = EndClosing(o, FALSE)
    BY <1>16 DEF EventThreadDelete, Environment
  <2> QED BY <1>10, <1>11, <2>1
<1>17. CASE HandleRead
  <2>1. /\ UNCHANGED <<wire, accepted, pc, link, gaveUp>> /\ link = "broken"
        /\ ~Stale(o) /\ Registrations(o) /\ o' = ConnectFailed(o)
    BY <1>17, <1>t DEF HandleRead, FdsReady, Environment, Readable, RegisteredInv
  <2>2. o'.m_socket = "none"
    BY <1>t, <2>1, ConnectFailedProperties
  <2> QED BY <1>1, <2>1, <2>2
<1>18. CASE HandleWriteIdle
  <2>1. /\ UNCHANGED <<wire, accepted, pc, link, gaveUp>> /\ "fd" \in o.m_write_list
        /\ ~Stale(o) /\ o.buffers = <<>> /\ Drained(NowConnected(o))
    BY <1>18 DEF HandleWriteIdle, FdsReady, Environment, Writable
  <2>2. o.m_socket = "fd"
    BY <1>t, <2>1 DEF Stale
  <2>3. /\ NowConnected(o) \in Observer /\ NowConnected(o).buffers = <<>>
        /\ NowConnected(o).buf_pos = o.buf_pos /\ NowConnected(o).m_socket = o.m_socket
    BY <1>t, <2>1, HandlersTyped, NowConnectedKeeps
  <2>4. /\ o'.m_socket = "fd" => o'.buffers = o.buffers /\ o'.buf_pos = o.buf_pos
        /\ o'.m_socket = "none" => o'.state = "NotConnected"
    BY <2>1, <2>2, <2>3, DrainedKeeps
  <2> QED BY <1>1, <2>1, <2>2, <2>4
<1>19. CASE HandleWrite
  <2>1. PICK n \in 1 .. Pending(o) :
          /\ wire' = [b \in 1 .. Len(wire) + n |-> b] /\ Len(wire') = Len(wire) + n
          /\ Len(wire) + n <= accepted * MsgLen
          /\ IF n = Pending(o) THEN Drained(Consumed(NowConnected(o), n))
                               ELSE o' = Consumed(NowConnected(o), n)
    BY <1>19, <1>t, NextBytesSent
  <2>2. /\ UNCHANGED <<accepted, pc, link, gaveUp>> /\ "fd" \in o.m_write_list /\ ~Stale(o)
        /\ o.buffers # <<>>
    BY <1>19 DEF HandleWrite, FdsReady, Environment, Writable
  <2>3. o.m_socket = "fd" /\ pc # "start"
    BY <1>t, <2>2 DEF Stale, RegisteredInv, NewObserver
  <2>4. /\ NowConnected(o) \in Observer /\ Pending(NowConnected(o)) = Pending(o)
        /\ NowConnected(o).m_socket = o.m_socket
        /\ NowConnected(o).buffers = o.buffers /\ NowConnected(o).buf_pos = o.buf_pos
    BY <1>t, HandlersTyped, NowConnectedKeeps DEF Pending
  <2>5. Holds(NowConnected(o), accepted, Len(wire)) /\ Len(wire) \in Nat
    BY <1>t, <2>3, <2>4, HoldsSame, WireTyped DEF StreamInv
  <2> DEFINE y == Consumed(NowConnected(o), n)
  <2>6. /\ y \in Observer /\ y.m_socket = "fd" /\ (n = Pending(o) <=> y.buffers = <<>>)
        /\ Holds(y, accepted, Len(wire) + n)
    BY <1>t, <2>3, <2>4, <2>5, ConsumedTyped, ConsumedProperties, HoldsTheRest
  <2>7. IF n = Pending(o) THEN Drained(y) ELSE o' = y
    BY <2>1
  <2> HIDE DEF y
  <2>8. o'.m_socket = "fd" => o'.buffers = y.buffers /\ o'.buf_pos = y.buf_pos
    BY <2>6, <2>7, DrainedKeeps
  <2>9. o'.m_socket = "none" => o'.state = "NotConnected" /\ y.buffers = <<>>
    BY <2>6, <2>7, DrainedKeeps
  <2>10. o'.m_socket = "fd" => Holds(o', accepted, Len(wire'))
    BY <2>1, <2>6, <2>8, HoldsSame
  <2>11. o'.m_socket = "none" => Len(wire') = accepted * MsgLen
    BY <1>t, <2>1, <2>6, <2>9, HoldsNothing
  <2>12. Len(wire') \in 0 .. accepted * MsgLen
    <3>1. accepted * MsgLen \in Nat /\ Len(wire) + n \in Nat
      BY <1>t, <2>5, Multiples
    <3> QED BY <2>1, <3>1
  <2>13. wire' = [b \in 1 .. Len(wire') |-> b]
    BY <2>1
  <2> QED BY <2>2, <2>3, <2>9, <2>10, <2>11, <2>12, <2>13 DEF StreamInv
<1>20. CASE HandleWriteError
  <2> DEFINE c == Clear(NowConnected(o))
             e == [c EXCEPT !.state = "Error"]
  <2>1. /\ UNCHANGED <<wire, accepted, pc, link, gaveUp>> /\ link = "broken"
        /\ o' = RemoveObserver(e, {"write"})
    BY <1>20 DEF HandleWriteError, FdsReady, Environment
  <2>2. NowConnected(o) \in Observer
    BY <1>t, HandlersTyped
  <2>3. c \in Observer /\ c.m_socket = "none"
    BY <2>2, ObserverTyped, ClearProperties, Zenon
  <2> HIDE DEF c
  <2>4. e \in Observer /\ e.m_socket = "none"
    BY <2>3 DEF Observer, ObserverStates
  <2> HIDE DEF e
  <2>5. o'.m_socket = "none"
    BY <2>1, <2>4, RemoveProperties, {"write"} \in SUBSET {"read", "write"}
  <2> QED BY <1>1, <2>1, <2>5
<1>21. CASE Established \/ Refused \/ Broken \/ Stall
  BY <1>5, <1>21 DEF Established, Refused, Broken, Stall, LinkOnly
<1>22. CASE UNCHANGED vars
  BY <1>5, <1>22 DEF vars
<1> QED BY <1>2, <1>3, <1>4, <1>6, <1>7, <1>8, <1>9, <1>12, <1>13, <1>14, <1>15,
           <1>16, <1>17, <1>18, <1>19, <1>20, <1>21, <1>22
        DEF Next, EventLoop


-----------------------------------------------------------------------------

(* Closing an output in an application thread loses nothing, unless the    *)
(* connection broke or the ten seconds were over.                          *)
THEOREM NetworkFlushes == Spec => []FlushedOnClose
<1>1. Init => SafetyInv /\ StreamInv
  BY TypeInit, PipesInit, RegisteredInit, WatchedInit, StreamInitially DEF SafetyInv
<1>2. SafetyInv /\ StreamInv /\ [Next]_vars => (SafetyInv /\ StreamInv)'
  BY SafetyStep, StreamStep
<1>3. SafetyInv /\ StreamInv => FlushedOnClose
  BY DEF SafetyInv, RegisteredInv, StreamInv, FlushedOnClose
<1> QED BY <1>1, <1>2, <1>3, PTL DEF Spec

(* The steps that are none of the log stream's.                            *)
LEMMA NotStreamed ==
  ASSUME [Next]_vars, ~HandleWrite, ~ExecuteWrite, ~Renew
  PROVE  UNCHANGED <<accepted, wire>>
BY DEF Next, vars, Open, OpenReturns, OpenFails, Write, WriteReturns, Close, Delete,
       CloseReturns, EventLoop, HandleError, HandleTimeout, ExecuteAdd, ExecuteClose,
       Executes, HandleRead, HandleWriteIdle, HandleWriteError,
       FdsReady, EventThreadDelete, Established, Refused, Broken, Stall, LinkOnly,
       Environment, EventThread

LEMMA StreamSimulated ==
  SafetyInv /\ StreamInv /\ [Next]_vars =>
    [Stream!Accept \/ Stream!Transmit \/ Stream!Renewed]_<<accepted, wire>>
<1> SUFFICES ASSUME SafetyInv, StreamInv, [Next]_vars
             PROVE  Stream!Accept \/ Stream!Transmit \/ Stream!Renewed
                    \/ UNCHANGED <<accepted, wire>>
  OBVIOUS
<1>1. CASE HandleWrite
  <2>1. PICK n \in 1 .. Pending(o) :
          /\ wire' = [b \in 1 .. Len(wire) + n |-> b]
          /\ Len(wire) + n <= accepted * MsgLen
    BY <1>1, NextBytesSent DEF SafetyInv
  <2>2. accepted \in Nat /\ Len(wire) \in Nat
    BY BoundsAssumption, WireTyped DEF SafetyInv, TypeInv
  <2>3. n \in Nat \ {0} /\ accepted * MsgLen \in Nat
    <3>1. n \in Nat \ {0}
      OBVIOUS
    <3>2. accepted * MsgLen \in Nat
      BY <2>2, Multiples
    <3> QED BY <3>1, <3>2
  <2>4. Len(wire) + n \in Len(wire) + 1 .. accepted * MsgLen
    BY <2>1, <2>2, <2>3
  <2>5. UNCHANGED accepted
    BY <1>1 DEF HandleWrite, FdsReady
  <2> QED BY <2>1, <2>4, <2>5 DEF Stream!Transmit
<1>2. CASE ExecuteWrite
  BY <1>2 DEF ExecuteWrite, Executes, Stream!Accept
<1>3. CASE Renew
  BY <1>3 DEF Renew, Stream!Renewed
<1> QED BY <1>1, <1>2, <1>3, NotStreamed

(* What ::write is given is the stream the output promises: the bytes of   *)
(* the accepted messages, in order, each once.                             *)
THEOREM NetworkImplementsLogStream == Spec => ImplementsLogStream
<1>1. Init => SafetyInv /\ StreamInv
  BY TypeInit, PipesInit, RegisteredInit, WatchedInit, StreamInitially DEF SafetyInv
<1>2. SafetyInv /\ StreamInv /\ [Next]_vars => (SafetyInv /\ StreamInv)'
  BY SafetyStep, StreamStep
<1>3. Init => Stream!StreamInit
  BY DEF Init, Stream!StreamInit
<1> QED BY <1>1, <1>2, <1>3, StreamSimulated, PTL DEF Spec, ImplementsLogStream, Stream!StreamSpec
==============================================================================
