----------------------------- MODULE EventThread -----------------------------
(***************************************************************************)
(* The tracing library's event thread (hooklib/eventthread_unix.cpp) with  *)
(* its timers, and the monitor of the configuration file that runs in it   *)
(* (hooklib/filemodificationmonitor_unix.cpp).                             *)
(*                                                                         *)
(* The application creates and deletes observers, one call at a time: the  *)
(* calls come from Trace's constructor and destructor and from under its   *)
(* output mutex.  The event thread runs concurrently, the file changes     *)
(* concurrently with both, and time passes.  NetworkOutput models what one *)
(* particular observer does; here an observer is                           *)
(*   "monitor"  the file monitor, an IO observer of an inotify descriptor  *)
(*              or, without inotify, a timer that polls,                   *)
(*   "net"      any other IO observer,                                     *)
(*   "timer"    a timer that removes itself in its handler.                *)
(* No observer has two timers.  A time of 1 is the shortest that matters.  *)
(***************************************************************************)
EXTENDS Naturals, Sequences, FiniteSets, SequencesExt

CONSTANTS
  HaveInotify,      \* HAVE_INOTIFY_H
  Second,           \* one second, in units of time
  PollTimeout,      \* the 5000 ms of TimerEventObserver
  Timeouts,         \* the timeouts of the "timer" observer
  MaxFirings,       \* bound: after so many events the timer removes itself
  MaxCalls,         \* bound: observers created
  MaxChanges,       \* bound: changes of files in the directory
  Spaced            \* files change only after the last change was looked at

ASSUME SwitchAssumption == /\ HaveInotify \in BOOLEAN /\ Spaced \in BOOLEAN
ASSUME TimeAssumption == /\ Second \in Nat \ {0} /\ PollTimeout \in Nat \ {0}
                         /\ Timeouts \subseteq Nat \ {0}
ASSUME CountAssumption == /\ MaxFirings \in Nat \ {0} /\ MaxCalls \in Nat
                          /\ MaxChanges \in Nat

VARIABLES
  self,             \* m_self, and whether its context exists
  keep_running,
  m_read_list,      \* observers, by the descriptor they watch
  m_timeout_map,    \* armed timers
  loop,             \* where unixEventProc is
  command,          \* command_pipe
  confirm,          \* confirm_pipe
  app,              \* the calling thread
  registered,       \* observers that exist
  served,           \* history: those whose task the event thread was given
  firings,          \* events the "timer" observer has had
  disk,             \* the watched file: 0, or a time of modification
  modification_time,\* TimerEventObserver's
  inotify,          \* the inotify descriptor's queue
  netReady,         \* the other descriptor is readable
  happened,         \* history: changes of the watched file while monitored
  reported,         \* history: notifications
  calls, changes    \* history, for the bounds

vars == <<self, keep_running, m_read_list, m_timeout_map, loop, command,
          confirm, app, registered, served, firings, disk, modification_time,
          inotify, netReady, happened, reported, calls, changes>>

Observers == {"monitor", "net", "timer"}
Reasons == {"FileAppeared", "FileModified", "FileDisappeared"}
Files == {"config", "other"}

Timer(obs, timeout, left) ==
  [observer |-> obs, timeout |-> timeout, left |-> left]
Task(how, op, obs, ms) == [how |-> how, op |-> op, observer |-> obs, ms |-> ms]

Context == <<keep_running, m_read_list, m_timeout_map, loop>>
FileState == <<disk, inotify, happened, changes>>

Init ==
  /\ self = FALSE /\ keep_running = FALSE /\ m_read_list = {}
  /\ m_timeout_map = {} /\ loop = "none"
  /\ command = <<>> /\ confirm = <<>>
  /\ app = "idle" /\ registered = {} /\ served = {} /\ firings = 0
  /\ disk \in {0, 1} /\ modification_time = 0
  /\ inotify = <<>> /\ netReady = FALSE
  /\ happened = <<>> /\ reported = <<>>
  /\ calls = 0 /\ changes = 0

-----------------------------------------------------------------------------
(* Timers.                                                                 *)

\* addToTimeOut: a timeout of seconds is split, and what is kept to arm the
\* timer again is the rest.  Mutant: DropsTimer keeps nothing.
DropsTimer(map, obs, ms) == map \cup {Timer(obs, 0, ms)}
addToTimeOut(map, obs, ms) ==
  map \cup {Timer(obs, IF ms >= Second THEN ms % Second ELSE ms, ms)}

\* Mutant: forgets the timer that has just been armed again.
RemovesDueOnly(map, obs) == {t \in map : t.observer # obs \/ t.left > 0}
removeFromTimeOut(map, obs) == {t \in map : t.observer # obs}

countMonitors(list, map) ==
  Cardinality(list) + Cardinality({t.left : t \in map})

-----------------------------------------------------------------------------
(* The application.  EventThreadUnix::self() creates the thread, and the   *)
(* constructor waits for it to come up; if a pipe or the thread cannot be  *)
(* had, there is no event thread and the tasks are dropped.                *)

Up(ok) ==
  IF self \/ ~ok THEN (self => ok) /\ UNCHANGED <<self, Context>>
  ELSE /\ self' = TRUE /\ keep_running' = TRUE /\ m_read_list' = {}
       /\ m_timeout_map' = {} /\ loop' = "top"

postTask(up, task) == command' = IF up THEN Append(command, task) ELSE command

\* The constructor of an observer.  A monitor looks at the file as it is.
Register(obs) ==
  /\ app = "idle" /\ obs \notin registered /\ calls < MaxCalls
  /\ calls' = calls + 1
  /\ registered' = registered \cup {obs}
  /\ \E ok \in BOOLEAN :
       /\ Up(ok)
       /\ served' = IF ok THEN served \cup {obs} ELSE served
       /\ CASE obs = "timer" ->
                 \E ms \in Timeouts :
                    postTask(ok, Task("post", "addTimer", obs, ms))
            [] obs = "monitor" /\ ~HaveInotify ->
                 postTask(ok, Task("post", "addTimer", obs, PollTimeout))
            [] OTHER -> postTask(ok, Task("post", "addIO", obs, 0))
       /\ IF obs = "monitor"
            THEN /\ modification_time' = disk
                 /\ inotify' = <<>> /\ happened' = <<>> /\ reported' = <<>>
            ELSE UNCHANGED <<modification_time, inotify, happened, reported>>
  /\ firings' = IF obs = "timer" THEN 0 ELSE firings
  /\ UNCHANGED <<confirm, app, disk, netReady, changes>>

\* The destructor.  An IO observer's waits for RemoveIOObserverTask; without
\* an event thread sendTask returns 0 at once and there is nothing to delete.
\* A polling monitor only posts the removal of its timer.  The "timer"
\* observer goes when it has removed itself.
Unregister(obs) ==
  /\ app = "idle" /\ obs \in registered
  /\ obs = "timer" => firings = MaxFirings
  /\ registered' = registered \ {obs} /\ served' = served \ {obs}
  /\ inotify' = IF obs = "monitor" THEN <<>> ELSE inotify
  /\ CASE obs = "timer" -> UNCHANGED <<app, command>>
       [] obs = "monitor" /\ ~HaveInotify ->
            /\ postTask(self, Task("post", "removeTimer", obs, 0))
            /\ UNCHANGED app
       [] OTHER ->
            /\ postTask(self, Task("send", "removeIO", obs, 0))
            /\ app' = IF self THEN "removing" ELSE app
  /\ UNCHANGED <<self, Context, confirm, firings, disk, modification_time,
                 netReady, happened, reported, calls, changes>>

\* checkForLast: the answer is the number of observers left.
\* Mutant: does not look at it.
AlwaysLast(n) == TRUE
isLast(n) == n = 0

RemoveReturns ==
  /\ app = "removing" /\ confirm # <<>>
  /\ confirm' = Tail(confirm)
  /\ IF isLast(Head(confirm))
       THEN /\ app' = "ending"
            /\ command' = Append(command, Task("send", "end", "net", 0))
       ELSE app' = "idle" /\ UNCHANGED command
  /\ UNCHANGED <<self, Context, registered, served, firings, FileState,
                 modification_time, netReady, reported, calls>>

\* stop() returns, the thread is detached, its context deleted and the pipes
\* closed.  That the thread has left its loop by then is an assumption: stop()
\* waits for its answer, and for nothing the thread does after it.
EndReturns ==
  /\ app = "ending" /\ confirm # <<>>
  /\ loop = "none"
  /\ app' = "idle"
  /\ self' = FALSE /\ keep_running' = FALSE /\ m_read_list' = {}
  /\ m_timeout_map' = {} /\ UNCHANGED loop
  /\ command' = <<>> /\ confirm' = <<>>
  /\ UNCHANGED <<registered, served, firings, FileState, modification_time,
                 netReady, reported, calls>>

-----------------------------------------------------------------------------
(* Handlers.                                                               *)

\* UnixFileModificationMonitor::inotify.  Mutant: of any file.
NotifyAny(file, reason) == reported' = Append(reported, reason)
Notify(file, reason) ==
  reported' = IF file = "config" THEN Append(reported, reason) ELSE reported

\* INotifyEventObserver::handleEvent reads what the queue holds and looks at
\* the first event.  Mutant: forgets to notify.
handleInotifyUnheard ==
  /\ inotify' = <<>> /\ UNCHANGED <<reported, modification_time>>
handleInotify ==
  /\ inotify' = <<>>
  /\ LET inev == Head(inotify) IN Notify(inev.file, inev.reason)
  /\ UNCHANGED modification_time

\* TimerEventObserver::handleEvent compares the file with what it was.
pollReason ==
  IF modification_time # 0
    THEN IF disk = 0 THEN {"FileDisappeared"}
         ELSE IF disk > modification_time THEN {"FileModified"} ELSE {}
    ELSE IF disk # 0 THEN {"FileAppeared"} ELSE {}

handlePoll ==
  /\ modification_time' = disk
  /\ reported' = reported \o SetToSeq(pollReason)

-----------------------------------------------------------------------------
(* The event thread.                                                       *)

Due == {t \in m_timeout_map : t.left = 0}

\* handleTimeout: each due timer is taken off, armed again if it has a time
\* left to be armed with, and its observer called, which may remove it.
Rearmed ==
  (m_timeout_map \ Due) \cup
    UNION {addToTimeOut({}, t.observer, t.timeout) : t \in {d \in Due : d.timeout > 0}}

handleTimeout ==
  /\ loop = "top" /\ keep_running /\ loop' = "select"
  /\ LET fires(obs) == \E t \in Due : t.observer = obs
     IN  /\ m_timeout_map' = IF fires("timer") /\ firings + 1 = MaxFirings
                               THEN removeFromTimeOut(Rearmed, "timer") ELSE Rearmed
         /\ firings' = IF fires("timer") THEN firings + 1 ELSE firings
         /\ IF fires("monitor") THEN handlePoll
                                ELSE UNCHANGED <<modification_time, reported>>
  /\ UNCHANGED <<self, keep_running, m_read_list, command, confirm, app,
                 registered, served, FileState, netReady, calls>>

\* The answer to a task.  Mutants: to posted tasks too; not to the last one.
AnswerAll(task, n) == Append(confirm, n)
AnswerUnlessEnd(task, n) ==
  IF task.how = "post" \/ task.op = "end" THEN confirm ELSE Append(confirm, n)
Answer(task, n) == IF task.how = "post" THEN confirm ELSE Append(confirm, n)

\* EventContext::handleEvent: one task of the command pipe.
Exec(task) ==
  /\ CASE task.op = "addIO" -> /\ m_read_list' = m_read_list \cup {task.observer}
                               /\ UNCHANGED <<keep_running, m_timeout_map>>
       [] task.op = "removeIO" -> /\ m_read_list' = m_read_list \ {task.observer}
                                  /\ UNCHANGED <<keep_running, m_timeout_map>>
       [] task.op = "addTimer" ->
            /\ m_timeout_map' = addToTimeOut(m_timeout_map, task.observer, task.ms)
            /\ UNCHANGED <<keep_running, m_read_list>>
       [] task.op = "removeTimer" ->
            /\ m_timeout_map' = removeFromTimeOut(m_timeout_map, task.observer)
            /\ UNCHANGED <<keep_running, m_read_list>>
       [] task.op = "end" -> /\ keep_running' = FALSE
                             /\ UNCHANGED <<m_read_list, m_timeout_map>>
  /\ confirm' = Answer(task, IF task.op = "end" THEN 1
                             ELSE countMonitors(m_read_list', m_timeout_map'))

\* select returned because of the command pipe: the rest has to wait.
selectCommand ==
  /\ loop = "select" /\ command # <<>>
  /\ Exec(Head(command)) /\ command' = Tail(command)
  /\ loop' = "top"
  /\ UNCHANGED <<self, app, registered, served, firings, FileState,
                 modification_time, netReady, reported, calls>>

\* select returned because of other descriptors.
selectFiles ==
  /\ loop = "select" /\ command = <<>>
  /\ LET monitor == "monitor" \in m_read_list /\ inotify # <<>>
         net == "net" \in m_read_list /\ netReady
     IN  /\ monitor \/ net
         /\ IF monitor THEN handleInotify
                       ELSE UNCHANGED <<inotify, modification_time, reported>>
         /\ netReady' = (netReady /\ ~net)
  /\ loop' = "top"
  /\ UNCHANGED <<self, keep_running, m_read_list, m_timeout_map, command,
                 confirm, app, registered, served, firings, disk, happened,
                 calls, changes>>

\* select returned because the first timer is due, or was interrupted.
selectTimeout ==
  /\ loop = "select" /\ Due # {}
  /\ loop' = "top"
  /\ UNCHANGED <<self, keep_running, m_read_list, m_timeout_map, command,
                 confirm, app, registered, served, firings, FileState,
                 modification_time, netReady, reported, calls>>

\* unixEventProc ends.  (Its last byte in the confirm pipe is never read.)
procEnds ==
  /\ loop = "top" /\ ~keep_running
  /\ loop' = "none"
  /\ UNCHANGED <<self, keep_running, m_read_list, m_timeout_map, command,
                 confirm, app, registered, served, firings, FileState,
                 modification_time, netReady, reported, calls>>

-----------------------------------------------------------------------------
(* The rest of the world.                                                  *)

Watching == HaveInotify /\ "monitor" \in registered

\* A file in the directory appears, changes or goes.
FileChanges(file) ==
  /\ changes < MaxChanges
  /\ Spaced => inotify = <<>> /\ Len(reported) = Len(happened)
  /\ changes' = changes + 1
  /\ \E reason \in Reasons :
       /\ file = "config" => (reason = "FileAppeared") = (disk = 0)
       /\ file = "other" => reason = "FileModified"
       /\ disk' = IF file = "other" THEN disk
                  ELSE IF reason = "FileDisappeared" THEN 0 ELSE changes + 2
       /\ happened' = IF file = "config" /\ "monitor" \in registered
                        THEN Append(happened, reason) ELSE happened
       /\ inotify' = IF ~Watching THEN inotify
                     ELSE Append(inotify, [file |-> file, reason |-> reason])
  /\ UNCHANGED <<self, Context, command, confirm, app, registered, served,
                 firings, modification_time, netReady, reported, calls>>

NetReadable ==
  /\ ~netReady /\ "net" \in registered /\ netReady' = TRUE
  /\ UNCHANGED <<self, Context, command, confirm, app, registered, served,
                 firings, FileState, modification_time, reported, calls>>

TimePasses ==
  /\ \E t \in m_timeout_map : t.left > 0
  /\ m_timeout_map' = {[t EXCEPT !.left = IF @ = 0 THEN 0 ELSE @ - 1] :
                         t \in m_timeout_map}
  /\ UNCHANGED <<self, keep_running, m_read_list, loop, command, confirm, app,
                 registered, served, firings, FileState, modification_time,
                 netReady, reported, calls>>

Returns == RemoveReturns \/ EndReturns
Thread == \/ handleTimeout \/ selectCommand \/ selectFiles
          \/ selectTimeout \/ procEnds

Next ==
  \/ \E obs \in Observers : Register(obs) \/ Unregister(obs)
  \/ Returns
  \/ Thread
  \/ \E file \in Files : FileChanges(file)
  \/ NetReadable
  \/ TimePasses

\* The thread runs, time passes, and the application's calls go on when they
\* are answered.  Nobody has to make a call or change a file.
Fairness == WF_vars(Thread) /\ WF_vars(TimePasses) /\ WF_vars(Returns)

Spec == Init /\ [][Next]_vars /\ Fairness

-----------------------------------------------------------------------------
(* Properties.                                                             *)

\* The variables are of their types, and the lists and timers hold observers
\* that can be in them.
EventTypeOK ==
  /\ self \in BOOLEAN /\ keep_running \in BOOLEAN
  /\ m_read_list \subseteq Observers \ {"timer"}
  /\ \A t \in m_timeout_map : t.observer \in {"monitor", "timer"}
  /\ loop \in {"none", "top", "select"}
  /\ app \in {"idle", "removing", "ending"}
  /\ registered \subseteq Observers
  /\ firings \in 0 .. MaxFirings
  /\ disk \in 0 .. MaxChanges + 2 /\ modification_time \in 0 .. MaxChanges + 2
  /\ \A i \in DOMAIN reported : reported[i] \in Reasons

\* The thread calls only observers that exist: who is in its lists or has an
\* armed timer exists, or its owner still waits for the removal.
\* (RemoveIOObserverTask is sent and waited for, and the timer removes itself.)
CallsTheLiving ==
  \A obs \in m_read_list \cup {t.observer : t \in m_timeout_map} :
     obs \in registered \/ (app = "removing" /\ command # <<>>)

\* The thread ends only when nobody needs it: while an observer's addition is
\* done or in the pipe and it has not been removed, the loop goes on.
\* (checkForLast deletes the thread if countMonitors() is 0.)
EndsUnused ==
  ~keep_running \/ app = "ending" =>
     /\ m_read_list = {} /\ m_timeout_map = {}
     /\ \A i \in DOMAIN command : command[i].op \notin {"addIO", "addTimer"}

\* An answer is there only for the call that waits for it, so a call cannot
\* take the answer of another.  (sendTask writes the task and reads the answer
\* under one lock, postTask gets none.)
OneAnswer ==
  Len(confirm) + Cardinality({i \in DOMAIN command : command[i].how = "send"})
    = IF app = "idle" THEN 0 ELSE 1

\* What is reported happened, in that order, and nothing is reported twice.
ReportsWhatHappened ==
  "monitor" \in registered => IsPrefix(reported, happened)

\* The thread, its observers and its callers agree at every moment: it calls
\* those that exist, ends when there are none, answers who waits, and tells the
\* monitor's observer of what happened only.
EventInv == EventTypeOK /\ CallsTheLiving /\ EndsUnused /\ OneAnswer /\ ReportsWhatHappened

\* A timer asked for with less than a second goes on until its observer
\* removes it.  (Each expiry arms it again with the time kept by addToTimeOut.)
RepeatsUntilRemoved ==
  (\E i \in DOMAIN command : /\ command[i].observer = "timer"
                             /\ command[i].ms < Second)
    ~> firings = MaxFirings

\* Every change of the monitored file is reported.
ChangesAreReported ==
  "monitor" \in served /\ Len(happened) > Len(reported)
    ~> "monitor" \notin served \/ Len(happened) = Len(reported)

\* A call that removes an observer or ends the thread returns.
CallsReturn == app # "idle" ~> app = "idle"
=============================================================================
