-------------------------- MODULE EventThreadProofs --------------------------
(***************************************************************************)
(* Proofs about EventThread, with inotify, for any number of calls, timers *)
(* and changes of files: the thread calls observers that exist, ends when  *)
(* nobody needs it, answers each call once, and reports what happened.     *)
(***************************************************************************)
EXTENDS EventThread, TLAPS, FiniteSetTheorems, SequenceTheorems

TimerType == [observer : Observers, timeout : Nat, left : Nat]
TaskType ==
  [how : {"post", "send"}, op : {"addIO", "removeIO", "addTimer", "removeTimer", "end"},
   observer : Observers, ms : Nat]
EventType == [file : Files, reason : Reasons]

TypeInv ==
  /\ self \in BOOLEAN /\ keep_running \in BOOLEAN
  /\ m_read_list \subseteq {"monitor", "net"}
  /\ m_timeout_map \subseteq TimerType /\ IsFiniteSet(m_timeout_map)
  /\ loop \in {"none", "top", "select"}
  /\ command \in Seq(TaskType) /\ confirm \in Seq(Nat)
  /\ app \in {"idle", "removing", "ending"}
  /\ registered \subseteq Observers
  /\ firings \in 0 .. MaxFirings
  /\ changes \in 0 .. MaxChanges
  /\ disk \in 0 .. MaxChanges + 2 /\ modification_time \in 0 .. MaxChanges + 2
  /\ inotify \in Seq(EventType)
  /\ happened \in Seq(Reasons) /\ reported \in Seq(Reasons)

(* The pipe: tasks to add an observer, and at its end the one a caller     *)
(* waits for; when that has been executed, its answer.                     *)
PipeInv ==
  /\ app = "idle" => confirm = <<>>
  /\ app # "idle" => \/ confirm = <<>> /\ command # <<>>
                     \/ Len(confirm) = 1 /\ command = <<>>
  /\ \A i \in 1 .. Len(command) :
       /\ command[i].how = "send" <=> app # "idle" /\ i = Len(command)
       /\ command[i].how = "send" =>
            command[i].op = IF app = "removing" THEN "removeIO" ELSE "end"
       /\ command[i].how = "post" => command[i].op \in {"addIO", "addTimer"}
       /\ command[i].op \in {"addIO", "removeIO"} =>
            command[i].observer \in {"monitor", "net"}
       /\ command[i].op = "addTimer" => command[i].observer = "timer"

(* The thread runs from its creation to the end task, which is sent when   *)
(* the lists are empty, with nothing else in the pipe.                     *)
Empty == m_read_list = {} /\ m_timeout_map = {}
RunInv ==
  /\ keep_running => self
  /\ ~self => /\ command = <<>> /\ app = "idle" /\ loop = "none"
              /\ Empty
  /\ self /\ ~keep_running => app = "ending" /\ command = <<>>
  /\ loop = "none" => ~keep_running
  /\ app = "ending" => Empty /\ Len(command) <= 1
  /\ app = "removing" /\ command = <<>> /\ confirm[1] = 0 => Empty

(* The observer whose destructor waits for its removal.                    *)
Leaving == IF app = "removing" /\ command # <<>>
             THEN {command[Len(command)].observer} ELSE {}

LivingInv ==
  /\ m_read_list \subseteq registered \cup Leaving
  /\ \A i \in 1 .. Len(command) : command[i].op = "addIO" =>
       command[i].observer \in registered \cup Leaving
  /\ \A t \in m_timeout_map : t.observer = "timer"
  /\ m_timeout_map # {} => "timer" \in registered /\ firings < MaxFirings
  /\ \A i \in 1 .. Len(command) : command[i].op = "addTimer" =>
       /\ "timer" \in registered /\ firings = 0 /\ m_timeout_map = {}
       /\ \A j \in 1 .. Len(command) : command[j].op = "addTimer" => i = j

ThreadInv == TypeInv /\ PipeInv /\ RunInv /\ LivingInv

(* With changes that are not faster than the thread, all but the last one  *)
(* of the monitored file are reported, and that one is in the queue.       *)
ReportInv ==
  /\ "monitor" \notin registered => inotify = <<>>
  /\ "monitor" \in registered =>
       \/ inotify = <<>> /\ reported = happened
       \/ /\ Len(inotify) = 1
          /\ happened = IF inotify[1].file = "config"
                          THEN Append(reported, inotify[1].reason) ELSE reported

-----------------------------------------------------------------------------
(* Lists and counts.                                                       *)

(* addToTimeOut and removeFromTimeOut keep the types.                      *)
LEMMA AddedTimers ==
  ASSUME NEW map, map \subseteq TimerType, IsFiniteSet(map),
         NEW obs \in Observers, NEW ms \in Nat
  PROVE  /\ addToTimeOut(map, obs, ms) \subseteq TimerType
         /\ IsFiniteSet(addToTimeOut(map, obs, ms))
         /\ \A t \in addToTimeOut(map, obs, ms) : t \in map \/ t.observer = obs
<1> DEFINE kept == IF ms >= Second THEN ms % Second ELSE ms
           t == Timer(obs, kept, ms)
<1>1. kept \in Nat
  BY TimeAssumption
<1>2. t \in TimerType /\ t.observer = obs
  BY <1>1 DEF Timer, TimerType
<1>3. addToTimeOut(map, obs, ms) = map \cup {t}
  BY DEF addToTimeOut
<1>4. IsFiniteSet(map \cup {t})
  BY FS_AddElement
<1> HIDE DEF t
<1> QED BY <1>2, <1>3, <1>4

LEMMA RemovedTimers ==
  ASSUME NEW map, map \subseteq TimerType, IsFiniteSet(map), NEW obs
  PROVE  /\ removeFromTimeOut(map, obs) \subseteq map
         /\ IsFiniteSet(removeFromTimeOut(map, obs))
         /\ \A t \in removeFromTimeOut(map, obs) : t.observer # obs
<1>1. removeFromTimeOut(map, obs) \in SUBSET map
  BY DEF removeFromTimeOut
<1>2. IsFiniteSet(removeFromTimeOut(map, obs))
  BY <1>1, FS_Subset
<1> QED BY <1>1, <1>2 DEF removeFromTimeOut

LEMMA RearmedTimers ==
  ASSUME TypeInv, \A t \in m_timeout_map : t.observer = "timer"
  PROVE  /\ Rearmed \subseteq TimerType /\ IsFiniteSet(Rearmed)
         /\ \A t \in Rearmed : t.observer = "timer"
         /\ m_timeout_map = {} => Rearmed = {}
<1> DEFINE again == {d \in Due : d.timeout > 0}
           new(t) == addToTimeOut({}, t.observer, t.timeout)
           parts == {new(t) : t \in again}
           f == [t \in again |-> new(t)]
<1>1. /\ m_timeout_map \subseteq TimerType /\ IsFiniteSet(m_timeout_map)
      /\ again \in SUBSET m_timeout_map /\ m_timeout_map \ Due \in SUBSET m_timeout_map
  BY DEF TypeInv, Due
<1>2. IsFiniteSet(again) /\ IsFiniteSet(m_timeout_map \ Due)
  BY <1>1, FS_Subset
<1>3. \A t \in again : /\ new(t) \subseteq TimerType /\ IsFiniteSet(new(t))
                       /\ \A u \in new(t) : u.observer = "timer"
  <2> TAKE t \in again
  <2>1. t \in TimerType /\ t.observer = "timer"
    BY <1>1
  <2>2. t.observer \in Observers /\ t.timeout \in Nat
    BY <2>1 DEF TimerType
  <2> QED BY <2>1, <2>2, AddedTimers, FS_EmptySet
<1>4. Rearmed = (m_timeout_map \ Due) \cup UNION parts
  BY DEF Rearmed
<1>5. f \in Surjection(again, parts)
  BY DEF Surjection
<1>6. IsFiniteSet(parts)
  BY <1>2, <1>5, FS_Surjection
<1>7. \A T \in parts : IsFiniteSet(T)
  BY <1>3
<1>8. IsFiniteSet(UNION parts)
  BY <1>6, <1>7, FS_UNION
<1>9. IsFiniteSet(Rearmed)
  BY <1>2, <1>4, <1>8, FS_Union
<1>10. UNION parts \subseteq TimerType /\ \A u \in UNION parts : u.observer = "timer"
  BY <1>3
<1>11. m_timeout_map = {} => parts = {}
  BY <1>1
<1> HIDE DEF parts
<1> QED BY <1>1, <1>4, <1>9, <1>10, <1>11

(* Whoever is counted is there.                                            *)
LEMMA NobodyCounted ==
  ASSUME NEW list, list \subseteq {"monitor", "net"},
         NEW map, map \subseteq TimerType, IsFiniteSet(map)
  PROVE  /\ countMonitors(list, map) \in Nat
         /\ countMonitors(list, map) = 0 => list = {} /\ map = {}
<1> DEFINE times == {t.left : t \in map}
           f == [t \in map |-> t.left]
<1>1. IsFiniteSet({"monitor", "net"})
  <2>1. IsFiniteSet({"monitor"}) /\ {"monitor", "net"} = {"monitor"} \cup {"net"}
    BY FS_Singleton
  <2> QED BY <2>1, FS_AddElement
<1>2. IsFiniteSet(list)
  BY <1>1, FS_Subset
<1>3. f \in Surjection(map, times)
  BY DEF Surjection
<1>4. IsFiniteSet(times)
  BY <1>3, FS_Surjection
<1>5. Cardinality(list) \in Nat /\ Cardinality(times) \in Nat
  BY <1>2, <1>4, FS_CardinalityType
<1>6. Cardinality(list) = 0 => list = {}
  BY <1>2, FS_EmptySet
<1>7. Cardinality(times) = 0 => times = {}
  BY <1>4, FS_EmptySet
<1>8. times = {} => map = {}
  OBVIOUS
<1>9. countMonitors(list, map) = Cardinality(list) + Cardinality(times)
  BY DEF countMonitors
<1> HIDE DEF times
<1> QED BY <1>5, <1>6, <1>7, <1>8, <1>9

(* Putting into the pipe and taking out of it.                             *)
LEMMA Put ==
  ASSUME NEW S, NEW s \in Seq(S), NEW x \in S
  PROVE  /\ Append(s, x) \in Seq(S) /\ Append(s, x) # <<>>
         /\ Len(Append(s, x)) = Len(s) + 1 /\ Len(s) \in Nat
         /\ \A i \in 1 .. Len(s) + 1 :
              Append(s, x)[i] = IF i = Len(s) + 1 THEN x ELSE s[i]
OBVIOUS

LEMMA Take ==
  ASSUME NEW S, NEW s \in Seq(S), s # <<>>
  PROVE  /\ Tail(s) \in Seq(S) /\ Head(s) = s[1] /\ Head(s) \in S
         /\ Len(s) \in Nat \ {0} /\ Len(Tail(s)) = Len(s) - 1
         /\ \A i \in 1 .. Len(s) - 1 : Tail(s)[i] = s[i + 1]
         /\ Tail(s) = <<>> <=> Len(s) = 1
<1>1. /\ Tail(s) \in Seq(S) /\ Head(s) \in S /\ Len(Tail(s)) = Len(s) - 1
      /\ \A i \in 1 .. Len(Tail(s)) : Tail(s)[i] = s[i + 1]
  BY HeadTailProperties
<1>2. Head(s) = s[1] /\ Len(s) \in Nat \ {0}
  OBVIOUS
<1>3. Tail(s) = <<>> <=> Len(Tail(s)) = 0
  BY <1>1, EmptySeq
<1> QED BY <1>1, <1>2, <1>3


-----------------------------------------------------------------------------
(* The thread and its callers.                                             *)

LEMMA ThreadInit == Init => ThreadInv
<1> SUFFICES ASSUME Init PROVE ThreadInv
  OBVIOUS
<1> USE DEF Init
<1>1. TypeInv
  <2>1. IsFiniteSet({})
    BY FS_EmptySet
  <2>2. disk \in 0 .. MaxChanges + 2 /\ changes \in 0 .. MaxChanges
        /\ firings \in 0 .. MaxFirings /\ modification_time \in 0 .. MaxChanges + 2
    BY CountAssumption
  <2>3. \A S : <<>> \in Seq(S)
    OBVIOUS
  <2> QED BY <2>1, <2>2, <2>3 DEF TypeInv
<1>2. Len(command) = 0
  OBVIOUS
<1>3. PipeInv /\ RunInv /\ LivingInv
  BY <1>2 DEF PipeInv, RunInv, LivingInv, Empty
<1> QED BY <1>1, <1>3 DEF ThreadInv

(* A constructor posts the addition of its observer, at most.              *)
LEMMA RegisterStep ==
  ASSUME HaveInotify, ThreadInv, NEW obs \in Observers, Register(obs)
  PROVE  ThreadInv'
<1> USE DEF ThreadInv
<1>1. /\ app = "idle" /\ app' = "idle" /\ obs \notin registered
      /\ registered' = registered \cup {obs}
      /\ confirm' = confirm /\ disk' = disk /\ changes' = changes
      /\ firings' = IF obs = "timer" THEN 0 ELSE firings
  BY DEF Register
<1>2. PICK ok \in BOOLEAN, task \in TaskType :
        /\ Up(ok) /\ postTask(ok, task)
        /\ task.how = "post"
        /\ task.op = IF obs = "timer" THEN "addTimer" ELSE "addIO"
        /\ task.observer = obs
  <2>1. PICK ok \in BOOLEAN :
          /\ Up(ok)
          /\ CASE obs = "timer" ->
                    \E ms \in Timeouts :
                       postTask(ok, Task("post", "addTimer", obs, ms))
               [] obs = "monitor" /\ ~HaveInotify ->
                    postTask(ok, Task("post", "addTimer", obs, PollTimeout))
               [] OTHER -> postTask(ok, Task("post", "addIO", obs, 0))
    BY DEF Register
  <2>2. CASE obs = "timer"
    <3>1. PICK ms \in Timeouts : postTask(ok, Task("post", "addTimer", obs, ms))
      BY <2>1, <2>2
    <3>2. ms \in Nat
      BY TimeAssumption
    <3>3. Task("post", "addTimer", obs, ms) \in TaskType
      BY <3>2 DEF Task, TaskType
    <3> QED BY <2>1, <2>2, <3>1, <3>3 DEF Task
  <2>3. CASE obs # "timer"
    <3>1. postTask(ok, Task("post", "addIO", obs, 0))
      BY <2>1, <2>3
    <3>2. Task("post", "addIO", obs, 0) \in TaskType
      BY DEF Task, TaskType
    <3> QED BY <2>1, <2>3, <3>1, <3>2 DEF Task
  <2> QED BY <2>2, <2>3
<1>3. /\ modification_time' \in 0 .. MaxChanges + 2 /\ inotify' \in Seq(EventType)
      /\ happened' \in Seq(Reasons) /\ reported' \in Seq(Reasons)
  <2>1. CASE obs = "monitor"
    <3>1. /\ modification_time' = disk /\ inotify' = <<>> /\ happened' = <<>>
          /\ reported' = <<>>
      BY <2>1 DEF Register
    <3>2. \A S : <<>> \in Seq(S)
      OBVIOUS
    <3> QED BY <3>1, <3>2 DEF TypeInv
  <2>2. CASE obs # "monitor"
    <3>1. UNCHANGED <<modification_time, inotify, happened, reported>>
      BY <2>2 DEF Register
    <3> QED BY <3>1 DEF TypeInv
  <2> QED BY <2>1, <2>2
<1>4. /\ m_read_list' = m_read_list /\ m_timeout_map' = m_timeout_map
      /\ self' = (self \/ ok)
      /\ IF ok THEN command' = Append(command, task) ELSE command' = command
      /\ self => loop' = loop /\ keep_running' = keep_running
      /\ ~self /\ ok => loop' = "top" /\ keep_running' = TRUE
      /\ ~self /\ ~ok => loop' = loop /\ keep_running' = keep_running
  BY <1>2 DEF Up, postTask, Context, RunInv, TypeInv, Empty
<1>5. /\ command' \in Seq(TaskType) /\ Len(command) \in Nat
      /\ ok => /\ Len(command') = Len(command) + 1
               /\ \A i \in 1 .. Len(command') :
                    command'[i] = IF i = Len(command) + 1 THEN task ELSE command[i]
      /\ ~ok => command' = command
  <2>1. CASE ok
    <3>1. command' = Append(command, task) /\ command \in Seq(TaskType)
      BY <1>4, <2>1 DEF TypeInv
    <3> QED BY <3>1, <2>1, Put
  <2>2. CASE ~ok
    BY <1>4, <2>2 DEF TypeInv
  <2> QED BY <2>1, <2>2
<1> USE CountAssumption
<1>6. TypeInv'
  <2>1. firings' \in 0 .. MaxFirings
    BY <1>1 DEF TypeInv
  <2>2. /\ self' \in BOOLEAN /\ keep_running' \in BOOLEAN
        /\ loop' \in {"none", "top", "select"}
    BY <1>4, Zenon DEF TypeInv
  <2>3. registered' \subseteq Observers
    BY <1>1 DEF TypeInv
  <2> QED BY <1>1, <1>3, <1>4, <1>5, <2>1, <2>2, <2>3 DEF TypeInv
<1>7. \A i \in 1 .. Len(command) :
        /\ command[i].how = "post" /\ command[i].op \in {"addIO", "addTimer"}
        /\ command[i].op = "addIO" => command[i].observer \in registered
        /\ command[i].op = "addTimer" => "timer" \in registered
  <2> TAKE i \in 1 .. Len(command)
  <2>1. command[i] \in TaskType
    BY DEF TypeInv
  <2>2. command[i].how \in {"post", "send"} /\ command[i].how # "send"
    BY <1>1, <2>1 DEF PipeInv, TaskType
  <2> QED BY <1>1, <2>2 DEF PipeInv, LivingInv, Leaving
<1>8. PipeInv'
  <2>1. CASE ok
    BY <1>1, <1>2, <1>5, <1>7, <2>1 DEF PipeInv, Observers
  <2>2. CASE ~ok
    BY <1>1, <1>5, <2>2 DEF PipeInv
  <2> QED BY <2>1, <2>2
<1>9. RunInv'
  BY <1>1, <1>4, <1>5 DEF RunInv, TypeInv, Empty
<1>10. LivingInv'
  <2>1. Leaving = {} /\ Leaving' = {}
    BY <1>1 DEF Leaving
  <2>2. m_read_list' \subseteq registered' \cup Leaving'
    BY <1>1, <1>4, <2>1 DEF LivingInv
  <2>3. obs = "timer" => m_timeout_map = {}
    BY <1>1 DEF LivingInv
  <2>4. m_timeout_map' # {} => "timer" \in registered' /\ firings' < MaxFirings
    BY <1>1, <1>4, <2>3 DEF LivingInv
  <2>5. ASSUME NEW i \in 1 .. Len(command'), command'[i].op = "addIO"
        PROVE  command'[i].observer \in registered' \cup Leaving'
    BY <1>1, <1>2, <1>5, <1>7, <2>5
  <2>6. ASSUME NEW i \in 1 .. Len(command'), command'[i].op = "addTimer"
        PROVE  /\ "timer" \in registered' /\ firings' = 0 /\ m_timeout_map' = {}
               /\ \A j \in 1 .. Len(command') : command'[j].op = "addTimer" => i = j
    <3>1. CASE ok /\ obs = "timer"
      <4>1. \A j \in 1 .. Len(command) : command[j].op # "addTimer"
        BY <1>1, <1>7, <3>1
      <4>2. \A j \in 1 .. Len(command') : command'[j].op = "addTimer" => j = Len(command) + 1
        BY <1>5, <3>1, <4>1
      <4> QED BY <1>1, <1>4, <2>3, <2>6, <3>1, <4>2
    <3>2. CASE ~(ok /\ obs = "timer")
      <4>1. \A j \in 1 .. Len(command') : command'[j].op = "addTimer" =>
              j \in 1 .. Len(command) /\ command[j].op = "addTimer"
        BY <1>2, <1>5, <3>2
      <4>2. obs # "timer"
        BY <1>1, <1>7, <2>6, <4>1
      <4>3. /\ "timer" \in registered /\ firings = 0 /\ m_timeout_map = {}
            /\ \A j \in 1 .. Len(command) : command[j].op = "addTimer" => i = j
        BY <2>6, <4>1 DEF LivingInv
      <4> QED BY <1>1, <1>4, <4>1, <4>2, <4>3
    <3> QED BY <3>1, <3>2
  <2> QED BY <1>4, <2>2, <2>4, <2>5, <2>6 DEF LivingInv
<1> QED BY <1>6, <1>8, <1>9, <1>10


(* A destructor sends the removal of its observer, if there is a thread.   *)
LEMMA UnregisterStep ==
  ASSUME HaveInotify, ThreadInv, NEW obs \in Observers, Unregister(obs)
  PROVE  ThreadInv'
<1> USE DEF ThreadInv
<1> DEFINE task == Task("send", "removeIO", obs, 0)
<1>1. /\ app = "idle" /\ obs \in registered
      /\ obs = "timer" => firings = MaxFirings
      /\ registered' = registered \ {obs}
      /\ inotify' = IF obs = "monitor" THEN <<>> ELSE inotify
      /\ UNCHANGED <<self, Context, confirm, firings, disk, modification_time,
                     happened, reported, changes>>
  BY DEF Unregister
<1>2. \/ /\ obs = "timer" \/ ~self
         /\ UNCHANGED <<app, command>>
      \/ /\ obs # "timer" /\ self
         /\ command' = Append(command, task) /\ app' = "removing"
  BY DEF Unregister, postTask, TypeInv
<1>3. UNCHANGED <<m_read_list, m_timeout_map, keep_running, loop>>
  BY <1>1 DEF Context
<1>4. confirm = <<>> /\ Leaving = {}
  BY <1>1 DEF PipeInv, Leaving
<1>5. task \in TaskType /\ task.how = "send" /\ task.op = "removeIO" /\ task.observer = obs
  BY DEF Task, TaskType
<1> HIDE DEF task
<1>6. inotify' \in Seq(EventType) /\ registered' \subseteq Observers
  <2>1. <<>> \in Seq(EventType)
    OBVIOUS
  <2> QED BY <1>1, <2>1 DEF TypeInv
<1>7. \A i \in 1 .. Len(command) :
        /\ command[i].how = "post" /\ command[i].op \in {"addIO", "addTimer"}
  <2> TAKE i \in 1 .. Len(command)
  <2>1. command[i] \in TaskType
    BY DEF TypeInv
  <2>2. command[i].how \in {"post", "send"} /\ command[i].how # "send"
    BY <1>1, <2>1 DEF PipeInv, TaskType
  <2> QED BY <1>1, <2>2 DEF PipeInv
<1>8. CASE obs = "timer"
  <2>1. UNCHANGED <<app, command>>
    BY <1>2, <1>8
  <2>2. TypeInv'
    BY <1>1, <1>3, <1>6, <2>1 DEF TypeInv
  <2>3. PipeInv' /\ RunInv'
    BY <1>1, <1>3, <2>1 DEF PipeInv, RunInv, Empty
  <2>4. firings = MaxFirings /\ MaxFirings \in Nat \ {0}
    BY <1>1, <1>8, CountAssumption
  <2>5. m_timeout_map = {} /\ \A i \in 1 .. Len(command) : command[i].op # "addTimer"
    BY <2>4 DEF LivingInv
  <2>6. Leaving' = {}
    BY <1>1, <2>1 DEF Leaving
  <2>7. m_read_list \subseteq {"monitor", "net"}
    BY DEF TypeInv
  <2>8. LivingInv'
    BY <1>1, <1>3, <1>4, <1>8, <2>1, <2>5, <2>6, <2>7 DEF LivingInv, PipeInv
  <2> QED BY <2>2, <2>3, <2>8
<1>9. CASE obs # "timer" /\ ~self
  <2>1. UNCHANGED <<app, command>>
    BY <1>2, <1>9
  <2>2. TypeInv'
    BY <1>1, <1>3, <1>6, <2>1 DEF TypeInv
  <2>3. PipeInv' /\ RunInv'
    BY <1>1, <1>3, <2>1 DEF PipeInv, RunInv, Empty
  <2>4. m_timeout_map = {} /\ m_read_list = {} /\ Len(command) = 0
    BY <1>9 DEF RunInv, Empty
  <2>5. LivingInv'
    BY <1>3, <2>1, <2>4 DEF LivingInv
  <2> QED BY <2>2, <2>3, <2>5
<1>10. CASE obs # "timer" /\ self
  <2>1. command' = Append(command, task) /\ app' = "removing"
    BY <1>2, <1>10
  <2>2. command \in Seq(TaskType)
    BY DEF TypeInv
  <2>3. /\ command' \in Seq(TaskType) /\ command' # <<>>
        /\ Len(command') = Len(command) + 1 /\ Len(command) \in Nat
        /\ \A i \in 1 .. Len(command) + 1 :
              command'[i] = IF i = Len(command) + 1 THEN task ELSE command[i]
    BY <1>5, <2>1, <2>2, Put
  <2>4. TypeInv'
    BY <1>1, <1>3, <1>6, <2>1, <2>3 DEF TypeInv
  <2>5. PipeInv'
    BY <1>1, <1>4, <1>5, <1>7, <1>10, <2>1, <2>3 DEF PipeInv, Observers
  <2>6. keep_running
    BY <1>1, <1>10 DEF RunInv, TypeInv
  <2>7. RunInv'
    BY <1>1, <1>3, <1>10, <2>1, <2>3, <2>6 DEF RunInv
  <2>8. Leaving' = {obs}
    BY <1>5, <2>1, <2>3 DEF Leaving
  <2>9. registered \subseteq registered' \cup Leaving'
    BY <1>1, <2>8
  <2>10. ASSUME NEW i \in 1 .. Len(command'), command'[i].op \in {"addIO", "addTimer"}
         PROVE  i \in 1 .. Len(command) /\ command'[i] = command[i]
    BY <1>5, <2>3, <2>10
  <2>11. /\ m_read_list' \subseteq registered' \cup Leaving'
         /\ \A i \in 1 .. Len(command') : command'[i].op = "addIO" =>
              command'[i].observer \in registered' \cup Leaving'
    BY <1>3, <1>4, <2>9, <2>10 DEF LivingInv
  <2>12. \A i \in 1 .. Len(command') : command'[i].op = "addTimer" =>
       /\ "timer" \in registered' /\ firings' = 0 /\ m_timeout_map' = {}
       /\ \A j \in 1 .. Len(command') : command'[j].op = "addTimer" => i = j
    BY <1>1, <1>3, <1>10, <2>10 DEF LivingInv
  <2>13. /\ \A t \in m_timeout_map' : t.observer = "timer"
         /\ m_timeout_map' # {} => "timer" \in registered' /\ firings' < MaxFirings
    BY <1>1, <1>3, <1>10 DEF LivingInv
  <2>14. LivingInv'
    BY <2>11, <2>12, <2>13 DEF LivingInv
  <2> QED BY <2>4, <2>5, <2>7, <2>14
<1> QED BY <1>8, <1>9, <1>10 DEF TypeInv

(* A call takes its answer.                                                *)
LEMMA Answered ==
  ASSUME ThreadInv, confirm # <<>>
  PROVE  /\ app # "idle" /\ command = <<>> /\ Len(command) = 0 /\ Leaving = {}
         /\ Tail(confirm) = <<>> /\ Head(confirm) = confirm[1] /\ self
<1> USE DEF ThreadInv
<1>1. app # "idle" /\ Len(confirm) = 1 /\ command = <<>> /\ self
  BY DEF PipeInv, RunInv
<1>2. confirm \in Seq(Nat)
  BY DEF TypeInv
<1>3. Tail(confirm) = <<>> /\ Head(confirm) = confirm[1]
  BY <1>1, <1>2, Take
<1> QED BY <1>1, <1>3 DEF Leaving

LEMMA RemoveReturnsStep ==
  ASSUME ThreadInv, RemoveReturns
  PROVE  ThreadInv'
<1> USE DEF ThreadInv
<1> DEFINE task == Task("send", "end", "net", 0)
<1>1. /\ app = "removing" /\ confirm # <<>> /\ confirm' = Tail(confirm)
      /\ IF Head(confirm) = 0
           THEN app' = "ending" /\ command' = Append(command, task)
           ELSE app' = "idle" /\ UNCHANGED command
      /\ UNCHANGED <<self, Context, registered, firings, FileState,
                     modification_time, reported>>
  BY DEF RemoveReturns, isLast
<1>2. /\ command = <<>> /\ Len(command) = 0 /\ Leaving = {} /\ self
      /\ confirm' = <<>> /\ Head(confirm) = confirm[1]
  BY <1>1, Answered
<1>3. /\ UNCHANGED <<m_read_list, m_timeout_map, keep_running, loop, disk, inotify,
                     happened, changes>>
  BY <1>1 DEF Context, FileState
<1>4. keep_running
  BY <1>1, <1>2 DEF RunInv
<1>5. \A S : <<>> \in Seq(S)
  OBVIOUS
<1>6. CASE Head(confirm) = 0
  <2>1. Empty
    BY <1>1, <1>2, <1>6 DEF RunInv
  <2>2. task \in TaskType /\ task.how = "send" /\ task.op = "end" /\ task.observer = "net"
    BY DEF Task, TaskType, Observers
  <2> HIDE DEF task
  <2>3. app' = "ending" /\ command' = Append(command, task)
    BY <1>1, <1>6
  <2>4. /\ command' \in Seq(TaskType) /\ command' # <<>> /\ Len(command') = 1
        /\ \A i \in 1 .. 1 : command'[i] = task
    <3>1. command \in Seq(TaskType)
      BY DEF TypeInv
    <3> QED BY <1>2, <2>2, <2>3, <3>1, Put
  <2>5. TypeInv'
    BY <1>1, <1>2, <1>3, <1>5, <2>3, <2>4 DEF TypeInv
  <2>6. PipeInv'
    BY <1>2, <2>2, <2>3, <2>4 DEF PipeInv
  <2>7. RunInv'
    BY <1>1, <1>2, <1>3, <1>4, <2>1, <2>3, <2>4 DEF RunInv, Empty
  <2>8. LivingInv'
    BY <1>1, <1>2, <1>3, <2>1, <2>2, <2>3, <2>4 DEF LivingInv, Empty
  <2> QED BY <2>5, <2>6, <2>7, <2>8
<1>7. CASE Head(confirm) # 0
  <2>1. app' = "idle" /\ command' = command
    BY <1>1, <1>7
  <2>2. TypeInv'
    BY <1>1, <1>2, <1>3, <1>5, <2>1 DEF TypeInv
  <2>3. PipeInv'
    BY <1>2, <2>1 DEF PipeInv
  <2>4. RunInv'
    BY <1>1, <1>2, <1>3, <1>4, <2>1 DEF RunInv, Empty
  <2>5. LivingInv'
    BY <1>1, <1>2, <1>3, <2>1 DEF LivingInv, Leaving
  <2> QED BY <2>2, <2>3, <2>4, <2>5
<1> QED BY <1>6, <1>7

LEMMA EndReturnsStep ==
  ASSUME ThreadInv, EndReturns
  PROVE  ThreadInv'
<1> USE DEF ThreadInv
<1>1. /\ app = "ending" /\ loop = "none" /\ app' = "idle"
      /\ self' = FALSE /\ keep_running' = FALSE /\ m_read_list' = {}
      /\ m_timeout_map' = {} /\ loop' = loop
      /\ command' = <<>> /\ confirm' = <<>>
      /\ UNCHANGED <<registered, firings, modification_time, reported,
                     disk, inotify, happened, changes>>
  BY DEF EndReturns, FileState
<1>2. Len(command') = 0 /\ \A S : <<>> \in Seq(S)
  BY <1>1
<1>3. TypeInv'
  <2>1. IsFiniteSet({})
    BY FS_EmptySet
  <2> QED BY <1>1, <1>2, <2>1 DEF TypeInv
<1>4. PipeInv' /\ RunInv' /\ LivingInv'
  BY <1>1, <1>2 DEF PipeInv, RunInv, LivingInv, Empty
<1> QED BY <1>3, <1>4

-----------------------------------------------------------------------------
(* The thread's own steps.                                                 *)

(* Timers expire: an observer whose last event it is has its timer removed. *)
LEMMA handleTimeoutStep ==
  ASSUME ThreadInv, handleTimeout
  PROVE  /\ ThreadInv' /\ UNCHANGED <<registered, inotify, happened, reported>>
<1> USE DEF ThreadInv
<1> DEFINE fires == \E t \in Due : t.observer = "timer"
<1>1. \A t \in m_timeout_map : t.observer = "timer"
  BY DEF LivingInv
<1>2. ~\E t \in Due : t.observer = "monitor"
  BY <1>1 DEF Due
<1>3. /\ loop = "top" /\ keep_running /\ loop' = "select"
      /\ m_timeout_map' = IF fires /\ firings + 1 = MaxFirings
                            THEN removeFromTimeOut(Rearmed, "timer") ELSE Rearmed
      /\ firings' = IF fires THEN firings + 1 ELSE firings
      /\ UNCHANGED <<modification_time, reported, self, keep_running, m_read_list, command,
                     confirm, app, registered, disk, inotify, happened, changes>>
  BY <1>2 DEF handleTimeout, FileState
<1>4. fires => m_timeout_map # {} /\ firings < MaxFirings
  BY DEF Due, LivingInv
<1>5. /\ Rearmed \subseteq TimerType /\ IsFiniteSet(Rearmed)
      /\ \A t \in Rearmed : t.observer = "timer"
      /\ m_timeout_map = {} => Rearmed = {}
  BY <1>1, RearmedTimers
<1> HIDE DEF fires
<1> DEFINE rest == removeFromTimeOut(Rearmed, "timer")
<1>6. /\ rest \subseteq Rearmed /\ IsFiniteSet(rest)
      /\ \A t \in rest : t.observer # "timer"
  BY <1>5, RemovedTimers
<1>7. rest = {}
  BY <1>5, <1>6
<1>8. /\ m_timeout_map' \subseteq TimerType /\ IsFiniteSet(m_timeout_map')
      /\ \A t \in m_timeout_map' : t.observer = "timer"
      /\ m_timeout_map = {} => m_timeout_map' = {}
      /\ fires /\ firings + 1 = MaxFirings => m_timeout_map' = {}
  BY <1>3, <1>5, <1>6, <1>7
<1>9. MaxFirings \in Nat /\ firings \in 0 .. MaxFirings
  BY CountAssumption DEF TypeInv
<1>10. firings' \in 0 .. MaxFirings
  BY <1>3, <1>4, <1>9
<1>11. m_timeout_map' # {} => "timer" \in registered' /\ firings' < MaxFirings
  <2>1. SUFFICES ASSUME m_timeout_map' # {}
                 PROVE  "timer" \in registered /\ firings' < MaxFirings
    BY <1>3
  <2>2. m_timeout_map # {} /\ ~(fires /\ firings + 1 = MaxFirings)
    BY <1>8, <2>1
  <2>3. "timer" \in registered /\ firings < MaxFirings
    BY <2>2 DEF LivingInv
  <2> QED BY <1>3, <1>9, <2>2, <2>3
<1>12. TypeInv'
  BY <1>3, <1>8, <1>10 DEF TypeInv
<1>13. PipeInv'
  BY <1>3 DEF PipeInv
<1>14. RunInv'
  BY <1>3, <1>8 DEF RunInv, Empty
<1>15. LivingInv'
  <2>1. Leaving' = Leaving
    BY <1>3 DEF Leaving
  <2>2. m_timeout_map = {} => firings' = firings
    BY <1>3, <1>4
  <2> QED BY <1>3, <1>8, <1>11, <2>1, <2>2 DEF LivingInv
<1> QED BY <1>3, <1>12, <1>13, <1>14, <1>15


(* A task is executed and, if it was sent, answered.                       *)
LEMMA selectCommandStep ==
  ASSUME ThreadInv, selectCommand
  PROVE  ThreadInv' /\ UNCHANGED <<registered, inotify, happened, reported>>
<1> USE DEF ThreadInv
<1> DEFINE task == Head(command)
           n == IF task.op = "end" THEN 1 ELSE countMonitors(m_read_list', m_timeout_map')
<1>1. /\ loop = "select" /\ command # <<>> /\ Exec(task) /\ command' = Tail(command)
      /\ loop' = "top"
      /\ UNCHANGED <<self, app, registered, firings, disk, inotify, happened, changes,
                     modification_time, reported>>
  BY DEF selectCommand, FileState
<1>2. command \in Seq(TaskType) /\ confirm \in Seq(Nat)
  BY DEF TypeInv
<1>3. /\ command' \in Seq(TaskType) /\ task = command[1] /\ task \in TaskType
      /\ Len(command) \in Nat \ {0} /\ Len(command') = Len(command) - 1
      /\ \A i \in 1 .. Len(command) - 1 : command'[i] = command[i + 1]
      /\ command' = <<>> <=> Len(command) = 1
  BY <1>1, <1>2, Take
<1>4. confirm = <<>> /\ self /\ keep_running
  BY <1>1 DEF PipeInv, RunInv, TypeInv
<1>5. 1 \in 1 .. Len(command)
  BY <1>3
<1>6. /\ task.how \in {"post", "send"}
      /\ task.how = "send" => /\ app # "idle" /\ Len(command) = 1
                              /\ task.op = IF app = "removing" THEN "removeIO" ELSE "end"
      /\ task.how = "post" => /\ app = "idle" \/ Len(command) > 1
                              /\ task.op \in {"addIO", "addTimer"}
      /\ task.op \in {"addIO", "removeIO"} => task.observer \in {"monitor", "net"}
      /\ task.op = "addTimer" => task.observer = "timer"
  BY <1>3, <1>5 DEF PipeInv, TaskType
<1>7. /\ \A i \in 1 .. Len(command') : i + 1 \in 1 .. Len(command)
                                       /\ command'[i] = command[i + 1]
      /\ \A i \in 1 .. Len(command') : i + 1 = Len(command) <=> i = Len(command')
      /\ Len(command') \in Nat
  BY <1>3
<1>8. /\ confirm' = IF task.how = "post" THEN confirm ELSE Append(confirm, n)
      /\ task.op = "addIO" => /\ m_read_list' = m_read_list \cup {task.observer}
                              /\ UNCHANGED <<keep_running, m_timeout_map>>
      /\ task.op = "removeIO" => /\ m_read_list' = m_read_list \ {task.observer}
                                 /\ UNCHANGED <<keep_running, m_timeout_map>>
      /\ task.op = "addTimer" =>
           /\ m_timeout_map' = addToTimeOut(m_timeout_map, task.observer, task.ms)
           /\ UNCHANGED <<keep_running, m_read_list>>
      /\ task.op = "end" => /\ keep_running' = FALSE
                            /\ UNCHANGED <<m_read_list, m_timeout_map>>
  BY <1>1, <1>6 DEF Exec, Answer
<1>9. Len(command') > 0 => Leaving' = Leaving
  <2> SUFFICES ASSUME Len(command') > 0 PROVE Leaving' = Leaving
    OBVIOUS
  <2>1. command' # <<>>
    BY <1>3
  <2>2. Len(command') \in 1 .. Len(command') /\ Len(command') + 1 = Len(command)
    BY <1>3
  <2>3. command'[Len(command')] = command[Len(command)]
    BY <1>7, <2>2
  <2> QED BY <1>1, <2>1, <2>3, Zenon DEF Leaving
<1> HIDE DEF task, n
<1>10. CASE task.op = "addIO"
  <2>1. /\ task.how = "post" /\ confirm' = <<>>
        /\ m_read_list' = m_read_list \cup {task.observer}
        /\ UNCHANGED <<keep_running, m_timeout_map>>
    BY <1>4, <1>6, <1>8, <1>10
  <2>2. TypeInv'
    BY <1>1, <1>2, <1>3, <1>4, <1>6, <1>10, <2>1 DEF TypeInv
  <2>3. app # "idle" => command' # <<>>
    BY <1>3, <1>6, <2>1
  <2>4. PipeInv'
    <3>1. \A i \in 1 .. Len(command') :
           /\ command'[i].how = "send" <=> app # "idle" /\ i = Len(command')
           /\ command'[i].how = "send" =>
                command'[i].op = IF app = "removing" THEN "removeIO" ELSE "end"
           /\ command'[i].how = "post" => command'[i].op \in {"addIO", "addTimer"}
           /\ command'[i].op \in {"addIO", "removeIO"} =>
                command'[i].observer \in {"monitor", "net"}
           /\ command'[i].op = "addTimer" => command'[i].observer = "timer"
      BY <1>7 DEF PipeInv
    <3> QED BY <1>1, <2>1, <2>3, <3>1 DEF PipeInv
  <2>5. app # "ending"
    <3>1. app = "ending" => Len(command) <= 1
      BY DEF RunInv
    <3> QED BY <1>3, <1>6, <2>1, <3>1
  <2>6. RunInv'
    BY <1>1, <1>4, <2>1, <2>3, <2>5 DEF RunInv
  <2>7. task.observer \in registered \cup Leaving
    BY <1>3, <1>5, <1>10 DEF LivingInv
  <2>8. Leaving' = Leaving
    <3>1. CASE app = "removing"
      BY <1>3, <1>9, <2>3, <3>1
    <3>2. CASE app # "removing"
      BY <1>1, <3>2, Zenon DEF Leaving
    <3> QED BY <3>1, <3>2
  <2>9. LivingInv'
    BY <1>1, <1>7, <2>1, <2>7, <2>8 DEF LivingInv
  <2> QED BY <1>1, <2>2, <2>4, <2>6, <2>9
<1>11. CASE task.op = "addTimer"
  <2>1. /\ task.how = "post" /\ confirm' = <<>> /\ task.observer = "timer"
        /\ m_timeout_map' = addToTimeOut(m_timeout_map, "timer", task.ms)
        /\ UNCHANGED <<keep_running, m_read_list>>
    BY <1>4, <1>6, <1>8, <1>11
  <2>2. /\ "timer" \in registered /\ firings = 0 /\ m_timeout_map = {}
        /\ \A j \in 1 .. Len(command) : command[j].op = "addTimer" => j = 1
    BY <1>3, <1>5, <1>11 DEF LivingInv
  <2>3. /\ m_timeout_map' \subseteq TimerType /\ IsFiniteSet(m_timeout_map')
        /\ \A t \in m_timeout_map' : t.observer = "timer"
    <3>1. task.ms \in Nat /\ "timer" \in Observers
      BY <1>3 DEF TaskType, Observers
    <3> QED BY <2>1, <2>2, <3>1, AddedTimers, FS_EmptySet
  <2>4. TypeInv'
    BY <1>1, <1>2, <1>3, <1>4, <2>1, <2>3 DEF TypeInv
  <2>5. app # "idle" => command' # <<>>
    BY <1>3, <1>6, <2>1
  <2>6. PipeInv'
    <3>1. \A i \in 1 .. Len(command') :
           /\ command'[i].how = "send" <=> app # "idle" /\ i = Len(command')
           /\ command'[i].how = "send" =>
                command'[i].op = IF app = "removing" THEN "removeIO" ELSE "end"
           /\ command'[i].how = "post" => command'[i].op \in {"addIO", "addTimer"}
           /\ command'[i].op \in {"addIO", "removeIO"} =>
                command'[i].observer \in {"monitor", "net"}
           /\ command'[i].op = "addTimer" => command'[i].observer = "timer"
      BY <1>7 DEF PipeInv
    <3> QED BY <1>1, <2>1, <2>5, <3>1 DEF PipeInv
  <2>7. app # "ending"
    <3>1. app = "ending" => Len(command) <= 1
      BY DEF RunInv
    <3> QED BY <1>3, <1>6, <2>1, <3>1
  <2>8. RunInv'
    BY <1>1, <1>4, <2>1, <2>5, <2>7 DEF RunInv
  <2>9. Leaving' = Leaving
    <3>1. CASE app = "removing"
      BY <1>3, <1>9, <2>5, <3>1
    <3>2. CASE app # "removing"
      BY <1>1, <3>2, Zenon DEF Leaving
    <3> QED BY <3>1, <3>2
  <2>10. \A i \in 1 .. Len(command') : command'[i].op # "addTimer"
    <3> SUFFICES ASSUME NEW i \in 1 .. Len(command'), command'[i].op = "addTimer"
                 PROVE  FALSE
      OBVIOUS
    <3>1. i + 1 = 1
      BY <1>7, <2>2
    <3> QED BY <3>1, <1>7
  <2>11. firings' < MaxFirings
    BY <1>1, <2>2, CountAssumption
  <2>12. LivingInv'
    BY <1>1, <1>7, <2>1, <2>2, <2>3, <2>9, <2>10, <2>11 DEF LivingInv
  <2> QED BY <1>1, <2>4, <2>6, <2>8, <2>12
<1>12. CASE task.op = "removeIO"
  <2>1. /\ task.how = "send" /\ app = "removing" /\ Len(command) = 1
        /\ m_read_list' = m_read_list \ {task.observer}
        /\ UNCHANGED <<keep_running, m_timeout_map>>
    BY <1>6, <1>8, <1>12
  <2>2. /\ m_read_list' \subseteq {"monitor", "net"} /\ m_timeout_map' \subseteq TimerType
        /\ IsFiniteSet(m_timeout_map')
    BY <2>1 DEF TypeInv
  <2>3. n \in Nat /\ (n = 0 => Empty')
    BY <1>12, <2>2, NobodyCounted DEF n, Empty
  <2>4. /\ confirm' \in Seq(Nat) /\ Len(confirm') = 1 /\ confirm'[1] = n
    <3>1. confirm' = Append(confirm, n)
      BY <1>8, <2>1
    <3>2. Len(confirm) = 0
      BY <1>4
    <3> QED BY <1>2, <2>3, <3>1, <3>2, Put
  <2>5. command' = <<>> /\ \A i \in 1 .. Len(command') : FALSE
    BY <1>3, <2>1
  <2>6. TypeInv'
    BY <1>1, <1>3, <2>1, <2>2, <2>4 DEF TypeInv
  <2>7. PipeInv'
    BY <1>1, <2>1, <2>4, <2>5 DEF PipeInv
  <2>8. RunInv'
    BY <1>1, <1>4, <2>1, <2>3, <2>4 DEF RunInv
  <2>9. Leaving = {task.observer}
    BY <1>1, <1>3, <2>1 DEF Leaving
  <2>10. LivingInv'
    BY <1>1, <2>1, <2>5, <2>9 DEF LivingInv
  <2> QED BY <1>1, <2>6, <2>7, <2>8, <2>10
<1>13. CASE task.op = "end"
  <2>1. /\ task.how = "send" /\ app = "ending" /\ Len(command) = 1
        /\ keep_running' = FALSE
        /\ UNCHANGED <<m_read_list, m_timeout_map>>
    BY <1>6, <1>8, <1>13 DEF TypeInv
  <2>2. n = 1
    BY <1>13 DEF n
  <2>3. /\ confirm' \in Seq(Nat) /\ Len(confirm') = 1
    <3>1. confirm' = Append(confirm, n)
      BY <1>8, <2>1
    <3>2. Len(confirm) = 0
      BY <1>4
    <3> QED BY <1>2, <2>2, <3>1, <3>2, Put
  <2>4. command' = <<>> /\ Len(command') = 0 /\ \A i \in 1 .. Len(command') : FALSE
    BY <1>3, <2>1
  <2>5. TypeInv'
    BY <1>1, <1>3, <2>1, <2>3 DEF TypeInv
  <2>6. PipeInv'
    BY <1>1, <2>1, <2>3, <2>4 DEF PipeInv
  <2>7. RunInv'
    BY <1>1, <1>4, <2>1, <2>4 DEF RunInv, Empty
  <2>8. LivingInv'
    BY <1>1, <2>1, <2>4 DEF LivingInv, RunInv, Empty
  <2> QED BY <1>1, <2>5, <2>6, <2>7, <2>8
<1> QED BY <1>6, <1>10, <1>11, <1>12, <1>13

(* What files and sockets have to say changes neither pipes nor lists.     *)
LEMMA selectFilesStep ==
  ASSUME ThreadInv, selectFiles
  PROVE  ThreadInv'
<1> USE DEF ThreadInv
<1>1. /\ loop = "select" /\ loop' = "top"
      /\ UNCHANGED <<self, keep_running, m_read_list, m_timeout_map, command, confirm, app,
                     registered, firings, disk, happened, changes>>
  BY DEF selectFiles
<1>2. /\ modification_time' \in 0 .. MaxChanges + 2
      /\ inotify' \in Seq(EventType) /\ reported' \in Seq(Reasons)
  <2>1. CASE UNCHANGED <<inotify, modification_time, reported>>
    BY <2>1 DEF TypeInv
  <2>2. CASE handleInotify /\ inotify # <<>>
    <3>1. /\ inotify' = <<>> /\ modification_time' = modification_time
          /\ reported' = IF Head(inotify).file = "config"
                           THEN Append(reported, Head(inotify).reason) ELSE reported
      BY <2>2 DEF handleInotify, Notify
    <3>2. inotify \in Seq(EventType) /\ reported \in Seq(Reasons)
      BY DEF TypeInv
    <3>3. Head(inotify) \in EventType
      BY <2>2, <3>2, Take
    <3>4. Head(inotify).reason \in Reasons
      BY <3>3 DEF EventType
    <3>5. Append(reported, Head(inotify).reason) \in Seq(Reasons)
      BY <3>2, <3>4, Put
    <3>6. <<>> \in Seq(EventType)
      OBVIOUS
    <3> QED BY <3>1, <3>2, <3>5, <3>6 DEF TypeInv
  <2> QED BY <2>1, <2>2 DEF selectFiles
<1>3. TypeInv'
  BY <1>1, <1>2 DEF TypeInv
<1>4. PipeInv' /\ RunInv' /\ LivingInv'
  BY <1>1 DEF PipeInv, RunInv, Empty, LivingInv, Leaving
<1> QED BY <1>3, <1>4


LEMMA LoopStep ==
  ASSUME ThreadInv, selectTimeout \/ procEnds \/ NetReadable
  PROVE  ThreadInv' /\ UNCHANGED <<registered, inotify, happened, reported>>
<1> USE DEF ThreadInv
<1>1. /\ UNCHANGED <<self, keep_running, m_read_list, m_timeout_map, command, confirm, app,
                     registered, firings, disk, inotify, happened, changes,
                     modification_time, reported>>
      /\ \/ loop' = loop
         \/ loop = "select" /\ loop' = "top"
         \/ ~keep_running /\ loop' = "none"
  BY DEF selectTimeout, procEnds, NetReadable, FileState, Context
<1>2. TypeInv'
  BY <1>1 DEF TypeInv
<1>3. PipeInv' /\ RunInv' /\ LivingInv'
  BY <1>1 DEF PipeInv, RunInv, Empty, LivingInv, Leaving
<1> QED BY <1>1, <1>2, <1>3

LEMMA TimePassesStep ==
  ASSUME ThreadInv, TimePasses
  PROVE  ThreadInv' /\ UNCHANGED <<registered, inotify, happened, reported>>
<1> USE DEF ThreadInv
<1> DEFINE older(t) == [t EXCEPT !.left = IF @ = 0 THEN 0 ELSE @ - 1]
           f == [t \in m_timeout_map |-> older(t)]
<1>1. /\ m_timeout_map' = {older(t) : t \in m_timeout_map} /\ m_timeout_map # {}
      /\ UNCHANGED <<self, keep_running, m_read_list, loop, command, confirm, app,
                     registered, firings, disk, inotify, happened, changes,
                     modification_time, reported>>
  BY DEF TimePasses, FileState
<1>2. m_timeout_map \subseteq TimerType /\ IsFiniteSet(m_timeout_map)
  BY DEF TypeInv
<1>3. ASSUME NEW t \in m_timeout_map
      PROVE  older(t) \in TimerType /\ older(t).observer = t.observer
  BY <1>2 DEF TimerType
<1>4. f \in Surjection(m_timeout_map, m_timeout_map')
  BY <1>1 DEF Surjection
<1>5. IsFiniteSet(m_timeout_map')
  BY <1>2, <1>4, FS_Surjection
<1>6. /\ m_timeout_map' \subseteq TimerType
      /\ (\A t \in m_timeout_map : t.observer = "timer") =>
            \A t \in m_timeout_map' : t.observer = "timer"
  BY <1>1, <1>3
<1> HIDE DEF older, f
<1>7. TypeInv'
  BY <1>1, <1>5, <1>6 DEF TypeInv
<1>8. PipeInv' /\ RunInv'
  BY <1>1 DEF PipeInv, RunInv, Empty
<1>9. LivingInv'
  <2>1. Leaving' = Leaving
    BY <1>1 DEF Leaving
  <2> QED BY <1>1, <1>6, <2>1 DEF LivingInv
<1> QED BY <1>1, <1>7, <1>8, <1>9

(* The disk, and what inotify tells.                                       *)
LEMMA FileChangesStep ==
  ASSUME ThreadInv, NEW file \in Files, FileChanges(file)
  PROVE  ThreadInv'
<1> USE DEF ThreadInv
<1>1. /\ changes < MaxChanges /\ changes' = changes + 1
      /\ UNCHANGED <<self, keep_running, m_read_list, m_timeout_map, loop, command,
                     confirm, app, registered, firings, modification_time, reported>>
  BY DEF FileChanges, Context
<1>2. PICK reason \in Reasons :
        /\ disk' = IF file = "other" THEN disk
                   ELSE IF reason = "FileDisappeared" THEN 0 ELSE changes + 2
        /\ happened' = IF file = "config" /\ "monitor" \in registered
                         THEN Append(happened, reason) ELSE happened
        /\ inotify' = IF ~Watching THEN inotify
                      ELSE Append(inotify, [file |-> file, reason |-> reason])
  BY DEF FileChanges
<1>3. changes \in Nat /\ MaxChanges \in Nat
  BY CountAssumption DEF TypeInv
<1>4. changes' \in 0 .. MaxChanges /\ disk' \in 0 .. MaxChanges + 2
  BY <1>1, <1>2, <1>3 DEF TypeInv
<1>5. happened \in Seq(Reasons) /\ inotify \in Seq(EventType)
  BY DEF TypeInv
<1>6. [file |-> file, reason |-> reason] \in EventType
  BY DEF EventType
<1>7. /\ Append(happened, reason) \in Seq(Reasons)
      /\ Append(inotify, [file |-> file, reason |-> reason]) \in Seq(EventType)
  BY <1>5, <1>6, Put
<1>8. happened' \in Seq(Reasons) /\ inotify' \in Seq(EventType)
  BY <1>2, <1>5, <1>7
<1>9. TypeInv'
  BY <1>1, <1>4, <1>8 DEF TypeInv
<1>10. PipeInv' /\ RunInv' /\ LivingInv'
  BY <1>1 DEF PipeInv, RunInv, Empty, LivingInv, Leaving
<1> QED BY <1>9, <1>10

LEMMA ThreadStep ==
  ASSUME HaveInotify, ThreadInv, [Next]_vars
  PROVE  ThreadInv'
<1>1. CASE UNCHANGED vars
  <2>1. UNCHANGED <<self, keep_running, m_read_list, m_timeout_map, loop, command, confirm,
                    app, registered, firings, disk, inotify, happened, changes,
                    modification_time, reported>>
    BY <1>1 DEF vars
  <2>2. TypeInv'
    BY <2>1 DEF ThreadInv, TypeInv
  <2>3. PipeInv' /\ RunInv' /\ LivingInv'
    BY <2>1 DEF ThreadInv, PipeInv, RunInv, Empty, LivingInv, Leaving
  <2> QED BY <2>2, <2>3 DEF ThreadInv
<1>2. CASE Next
  BY <1>2, RegisterStep, UnregisterStep, RemoveReturnsStep, EndReturnsStep,
     handleTimeoutStep, selectCommandStep, selectFilesStep, LoopStep, FileChangesStep,
     TimePassesStep DEF Next, Returns, Thread
<1> QED BY <1>1, <1>2

-----------------------------------------------------------------------------
(* The theorems.                                                           *)

LEMMA ThreadInvSuffices ==
  ASSUME ThreadInv
  PROVE  EventTypeOK /\ CallsTheLiving /\ EndsUnused /\ OneAnswer
<1> USE DEF ThreadInv
<1>1. EventTypeOK
  <2>1. \A t \in m_timeout_map : t.observer \in {"monitor", "timer"}
    BY DEF LivingInv
  <2>2. \A i \in DOMAIN reported : reported[i] \in Reasons
    BY DEF TypeInv
  <2>3. m_read_list \subseteq Observers \ {"timer"}
    BY DEF TypeInv, Observers
  <2> QED BY <2>1, <2>2, <2>3 DEF EventTypeOK, TypeInv
<1>2. CallsTheLiving
  <2>1. \A obs \in m_read_list : obs \in registered \/ (app = "removing" /\ command # <<>>)
    BY DEF LivingInv, Leaving
  <2>2. \A t \in m_timeout_map : t.observer \in registered
    BY DEF LivingInv
  <2> QED BY <2>1, <2>2 DEF CallsTheLiving
<1>3. command \in Seq(TaskType) /\ Len(command) \in Nat /\ DOMAIN command = 1 .. Len(command)
  BY DEF TypeInv
<1>4. EndsUnused
  <2> SUFFICES ASSUME ~keep_running \/ app = "ending"
               PROVE  /\ m_read_list = {} /\ m_timeout_map = {}
                      /\ \A i \in DOMAIN command : command[i].op \notin {"addIO", "addTimer"}
    BY DEF EndsUnused
  <2>1. Empty /\ Len(command) <= 1
    BY <1>3 DEF RunInv
  <2>2. ASSUME NEW i \in 1 .. Len(command)
        PROVE  command[i].op \notin {"addIO", "addTimer"}
    <3>1. i = 1 /\ Len(command) = 1
      BY <1>3, <2>1
    <3>2. app = "ending"
      <4>1. command # <<>>
        BY <3>1
      <4> QED BY <4>1 DEF RunInv, TypeInv
    <3> QED BY <3>1, <3>2, <2>2 DEF PipeInv
  <2> QED BY <1>3, <2>1, <2>2 DEF Empty
<1>5. OneAnswer
  <2> DEFINE sent == {i \in DOMAIN command : command[i].how = "send"}
  <2>1. CASE app = "idle"
    <3>1. Len(confirm) = 0 /\ sent = {}
      BY <1>3, <2>1 DEF PipeInv
    <3> QED BY <2>1, <3>1, FS_EmptySet DEF OneAnswer
  <2>2. CASE app # "idle" /\ confirm = <<>>
    <3>1. Len(confirm) = 0 /\ command # <<>>
      BY <2>2 DEF PipeInv
    <3>2. Len(command) \in 1 .. Len(command)
      BY <1>3, <3>1
    <3>3. sent = {Len(command)}
      BY <1>3, <2>2, <3>2 DEF PipeInv
    <3>4. Cardinality(sent) = 1
      BY <3>3, FS_Singleton
    <3> HIDE DEF sent
    <3>5. Len(confirm) + Cardinality(sent) = 1
      BY <3>1, <3>4
    <3> QED BY <2>2, <3>5 DEF OneAnswer, sent
  <2>3. CASE app # "idle" /\ confirm # <<>>
    <3>1. Len(confirm) = 1 /\ command = <<>>
      BY <2>3 DEF PipeInv
    <3>2. sent = {}
      BY <3>1
    <3> QED BY <2>3, <3>1, <3>2, FS_EmptySet DEF OneAnswer
  <2> QED BY <2>1, <2>2, <2>3
<1> QED BY <1>1, <1>2, <1>4, <1>5

LEMMA ThreadInvariant ==
  ASSUME HaveInotify
  PROVE  Spec => []ThreadInv
<1>1. ThreadInv /\ [Next]_vars => ThreadInv'
  BY ThreadStep
<1> QED BY ThreadInit, <1>1, PTL DEF Spec

(* However calls, timers, files and the thread interleave: the thread      *)
(* calls observers that exist, ends only when nobody needs it, and each    *)
(* call that waits gets one answer, its own (unixEventProc, sendTask,      *)
(* checkForLast).                                                          *)
THEOREM EventThreadSafe ==
  ASSUME HaveInotify
  PROVE  Spec => [](EventTypeOK /\ CallsTheLiving /\ EndsUnused /\ OneAnswer)
BY ThreadInvariant, ThreadInvSuffices, PTL


(* Reports.                                                                *)

LEMMA PrefixOfAppend ==
  ASSUME NEW S, NEW s \in Seq(S), NEW x \in S
  PROVE  IsPrefix(s, s) /\ IsPrefix(s, Append(s, x))
<1>1. /\ Append(s, x) \in Seq(S) /\ Len(Append(s, x)) = Len(s) + 1 /\ Len(s) \in Nat
      /\ \A i \in 1 .. Len(s) : Append(s, x)[i] = s[i]
  BY Put
<1>2. SubSeq(s, 1, Len(s)) = SubSeq(Append(s, x), 1, Len(s))
  <2>1. /\ SubSeq(s, 1, Len(s)) \in Seq(S) /\ Len(SubSeq(s, 1, Len(s))) = Len(s)
        /\ \A i \in 1 .. Len(s) : SubSeq(s, 1, Len(s))[i] = s[i]
    OBVIOUS
  <2>2. /\ SubSeq(Append(s, x), 1, Len(s)) \in Seq(S)
        /\ Len(SubSeq(Append(s, x), 1, Len(s))) = Len(s)
        /\ \A i \in 1 .. Len(s) : SubSeq(Append(s, x), 1, Len(s))[i] = Append(s, x)[i]
    BY <1>1
  <2> QED BY <1>1, <2>1, <2>2, SeqEqual
<1> QED BY <1>1, <1>2 DEF IsPrefix

LEMMA ReportStep ==
  ASSUME HaveInotify, Spaced, ThreadInv, ReportInv, [Next]_vars
  PROVE  ReportInv'
<1> USE DEF ReportInv
<1>t. /\ inotify \in Seq(EventType) /\ happened \in Seq(Reasons) /\ reported \in Seq(Reasons)
  BY DEF ThreadInv, TypeInv
<1>1. CASE UNCHANGED <<registered, inotify, happened, reported>>
  BY <1>1
<1>2. ASSUME NEW obs \in Observers, Register(obs)
      PROVE  ReportInv'
  <2>1. CASE obs = "monitor"
    <3>1. inotify' = <<>> /\ happened' = <<>> /\ reported' = <<>>
      BY <1>2, <2>1 DEF Register
    <3> QED BY <3>1
  <2>2. CASE obs # "monitor"
    <3>1. /\ UNCHANGED <<inotify, happened, reported>>
          /\ registered' = registered \cup {obs}
      BY <1>2, <2>2 DEF Register
    <3>2. "monitor" \in registered' <=> "monitor" \in registered
      BY <2>2, <3>1
    <3> QED BY <3>1, <3>2
  <2> QED BY <2>1, <2>2
<1>3. ASSUME NEW obs \in Observers, Unregister(obs)
      PROVE  ReportInv'
  <2>1. /\ UNCHANGED <<happened, reported>> /\ registered' = registered \ {obs}
        /\ inotify' = IF obs = "monitor" THEN <<>> ELSE inotify
    BY <1>3 DEF Unregister
  <2>2. "monitor" \in registered' <=> "monitor" \in registered /\ obs # "monitor"
    BY <2>1
  <2> QED BY <2>1, <2>2
<1>4. CASE selectFiles
  <2>1. UNCHANGED <<registered, happened>>
    BY <1>4 DEF selectFiles
  <2>2. CASE UNCHANGED <<inotify, reported>>
    BY <2>1, <2>2
  <2>3. CASE handleInotify /\ inotify # <<>>
    <3>1. /\ inotify' = <<>>
          /\ reported' = IF Head(inotify).file = "config"
                           THEN Append(reported, Head(inotify).reason) ELSE reported
      BY <2>3 DEF handleInotify, Notify
    <3>2. Head(inotify) = inotify[1] /\ "monitor" \in registered
      BY <1>t, <2>3, Take
    <3> QED BY <2>1, <2>3, <3>1, <3>2
  <2> QED BY <1>4, <2>2, <2>3 DEF selectFiles
<1>5. ASSUME NEW file \in Files, FileChanges(file)
      PROVE  ReportInv'
  <2> DEFINE event(reason) == [file |-> file, reason |-> reason]
  <2>1. PICK reason \in Reasons :
        /\ happened' = IF file = "config" /\ "monitor" \in registered
                         THEN Append(happened, reason) ELSE happened
        /\ inotify' = IF ~Watching THEN inotify ELSE Append(inotify, event(reason))
    BY <1>5 DEF FileChanges
  <2>2. UNCHANGED <<registered, reported>> /\ inotify = <<>>
        /\ Len(reported) = Len(happened)
    BY <1>5 DEF FileChanges
  <2>3. CASE "monitor" \in registered
    <3>1. reported = happened
      BY <2>2, <2>3
    <3>2. inotify' = Append(inotify, event(reason))
      BY <2>1, <2>3 DEF Watching
    <3>3. event(reason) \in EventType /\ event(reason).file = file
          /\ event(reason).reason = reason
      BY DEF EventType
    <3>4. Len(inotify) = 0
      BY <2>2
    <3> HIDE DEF event
    <3>5. Len(inotify') = 1 /\ inotify'[1] = event(reason)
      BY <1>t, <3>2, <3>3, <3>4, Put
    <3>6. happened' = IF file = "config" THEN Append(happened, reason) ELSE happened
      BY <2>1, <2>3
    <3>7. happened' = IF inotify'[1].file = "config"
                        THEN Append(reported, inotify'[1].reason) ELSE reported
      BY <3>1, <3>3, <3>5, <3>6
    <3> QED BY <2>2, <2>3, <3>5, <3>7
  <2>4. CASE "monitor" \notin registered
    BY <2>1, <2>2, <2>4 DEF Watching
  <2> QED BY <2>3, <2>4
<1>6. CASE Returns
  BY <1>1, <1>6 DEF Returns, RemoveReturns, EndReturns, FileState
<1>7. CASE UNCHANGED vars
  BY <1>1, <1>7 DEF vars
<1> QED BY <1>1, <1>2, <1>3, <1>4, <1>5, <1>6, <1>7, handleTimeoutStep,
           selectCommandStep, LoopStep, TimePassesStep DEF Next, Thread

(* With inotify, and changes that are not faster than the thread, all of   *)
(* EventInv holds: also what the monitor's observer is told is what has    *)
(* happened, in that order (INotifyEventObserver::handleEvent).            *)
THEOREM EventSafe ==
  ASSUME HaveInotify, Spaced
  PROVE  Spec => []EventInv
<1>1. Init => ReportInv
  BY DEF Init, ReportInv
<1>2. ThreadInv /\ ReportInv /\ [Next]_vars => ReportInv'
  BY ReportStep
<1>3. ThreadInv /\ ReportInv => EventInv
  <2> SUFFICES ASSUME ThreadInv, ReportInv PROVE EventInv
    OBVIOUS
  <2>1. ReportsWhatHappened
    <3> SUFFICES ASSUME "monitor" \in registered PROVE IsPrefix(reported, happened)
      BY DEF ReportsWhatHappened
    <3>1. reported \in Seq(Reasons) /\ happened \in Seq(Reasons) /\ inotify \in Seq(EventType)
      BY DEF ThreadInv, TypeInv
    <3>2. CASE reported = happened
      <4>1. "FileModified" \in Reasons
        BY DEF Reasons
      <4>2. IsPrefix(reported, reported)
        BY <3>1, <4>1, PrefixOfAppend
      <4> QED BY <3>2, <4>2
    <3>3. CASE Len(inotify) = 1 /\ happened = Append(reported, inotify[1].reason)
      <4>1. inotify[1] \in EventType
        BY <3>1, <3>3, ElementOfSeq, 1 \in 1 .. Len(inotify)
      <4>2. inotify[1].reason \in Reasons
        BY <4>1 DEF EventType
      <4> QED BY <3>1, <3>3, <4>2, PrefixOfAppend
    <3> QED BY <3>2, <3>3 DEF ReportInv
  <2> QED BY <2>1, ThreadInvSuffices DEF EventInv
<1> QED BY ThreadInvariant, <1>1, <1>2, <1>3, PTL DEF Spec
==============================================================================
