-------------------------------- MODULE Trace -------------------------------
(***************************************************************************)
(* The tracing library's front end (hooklib/trace.cpp): application        *)
(* threads run into trace points while the event thread reloads the        *)
(* configuration and one of the threads may start the process's exit.      *)
(*                                                                         *)
(* Three mutexes protect the serializer, the output and the configuration; *)
(* the pointer m_configuration, the fields of a trace point and the        *)
(* filters of the trace point sets are also used without them.  A network  *)
(* output is written to by a task sent to the event thread (see            *)
(* NetworkOutput), the very thread that reloads.                           *)
(*                                                                         *)
(* A configuration is identified by its heap address, and a filter is the  *)
(* set of the trace points it accepts.                                     *)
(***************************************************************************)
EXTENDS Naturals, Sequences, FiniteSets

CONSTANTS
  Threads,              \* application threads
  TracePoints,          \* the static trace points of the program
  Addresses,            \* heap addresses a Configuration may get
  Files,                \* contents of the configuration file, see FilesAssumption
  NoFile,               \* what Configuration::fromFile makes of anything else
  Null,                 \* the null pointer
  ReusesAddresses,      \* the heap may hand out the address of a deleted object
  MaxReloads,           \* bound: modifications of the configuration file
  MaxVisits             \* bound: times the threads run into a trace point

Outputs == {"tcp", "file", "none"}

\* A file configures an output, one filter per trace point set, and the trace
\* points whose key is enabled; without trace keys these are all.
ASSUME FilesAssumption ==
  Files \subseteq [output : Outputs, filters : SUBSET SUBSET TracePoints,
                   keyed : SUBSET TracePoints]
ASSUME NullAssumption == Null \notin Addresses \cup Threads
ASSUME AddressAssumption == Cardinality(Addresses) >= Cardinality(TracePoints) + 2
ASSUME NoFileAssumption == NoFile \notin Files
ASSUME FlagAssumption == ReusesAddresses \in BOOLEAN
ASSUME BoundsAssumption == MaxReloads \in Nat /\ MaxVisits \in Nat

VARIABLES
  file,                 \* the configuration file now
  reloads, notified,    \* how often it was modified, and inotify has an event
  m_serializer,         \* there is a serializer
  m_output,             \* Null or the output: its kind and which reload made it
  m_tracePointSets,     \* the filters of the trace point sets
  m_configuration,      \* Null or the address of the current configuration
  mutex,                \* who holds each of the three mutexes
  tracePoint,           \* lastUsedConfiguration and active of each trace point
  pc, at,               \* of each thread: where it is, at which trace point
  using,                \* the output a thread found when it locked the mutex
  tasks,                \* the threads whose task is in the command pipe
  answered,             \* the threads whose answer is in the confirm pipe
  reload,               \* where the event thread is in reloadConfiguration
  cfg,                  \* what it has read, and its address
  exiting,              \* the thread in handleProcessShutdown
  visits

vars == <<file, reloads, notified, m_serializer, m_output, m_tracePointSets,
          m_configuration, mutex, tracePoint, pc, at, using, tasks, answered,
          reload, cfg, exiting, visits>>

Mutexes == {"serializer", "output", "configuration"}
EventThread == "event thread"

Locked(x, y) == mutex[x] = Null /\ mutex' = [mutex EXCEPT ![x] = y]
Unlocked(x) == mutex' = [mutex EXCEPT ![x] = Null]
Free(x) == mutex[x] = Null

NewOutput(f, n) ==
  IF f = NoFile THEN Null
  ELSE IF f.output = "none" THEN Null ELSE [kind |-> f.output, made |-> n]

\* m_tracePointSets when the trace keys have been added to the filters.
WithKeys(filters, keyed) == {s \cap keyed : s \in filters}

\* Trace::Trace has loaded the configuration; no other thread knew the object.
Init ==
  /\ file \in Files
  /\ reloads = 0 /\ notified = FALSE
  /\ m_serializer = TRUE
  /\ m_output = NewOutput(file, 0)
  /\ m_tracePointSets = WithKeys(file.filters, file.keyed)
  /\ m_configuration \in Addresses
  /\ mutex = [x \in Mutexes |-> Null]
  /\ tracePoint = [p \in TracePoints |-> [lastUsed |-> Null, active |-> FALSE]]
  /\ pc = [t \in Threads |-> "away"]
  /\ at = [t \in Threads |-> Null]
  /\ using = [t \in Threads |-> Null]
  /\ tasks = <<>> /\ answered = {}
  /\ reload = "idle"
  /\ cfg = [file |-> file, address |-> m_configuration]
  /\ exiting = Null
  /\ visits = 0

-----------------------------------------------------------------------------
(* A thread at a trace point: advanceVisit, configureTracePoint,           *)
(* visitTracePoint, addEntry.                                              *)

Settings == <<file, reloads, notified, m_serializer, m_output, m_tracePointSets,
              m_configuration>>
Reloading == <<reload, cfg>>

\* A thread goes on within the library, or leaves it.
Goto(t, label) ==
  /\ pc' = [pc EXCEPT ![t] = label]
  /\ at' = IF label \in {"away", "exited"} THEN [at EXCEPT ![t] = Null] ELSE at
Away(t) == IF exiting = t THEN "exited" ELSE "away"

\* What the current trace point sets say of a trace point.
Accepted(p) == m_tracePointSets = {} \/ \E s \in m_tracePointSets : p \in s

\* advanceVisit, its first test.
Advance(t, p) ==
  /\ pc[t] = "away"
  /\ visits < MaxVisits
  /\ visits' = visits + 1
  /\ at' = [at EXCEPT ![t] = p]
  /\ pc' = [pc EXCEPT ![t] = IF tracePoint[p].lastUsed # m_configuration
                               THEN "configure" ELSE "check"]
  /\ UNCHANGED <<mutex, tracePoint, using, tasks, answered, exiting>>
  /\ UNCHANGED Settings /\ UNCHANGED Reloading

\* configureTracePoint up to the loop over the sets.
Configure(t) ==
  /\ pc[t] = "configure"
  /\ Locked("configuration", t)
  /\ tracePoint' = [tracePoint EXCEPT ![at[t]] =
       [lastUsed |-> m_configuration, active |-> m_tracePointSets = {}]]
  /\ Goto(t, "match")
  /\ UNCHANGED <<using, tasks, answered, exiting, visits>>
  /\ UNCHANGED Settings /\ UNCHANGED Reloading

\* The loop over the sets, and the end of the lock.
Match(t) ==
  /\ pc[t] = "match"
  /\ tracePoint' = [tracePoint EXCEPT ![at[t]].active = Accepted(at[t])]
  /\ Unlocked("configuration")
  /\ Goto(t, "check")
  /\ UNCHANGED <<using, tasks, answered, exiting, visits>>
  /\ UNCHANGED Settings /\ UNCHANGED Reloading

\* advanceVisit, its result.
Check(t) ==
  /\ pc[t] = "check"
  /\ Goto(t, IF tracePoint[at[t]].active /\ m_serializer /\ m_output # Null
               THEN "visit" ELSE "away")
  /\ UNCHANGED <<mutex, tracePoint, using, tasks, answered, exiting, visits>>
  /\ UNCHANGED Settings /\ UNCHANGED Reloading

\* visitTracePoint: can the output be written to?  (If not, the connection
\* failed or the file cannot be opened.)
Visit(t) ==
  /\ pc[t] = "visit"
  /\ Free("output")
  /\ \/ m_output # Null /\ Goto(t, "serialize")
     \/ Goto(t, "away")
  /\ UNCHANGED <<mutex, tracePoint, using, tasks, answered, exiting, visits>>
  /\ UNCHANGED Settings /\ UNCHANGED Reloading

\* addEntry and handleProcessShutdown: serialize under the first mutex.
Serialize(t) ==
  /\ pc[t] = "serialize"
  /\ Free("serializer")
  /\ Goto(t, IF m_serializer THEN "lock" ELSE Away(t))
  /\ UNCHANGED <<mutex, tracePoint, using, tasks, answered, exiting, visits>>
  /\ UNCHANGED Settings /\ UNCHANGED Reloading

\* ... and write under the second.
LockOutput(t) ==
  /\ pc[t] = "lock"
  /\ \/ /\ m_output # Null
        /\ Locked("output", t)
        /\ using' = [using EXCEPT ![t] = m_output]
        /\ Goto(t, "write")
     \/ /\ Free("output")
        /\ Goto(t, Away(t))
        /\ UNCHANGED <<mutex, using>>
  /\ UNCHANGED <<tracePoint, tasks, answered, exiting, visits>>
  /\ UNCHANGED Settings /\ UNCHANGED Reloading

\* A network output's write: the mutex is held while the event thread answers.
SendTask(t) ==
  /\ pc[t] \in {"write", "delete"}
  /\ using[t].kind = "tcp"
  /\ tasks' = Append(tasks, t)
  /\ Goto(t, IF pc[t] = "write" THEN "written" ELSE "deleted")
  /\ UNCHANGED <<mutex, tracePoint, using, answered, exiting, visits>>
  /\ UNCHANGED Settings /\ UNCHANGED Reloading

\* Any other output writes and closes itself.
WriteDirectly(t) ==
  /\ pc[t] \in {"write", "delete"}
  /\ using[t].kind # "tcp"
  /\ answered' = answered \cup {t}
  /\ Goto(t, IF pc[t] = "write" THEN "written" ELSE "deleted")
  /\ UNCHANGED <<mutex, tracePoint, using, tasks, exiting, visits>>
  /\ UNCHANGED Settings /\ UNCHANGED Reloading

\* Mutant: a path that leaves the mutex locked.
WrittenKeepsMutex(t) ==
  /\ pc[t] = "written"
  /\ t \in answered
  /\ answered' = answered \ {t}
  /\ Goto(t, IF exiting = t THEN "delete" ELSE "away")
  /\ UNCHANGED <<mutex, using, tracePoint, tasks, exiting, visits>>
  /\ UNCHANGED Settings /\ UNCHANGED Reloading

\* The entry is written: the mutex is released, or handleProcessShutdown goes
\* on to delete the output.
Written(t) ==
  /\ pc[t] = "written"
  /\ t \in answered
  /\ answered' = answered \ {t}
  /\ IF exiting = t
       THEN Goto(t, "delete") /\ UNCHANGED <<mutex, using>>
       ELSE /\ Goto(t, "away")
            /\ Unlocked("output")
            /\ using' = [using EXCEPT ![t] = Null]
  /\ UNCHANGED <<tracePoint, tasks, exiting, visits>>
  /\ UNCHANGED Settings /\ UNCHANGED Reloading

-----------------------------------------------------------------------------
(* handleProcessShutdown, called through atexit.                           *)

Exit(t) ==
  /\ exiting = Null
  /\ pc[t] = "away"
  /\ exiting' = t
  /\ Goto(t, "serialize")
  /\ UNCHANGED <<mutex, tracePoint, using, tasks, answered, visits>>
  /\ UNCHANGED Settings /\ UNCHANGED Reloading

\* The output has flushed its buffers and is gone.
Deleted(t) ==
  /\ pc[t] = "deleted"
  /\ t \in answered
  /\ answered' = answered \ {t}
  /\ m_output' = Null
  /\ Unlocked("output")
  /\ using' = [using EXCEPT ![t] = Null]
  /\ Goto(t, "exited")
  /\ UNCHANGED <<file, reloads, notified, m_serializer, m_tracePointSets, m_configuration,
                 tracePoint, tasks, exiting, visits>>
  /\ UNCHANGED Reloading

-----------------------------------------------------------------------------
(* The event thread: tasks, and reloadConfiguration.                       *)

ThreadState == <<tracePoint, pc, at, using, exiting, visits>>

ModifyFile ==
  /\ reloads < MaxReloads
  /\ reloads' = reloads + 1
  /\ file' \in Files \cup {NoFile}
  /\ notified' = TRUE
  /\ UNCHANGED <<m_serializer, m_output, m_tracePointSets, m_configuration,
                 mutex, tasks, answered>>
  /\ UNCHANGED Reloading /\ UNCHANGED ThreadState

\* A task is executed and its sender answered.
ExecuteTask ==
  /\ reload = "idle"
  /\ tasks # <<>>
  /\ tasks' = Tail(tasks)
  /\ answered' = answered \cup {Head(tasks)}
  /\ UNCHANGED mutex /\ UNCHANGED Settings /\ UNCHANGED Reloading
  /\ UNCHANGED ThreadState

\* The addresses of the objects the heap may hand out: not the current one,
\* which still exists.
FreeAddresses ==
  Addresses \ ({m_configuration}
                \cup (IF ReusesAddresses THEN {}
                      ELSE {tracePoint[p].lastUsed : p \in TracePoints}))

\* handleFileModification: Configuration::fromFile makes a new object.
ReadFile ==
  /\ reload = "idle"
  /\ notified
  /\ notified' = FALSE
  /\ \E a \in FreeAddresses :
       cfg' = [file |-> file, address |-> IF file = NoFile THEN Null ELSE a]
  /\ reload' = "serializer"
  /\ UNCHANGED <<file, reloads, m_serializer, m_output, m_tracePointSets,
                 m_configuration, mutex, tasks, answered>>
  /\ UNCHANGED ThreadState

SetSerializer ==
  /\ reload = "serializer"
  /\ Free("serializer")
  /\ m_serializer' = (cfg.file # NoFile)
  /\ reload' = "output"
  /\ UNCHANGED <<file, reloads, notified, m_output, m_tracePointSets, m_configuration,
                 mutex, tasks, answered, cfg>> /\ UNCHANGED ThreadState

\* Mutant: setOutput without its MutexLocker.
SetOutputUnlocked ==
  /\ reload = "output"
  /\ m_output' = NewOutput(cfg.file, reloads)
  /\ reload' = "configuration"
  /\ UNCHANGED <<file, reloads, notified, m_serializer, m_tracePointSets,
                 m_configuration, mutex, tasks, answered, cfg>>
  /\ UNCHANGED ThreadState

\* The old output is deleted; its close() runs in this very thread.
SetOutput ==
  /\ reload = "output"
  /\ Free("output")
  /\ m_output' = NewOutput(cfg.file, reloads)
  /\ reload' = "configuration"
  /\ UNCHANGED <<file, reloads, notified, m_serializer, m_tracePointSets, m_configuration,
                 mutex, tasks, answered, cfg>> /\ UNCHANGED ThreadState

\* Mutant: the pointer the trace points are compared with is not renewed.
SetConfigurationKeepsPointer ==
  /\ reload = "configuration"
  /\ Free("configuration")
  /\ m_tracePointSets' = IF cfg.file = NoFile THEN {} ELSE cfg.file.filters
  /\ reload' = IF cfg.file = NoFile THEN "idle" ELSE "storage"
  /\ UNCHANGED <<file, reloads, notified, m_serializer, m_output,
                 m_configuration, mutex, tasks, answered, cfg>>
  /\ UNCHANGED ThreadState

SetConfiguration ==
  /\ reload = "configuration"
  /\ Free("configuration")
  /\ m_tracePointSets' = IF cfg.file = NoFile THEN {} ELSE cfg.file.filters
  /\ m_configuration' = cfg.address
  /\ reload' = IF cfg.file = NoFile THEN "idle" ELSE "storage"
  /\ UNCHANGED <<file, reloads, notified, m_serializer, m_output, mutex, tasks, answered,
                 cfg>> /\ UNCHANGED ThreadState

\* setStorageConfiguration, under the serializer's mutex.
SetStorage ==
  /\ reload = "storage"
  /\ Free("serializer")
  /\ reload' = "keys"
  /\ UNCHANGED <<mutex, tasks, answered, cfg>> /\ UNCHANGED Settings
  /\ UNCHANGED ThreadState

\* The trace keys become part of the filters, under no mutex.
AddTraceKeys ==
  /\ reload = "keys"
  /\ m_tracePointSets' = WithKeys(m_tracePointSets, cfg.file.keyed)
  /\ reload' = "idle"
  /\ UNCHANGED <<file, reloads, notified, m_serializer, m_output, m_configuration, mutex,
                 tasks, answered, cfg>> /\ UNCHANGED ThreadState

ThreadStep(t) ==
  \/ Configure(t) \/ Match(t) \/ Check(t)
  \/ Visit(t) \/ Serialize(t) \/ LockOutput(t)
  \/ SendTask(t) \/ WriteDirectly(t) \/ Written(t) \/ Deleted(t)

EventThreadStep ==
  \/ ExecuteTask
  \/ ReadFile \/ SetSerializer \/ SetOutput
  \/ SetConfiguration \/ SetStorage \/ AddTraceKeys

Next ==
  \/ \E t \in Threads :
       \/ \E p \in TracePoints : Advance(t, p)
       \/ Exit(t)
       \/ ThreadStep(t)
  \/ ModifyFile
  \/ EventThreadStep

\* A thread that can run does.  Nobody is starved of a mutex: the visits are
\* finitely many.
Fairness == WF_vars(EventThreadStep) /\ \A t \in Threads : WF_vars(ThreadStep(t))

Spec == Init /\ [][Next]_vars /\ Fairness

-----------------------------------------------------------------------------
(* Properties.                                                             *)

\* The variables are of their types.
TraceTypeOK ==
  /\ file \in Files \cup {NoFile}
  /\ reloads \in 0..MaxReloads /\ notified \in BOOLEAN
  /\ m_serializer \in BOOLEAN
  /\ m_output \in {Null} \cup [kind : {"tcp", "file"}, made : 0..MaxReloads]
  /\ m_tracePointSets \in SUBSET SUBSET TracePoints
  /\ m_configuration \in Addresses \cup {Null}
  /\ mutex \in [Mutexes -> Threads \cup {Null}]
  /\ tracePoint \in [TracePoints -> [lastUsed : Addresses \cup {Null},
                                    active : BOOLEAN]]
  /\ pc \in [Threads -> {"away", "configure", "match", "check", "visit",
                          "serialize", "lock", "write", "written", "delete",
                          "deleted", "exited"}]
  /\ at \in [Threads -> TracePoints \cup {Null}]
  /\ using \in [Threads -> {Null} \cup [kind : {"tcp", "file"}, made : 0..MaxReloads]]
  /\ tasks \in Seq(Threads) /\ answered \subseteq Threads
  /\ reload \in {"idle", "serializer", "output", "configuration", "storage", "keys"}
  /\ cfg \in [file : Files \cup {NoFile}, address : Addresses \cup {Null}]
  /\ exiting \in Threads \cup {Null}
  /\ visits \in 0..MaxVisits

\* The cached decision of a trace point is the one the configuration in force
\* would make: whenever the trace point says it was last configured by the
\* current configuration (and no thread is configuring it), it is active just
\* when that configuration's trace point sets accept it.  advanceVisit relies
\* on it each time it does not call configureTracePoint.
DecisionMatches ==
  \A p \in TracePoints :
    /\ m_configuration # Null
    /\ tracePoint[p].lastUsed = m_configuration
    /\ reload # "keys"
    /\ \A t \in Threads : pc[t] = "match" => at[t] # p
    => tracePoint[p].active = Accepted(p)

\* An output that a thread found under the mutex and writes to, or deletes, is
\* still the current output: no reload deletes it under the thread's feet, and
\* no two threads use it at a time.
NoUseAfterDelete ==
  \A t \in Threads :
    pc[t] \in {"write", "written", "delete", "deleted"}
      => using[t] = m_output /\ mutex["output"] = t

\* The output is used under its mutex and by one thread, for which the types of
\* all that a thread remembers between two steps are needed.
OutputInv == TraceTypeOK /\ NoUseAfterDelete

\* A thread holds the output's mutex and waits for the event thread, which
\* waits for the mutex to install another output.
Deadlocked ==
  /\ reload = "output"
  /\ \E t \in Threads : pc[t] \in {"written", "deleted"} /\ mutex["output"] = t /\ t \notin answered

\* Only that stops the program: a thread that ran into a trace point, or into
\* handleProcessShutdown, gets out of the library again.
VisitsReturn ==
  \A t \in Threads : pc[t] # "away" ~> pc[t] \in {"away", "exited"} \/ Deadlocked

\* handleProcessShutdown gets as far as deleting the output "to make sure it
\* flushes any data which it might have buffered", or finds nothing to flush.
ShutdownFlushes ==
  \A t \in Threads : exiting = t ~> pc[t] = "exited"
=============================================================================
