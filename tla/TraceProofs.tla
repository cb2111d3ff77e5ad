----------------------------- MODULE TraceProofs ----------------------------
(***************************************************************************)
(* Proofs about Trace for any number of threads, trace points, files and   *)
(* modifications of the configuration file.                                *)
(***************************************************************************)
EXTENDS Trace, TLAPS

(* The output Trace::reloadConfiguration makes of a file is one with a     *)
(* kind, or none.                                                          *)
LEMMA NewOutputType ==
  ASSUME NEW f \in Files \cup {NoFile}, NEW n \in 0 .. MaxReloads
  PROVE  NewOutput(f, n) \in {Null} \cup [kind : {"tcp", "file"}, made : 0 .. MaxReloads]
BY FilesAssumption, NoFileAssumption DEF NewOutput, Outputs

LEMMA TypeInit == Init => TraceTypeOK
<1> SUFFICES ASSUME Init PROVE TraceTypeOK
  OBVIOUS
<1> USE DEF Init
<1>1. /\ file \in Files /\ 0 \in 0 .. MaxReloads /\ 0 \in 0 .. MaxVisits
  BY BoundsAssumption
<1>2. m_output \in {Null} \cup [kind : {"tcp", "file"}, made : 0 .. MaxReloads]
  BY <1>1, NewOutputType
<1>3. m_tracePointSets \in SUBSET SUBSET TracePoints
  BY <1>1, FilesAssumption DEF WithKeys
<1>4. /\ mutex \in [Mutexes -> Threads \cup {Null}]
      /\ tracePoint \in [TracePoints -> [lastUsed : Addresses \cup {Null}, active : BOOLEAN]]
      /\ at \in [Threads -> TracePoints \cup {Null}]
  OBVIOUS
<1>5. /\ tasks \in Seq(Threads)
      /\ cfg \in [file : Files \cup {NoFile}, address : Addresses \cup {Null}]
  BY <1>1
<1> QED BY <1>1, <1>2, <1>3, <1>4, <1>5 DEF TraceTypeOK

LEMMA TypeStep == TraceTypeOK /\ [Next]_vars => TraceTypeOK'
<1> SUFFICES ASSUME TraceTypeOK, [Next]_vars PROVE TraceTypeOK'
  OBVIOUS
<1> USE DEF TraceTypeOK, Settings, Reloading, ThreadState
<1>1. ASSUME NEW t \in Threads, NEW p \in TracePoints, Advance(t, p)
      PROVE  TraceTypeOK'
  <2>1. visits' \in 0 .. MaxVisits
    BY <1>1, BoundsAssumption DEF Advance
  <2> QED BY <1>1, <2>1 DEF Advance
<1>2. ASSUME NEW t \in Threads, Configure(t) PROVE TraceTypeOK'
  <2>1. tracePoint' \in [TracePoints -> [lastUsed : Addresses \cup {Null}, active : BOOLEAN]]
    BY <1>2 DEF Configure
  <2> QED BY <1>2, <2>1 DEF Configure, Goto, Locked, Mutexes
<1>3. ASSUME NEW t \in Threads, Match(t) PROVE TraceTypeOK'
  <2>1. Accepted(at[t]) \in BOOLEAN
    BY DEF Accepted
  <2>2. tracePoint' \in [TracePoints -> [lastUsed : Addresses \cup {Null}, active : BOOLEAN]]
    BY <1>3, <2>1 DEF Match
  <2> QED BY <1>3, <2>2 DEF Match, Goto, Unlocked, Mutexes
<1>4. ASSUME NEW t \in Threads, Check(t) PROVE TraceTypeOK'
  BY <1>4 DEF Check, Goto
<1>5. ASSUME NEW t \in Threads, Visit(t) PROVE TraceTypeOK'
  BY <1>5 DEF Visit, Goto
<1>6. ASSUME NEW t \in Threads, Serialize(t) PROVE TraceTypeOK'
  BY <1>6 DEF Serialize, Goto, Away
<1>7. ASSUME NEW t \in Threads, LockOutput(t) PROVE TraceTypeOK'
  BY <1>7 DEF LockOutput, Goto, Away, Locked, Mutexes
<1>8. ASSUME NEW t \in Threads, SendTask(t) PROVE TraceTypeOK'
  BY <1>8 DEF SendTask, Goto
<1>9. ASSUME NEW t \in Threads, WriteDirectly(t) PROVE TraceTypeOK'
  BY <1>9 DEF WriteDirectly, Goto
<1>10. ASSUME NEW t \in Threads, Written(t) PROVE TraceTypeOK'
  <2>1. /\ pc' \in [Threads -> {"away", "configure", "match", "check", "visit", "serialize",
                                 "lock", "write", "written", "delete", "deleted", "exited"}]
        /\ at' \in [Threads -> TracePoints \cup {Null}]
    BY <1>10 DEF Written, Goto
  <2>2. /\ mutex' \in [Mutexes -> Threads \cup {Null}]
        /\ using' \in [Threads -> {Null} \cup [kind : {"tcp", "file"}, made : 0 .. MaxReloads]]
    BY <1>10 DEF Written, Unlocked, Mutexes
  <2> QED BY <1>10, <2>1, <2>2 DEF Written
<1>11. ASSUME NEW t \in Threads, Exit(t) PROVE TraceTypeOK'
  BY <1>11 DEF Exit, Goto
<1>12. ASSUME NEW t \in Threads, Deleted(t) PROVE TraceTypeOK'
  BY <1>12 DEF Deleted, Goto, Unlocked, Mutexes
<1>13. CASE ModifyFile
  <2>1. reloads' \in 0 .. MaxReloads
    BY <1>13, BoundsAssumption DEF ModifyFile
  <2>2. m_output' = m_output /\ using' = using
    BY <1>13 DEF ModifyFile
  <2> QED BY <1>13, <2>1, <2>2 DEF ModifyFile
<1>14. CASE ExecuteTask
  BY <1>14 DEF ExecuteTask
<1>15. CASE ReadFile
  <2>1. FreeAddresses \subseteq Addresses
    BY DEF FreeAddresses
  <2>2. cfg' \in [file : Files \cup {NoFile}, address : Addresses \cup {Null}]
    BY <1>15, <2>1 DEF ReadFile
  <2> QED BY <1>15, <2>2 DEF ReadFile
<1>16. CASE SetSerializer
  BY <1>16 DEF SetSerializer
<1>17. CASE SetOutput
  <2>1. m_output' \in {Null} \cup [kind : {"tcp", "file"}, made : 0 .. MaxReloads]
    BY <1>17, NewOutputType DEF SetOutput
  <2> QED BY <1>17, <2>1 DEF SetOutput
<1>18. CASE SetConfiguration
  <2>1. m_tracePointSets' \in SUBSET SUBSET TracePoints
    BY <1>18, FilesAssumption DEF SetConfiguration
  <2> QED BY <1>18, <2>1 DEF SetConfiguration
<1>19. CASE SetStorage
  BY <1>19 DEF SetStorage
<1>20. CASE AddTraceKeys
  <2>1. m_tracePointSets' \in SUBSET SUBSET TracePoints
    BY <1>20 DEF AddTraceKeys, WithKeys
  <2> QED BY <1>20, <2>1 DEF AddTraceKeys
<1>21. CASE UNCHANGED vars
  BY <1>21 DEF vars
<1> QED BY <1>1, <1>2, <1>3, <1>4, <1>5, <1>6, <1>7, <1>8, <1>9, <1>10, <1>11,
           <1>12, <1>13, <1>14, <1>15, <1>16, <1>17, <1>18, <1>19, <1>20, <1>21
        DEF Next, ThreadStep, EventThreadStep

(* For any number of threads, trace points, files and reloads the fields   *)
(* of the trace object, of the trace points and of the reload in progress  *)
(* stay within their types: in particular no output of an unknown kind     *)
(* comes from a file.                                                      *)
THEOREM TraceTyped == Spec => []TraceTypeOK
BY TypeInit, TypeStep, PTL DEF Spec

-----------------------------------------------------------------------------
(* The output is used under its mutex.                                     *)

LEMMA OutputStep == TraceTypeOK /\ NoUseAfterDelete /\ [Next]_vars => NoUseAfterDelete'
<1> SUFFICES ASSUME TraceTypeOK, NoUseAfterDelete, [Next]_vars,
                    NEW u \in Threads,
                    pc'[u] \in {"write", "written", "delete", "deleted"}
             PROVE  using'[u] = m_output' /\ mutex'["output"] = u
  BY DEF NoUseAfterDelete
<1> DEFINE Goal == using'[u] = m_output' /\ mutex'["output"] = u
<1>0. /\ pc[u] \in {"write", "written", "delete", "deleted"}
           => using[u] = m_output /\ mutex["output"] = u
      /\ u # Null
  BY NullAssumption DEF NoUseAfterDelete
<1>t. /\ mutex \in [Mutexes -> Threads \cup {Null}]
      /\ using \in [Threads -> {Null} \cup [kind : {"tcp", "file"}, made : 0 .. MaxReloads]]
      /\ pc \in [Threads -> {"away", "configure", "match", "check", "visit", "serialize",
                             "lock", "write", "written", "delete", "deleted", "exited"}]
  BY DEF TraceTypeOK
<1>1. ASSUME NEW t \in Threads, NEW p \in TracePoints, Advance(t, p) PROVE Goal
  BY <1>0, <1>t, <1>1 DEF Advance, Settings
<1>2. ASSUME NEW t \in Threads, Configure(t) PROVE Goal
  BY <1>0, <1>t, <1>2 DEF Configure, Goto, Locked, Mutexes, Settings
<1>3. ASSUME NEW t \in Threads, Match(t) PROVE Goal
  BY <1>0, <1>t, <1>3 DEF Match, Goto, Unlocked, Mutexes, Settings
<1>4. ASSUME NEW t \in Threads, Check(t) PROVE Goal
  BY <1>0, <1>t, <1>4 DEF Check, Goto, Settings
<1>5. ASSUME NEW t \in Threads, Visit(t) PROVE Goal
  BY <1>0, <1>t, <1>5 DEF Visit, Goto, Settings
<1>6. ASSUME NEW t \in Threads, Serialize(t) PROVE Goal
  BY <1>0, <1>t, <1>6 DEF Serialize, Goto, Away, Settings
<1>7. ASSUME NEW t \in Threads, LockOutput(t) PROVE Goal
  <2>1. m_output' = m_output
    BY <1>7 DEF LockOutput, Settings
  <2>2. CASE u = t
    BY <2>1, <2>2, <1>0, <1>t, <1>7 DEF LockOutput, Goto, Away, Locked, Mutexes
  <2>3. CASE u # t
    <3>1. pc'[u] = pc[u]
      BY <2>3, <1>t, <1>7 DEF LockOutput, Goto
    <3>2. mutex["output"] = Null
      BY <1>7 DEF LockOutput, Locked, Free
    <3> QED BY <3>1, <3>2, <1>0
  <2> QED BY <2>2, <2>3
<1>8. ASSUME NEW t \in Threads, SendTask(t) PROVE Goal
  BY <1>0, <1>t, <1>8 DEF SendTask, Goto, Settings
<1>9. ASSUME NEW t \in Threads, WriteDirectly(t) PROVE Goal
  BY <1>0, <1>t, <1>9 DEF WriteDirectly, Goto, Settings
<1>10. ASSUME NEW t \in Threads, Written(t) PROVE Goal
  <2>1. m_output' = m_output /\ pc[t] = "written" /\ mutex["output"] = t
    BY <1>10 DEF Written, Settings, NoUseAfterDelete
  <2>2. CASE u = t
    <3>1. exiting = t
      BY <2>2, <1>t, <1>10 DEF Written, Goto
    <3> QED BY <3>1, <2>1, <2>2, <1>0, <1>10 DEF Written
  <2>3. CASE u # t
    <3>1. pc'[u] = pc[u]
      BY <2>3, <1>t, <1>10 DEF Written, Goto
    <3> QED BY <3>1, <2>1, <2>3, <1>0
  <2> QED BY <2>2, <2>3
<1>11. ASSUME NEW t \in Threads, Exit(t) PROVE Goal
  BY <1>0, <1>t, <1>11 DEF Exit, Goto, Settings
<1>12. ASSUME NEW t \in Threads, Deleted(t) PROVE Goal
  <2>1. pc[t] = "deleted" /\ mutex["output"] = t
    BY <1>12 DEF Deleted, NoUseAfterDelete
  <2>2. u # t /\ pc'[u] = pc[u]
    BY <1>t, <1>12 DEF Deleted, Goto
  <2> QED BY <2>1, <2>2, <1>0
<1>13. CASE ModifyFile
  BY <1>0, <1>13 DEF ModifyFile, ThreadState
<1>14. CASE ExecuteTask
  BY <1>0, <1>14 DEF ExecuteTask, ThreadState, Settings
<1>15. CASE ReadFile
  BY <1>0, <1>15 DEF ReadFile, ThreadState
<1>16. CASE SetSerializer
  BY <1>0, <1>16 DEF SetSerializer, ThreadState
<1>17. CASE SetOutput
  <2>1. pc'[u] = pc[u] /\ mutex["output"] = Null
    BY <1>17 DEF SetOutput, ThreadState, Free
  <2> QED BY <2>1, <1>0
<1>18. CASE SetConfiguration
  BY <1>0, <1>18 DEF SetConfiguration, ThreadState
<1>19. CASE SetStorage
  BY <1>0, <1>19 DEF SetStorage, ThreadState, Settings
<1>20. CASE AddTraceKeys
  BY <1>0, <1>20 DEF AddTraceKeys, ThreadState
<1>21. CASE UNCHANGED vars
  BY <1>0, <1>21 DEF vars
<1> QED BY <1>1, <1>2, <1>3, <1>4, <1>5, <1>6, <1>7, <1>8, <1>9, <1>10, <1>11,
           <1>12, <1>13, <1>14, <1>15, <1>16, <1>17, <1>18, <1>19, <1>20, <1>21
        DEF Next, ThreadStep, EventThreadStep

(* For any number of threads and reloads, whatever the interleaving, an    *)
(* output is not deleted by a reload or by the exiting thread while an     *)
(* application thread writes to it.                                        *)
THEOREM TraceOutputSafe == Spec => []OutputInv
<1>1. Init => OutputInv
  BY TypeInit DEF Init, OutputInv, NoUseAfterDelete
<1>2. OutputInv /\ [Next]_vars => OutputInv'
  BY TypeStep, OutputStep DEF OutputInv
<1> QED BY <1>1, <1>2, PTL DEF Spec

-----------------------------------------------------------------------------
(* The cached decisions.                                                   *)

(* The inductive invariant behind DecisionMatches.  The address of the     *)
(* configuration being loaded is not yet known to any trace point, so that *)
(* installing it invalidates every decision at once; and, while the trace  *)
(* keys are about to be added, the decisions are those they will be.       *)
AddressIsFresh ==
  reload \in {"serializer", "output", "configuration"} /\ cfg.address # Null
    => /\ cfg.address # m_configuration
       /\ \A p \in TracePoints : tracePoint[p].lastUsed # cfg.address

FileIsRead == reload \in {"storage", "keys"} => cfg.file \in Files

Configuring(p) == \E t \in Threads : pc[t] = "match" /\ at[t] = p

CachedDecisions ==
  \A p \in TracePoints :
    m_configuration # Null /\ tracePoint[p].lastUsed = m_configuration
      /\ ~Configuring(p)
    => tracePoint[p].active = Accepted(p)

DecisionInv == AddressIsFresh /\ FileIsRead /\ CachedDecisions

(* The assumptions of TraceDecisions: no file restricts the trace keys, and *)
(* the heap does not reuse addresses that trace points still have.          *)
NoTraceKeys == \A f \in Files : f.keyed = TracePoints

(* Adding every trace point's key to the filters changes none of them.     *)
LEMMA WithAllKeys ==
  ASSUME NEW F \in SUBSET SUBSET TracePoints
  PROVE  WithKeys(F, TracePoints) = F
BY DEF WithKeys

LEMMA DecisionInit == Init => DecisionInv
<1> SUFFICES ASSUME Init PROVE DecisionInv
  OBVIOUS
<1>1. reload = "idle" /\ m_configuration # Null
  BY NullAssumption DEF Init
<1>2. \A p \in TracePoints : tracePoint[p].lastUsed = Null
  BY DEF Init
<1> QED BY <1>1, <1>2 DEF DecisionInv, AddressIsFresh, FileIsRead, CachedDecisions

LEMMA DecisionStep ==
  ASSUME NoTraceKeys, ~ReusesAddresses
  PROVE  TraceTypeOK /\ DecisionInv /\ [Next]_vars => DecisionInv'
<1> SUFFICES ASSUME TraceTypeOK, DecisionInv, [Next]_vars PROVE DecisionInv'
  OBVIOUS
<1> USE DEF DecisionInv
<1>t. /\ tracePoint \in [TracePoints -> [lastUsed : Addresses \cup {Null}, active : BOOLEAN]]
      /\ at \in [Threads -> TracePoints \cup {Null}]
      /\ pc \in [Threads -> {"away", "configure", "match", "check", "visit", "serialize",
                             "lock", "write", "written", "delete", "deleted", "exited"}]
      /\ cfg \in [file : Files \cup {NoFile}, address : Addresses \cup {Null}]
      /\ m_tracePointSets \in SUBSET SUBSET TracePoints
  BY DEF TraceTypeOK
(* A step that touches neither the configuration nor a decision, and after *)
(* which no fewer trace points are being configured.                       *)
<1>f. ASSUME UNCHANGED <<m_configuration, m_tracePointSets, tracePoint, reload, cfg>>,
             \A p \in TracePoints : Configuring(p) => Configuring(p)'
      PROVE  DecisionInv'
  BY <1>f DEF AddressIsFresh, FileIsRead, CachedDecisions, Accepted
(* A thread that does not take part in configuring a trace point.          *)
<1>g. ASSUME NEW t \in Threads, pc[t] # "match",
             \A u \in Threads \ {t} : pc'[u] = pc[u] /\ at'[u] = at[u]
      PROVE  \A p \in TracePoints : Configuring(p) => Configuring(p)'
  BY <1>g DEF Configuring
<1>1. ASSUME NEW t \in Threads, NEW p \in TracePoints, Advance(t, p)
      PROVE  DecisionInv'
  BY <1>t, <1>f, <1>g, <1>1 DEF Advance, Settings, Reloading
<1>2. ASSUME NEW t \in Threads, Configure(t) PROVE DecisionInv'
  <2>1. UNCHANGED <<m_configuration, m_tracePointSets, reload, cfg, at>>
    BY <1>2 DEF Configure, Goto, Settings, Reloading
  <2>2. /\ pc[t] = "configure" /\ pc'[t] = "match"
        /\ \A u \in Threads \ {t} : pc'[u] = pc[u]
    BY <1>t, <1>2 DEF Configure, Goto
  <2>3. \A p \in TracePoints :
          /\ p = at[t] => tracePoint'[p].lastUsed = m_configuration
          /\ p # at[t] => tracePoint'[p] = tracePoint[p]
    BY <1>t, <1>2 DEF Configure
  <2>4. AddressIsFresh'
    <3>1. \A p \in TracePoints :
            tracePoint'[p].lastUsed \in {m_configuration, tracePoint[p].lastUsed}
      BY <2>3
    <3> QED BY <2>1, <3>1 DEF AddressIsFresh
  <2>5. CachedDecisions'
    <3> SUFFICES ASSUME NEW p \in TracePoints, ~Configuring(p)',
                        m_configuration # Null,
                        tracePoint'[p].lastUsed = m_configuration
                 PROVE  tracePoint'[p].active = Accepted(p)
      BY <2>1 DEF CachedDecisions, Accepted
    <3>1. p # at[t]
      BY <2>1, <2>2 DEF Configuring
    <3>2. ~Configuring(p)
      BY <2>1, <2>2 DEF Configuring
    <3> QED BY <2>3, <3>1, <3>2 DEF CachedDecisions
  <2> QED BY <2>1, <2>4, <2>5 DEF FileIsRead
<1>3. ASSUME NEW t \in Threads, Match(t) PROVE DecisionInv'
  <2>1. UNCHANGED <<m_configuration, m_tracePointSets, reload, cfg, at>>
    BY <1>3 DEF Match, Goto, Settings, Reloading
  <2>2. /\ pc[t] = "match"
        /\ \A u \in Threads \ {t} : pc'[u] = pc[u]
    BY <1>t, <1>3 DEF Match, Goto
  <2>3. \A p \in TracePoints :
          /\ tracePoint'[p].lastUsed = tracePoint[p].lastUsed
          /\ tracePoint'[p].active = IF p = at[t] THEN Accepted(p) ELSE tracePoint[p].active
    BY <1>t, <1>3 DEF Match
  <2>4. AddressIsFresh'
    BY <2>1, <2>3 DEF AddressIsFresh
  <2>5. CachedDecisions'
    <3> SUFFICES ASSUME NEW p \in TracePoints, ~Configuring(p)',
                        m_configuration # Null,
                        tracePoint[p].lastUsed = m_configuration, p # at[t]
                 PROVE  tracePoint[p].active = Accepted(p)
      BY <2>1, <2>3 DEF CachedDecisions, Accepted
    <3>1. ~Configuring(p)
      BY <2>1, <2>2 DEF Configuring
    <3> QED BY <3>1 DEF CachedDecisions
  <2> QED BY <2>1, <2>4, <2>5 DEF FileIsRead
<1>4. ASSUME NEW t \in Threads, Check(t) PROVE DecisionInv'
  BY <1>t, <1>f, <1>g, <1>4 DEF Check, Goto, Settings, Reloading
<1>5. ASSUME NEW t \in Threads, Visit(t) PROVE DecisionInv'
  BY <1>t, <1>f, <1>g, <1>5 DEF Visit, Goto, Settings, Reloading
<1>6. ASSUME NEW t \in Threads, Serialize(t) PROVE DecisionInv'
  BY <1>t, <1>f, <1>g, <1>6 DEF Serialize, Goto, Settings, Reloading
<1>7. ASSUME NEW t \in Threads, LockOutput(t) PROVE DecisionInv'
  BY <1>t, <1>f, <1>g, <1>7 DEF LockOutput, Goto, Settings, Reloading
<1>8. ASSUME NEW t \in Threads, SendTask(t) PROVE DecisionInv'
  BY <1>t, <1>f, <1>g, <1>8 DEF SendTask, Goto, Settings, Reloading
<1>9. ASSUME NEW t \in Threads, WriteDirectly(t) PROVE DecisionInv'
  BY <1>t, <1>f, <1>g, <1>9 DEF WriteDirectly, Goto, Settings, Reloading
<1>10. ASSUME NEW t \in Threads, Written(t) PROVE DecisionInv'
  <2>1. UNCHANGED <<m_configuration, m_tracePointSets, tracePoint, reload, cfg>>
    BY <1>10 DEF Written, Settings, Reloading
  <2>2. pc[t] # "match" /\ \A u \in Threads \ {t} : pc'[u] = pc[u] /\ at'[u] = at[u]
    BY <1>t, <1>10 DEF Written, Goto
  <2> QED BY <2>1, <2>2, <1>f, <1>g
<1>11. ASSUME NEW t \in Threads, Exit(t) PROVE DecisionInv'
  BY <1>t, <1>f, <1>g, <1>11 DEF Exit, Goto, Settings, Reloading
<1>12. ASSUME NEW t \in Threads, Deleted(t) PROVE DecisionInv'
  BY <1>t, <1>f, <1>g, <1>12 DEF Deleted, Goto, Reloading
<1>13. CASE ModifyFile
  BY <1>f, <1>13 DEF ModifyFile, ThreadState, Reloading, Configuring
<1>14. CASE ExecuteTask
  BY <1>f, <1>14 DEF ExecuteTask, ThreadState, Settings, Reloading, Configuring
<1>15. CASE ReadFile
  <2>1. UNCHANGED <<m_configuration, m_tracePointSets, tracePoint, pc, at>>
    BY <1>15 DEF ReadFile, ThreadState
  <2>2. cfg'.address = Null \/ cfg'.address \in FreeAddresses
    BY <1>15 DEF ReadFile
  <2>3. AddressIsFresh'
    BY <2>1, <2>2 DEF AddressIsFresh, FreeAddresses
  <2>4. reload' = "serializer"
    BY <1>15 DEF ReadFile
  <2> QED BY <2>1, <2>3, <2>4 DEF FileIsRead, CachedDecisions, Configuring, Accepted
<1>16. CASE SetSerializer
  BY <1>16 DEF SetSerializer, ThreadState, AddressIsFresh, FileIsRead, CachedDecisions,
               Configuring, Accepted
<1>17. CASE SetOutput
  BY <1>17 DEF SetOutput, ThreadState, AddressIsFresh, FileIsRead, CachedDecisions,
               Configuring, Accepted
<1>18. CASE SetConfiguration
  <2>1. /\ reload = "configuration" /\ m_configuration' = cfg.address
        /\ cfg' = cfg /\ tracePoint' = tracePoint
        /\ reload' = IF cfg.file = NoFile THEN "idle" ELSE "storage"
    BY <1>18 DEF SetConfiguration, ThreadState
  <2>2. CachedDecisions'
    BY <2>1 DEF AddressIsFresh, CachedDecisions
  <2> QED BY <1>t, <2>1, <2>2 DEF AddressIsFresh, FileIsRead
<1>19. CASE SetStorage
  BY <1>19 DEF SetStorage, ThreadState, Settings, AddressIsFresh, FileIsRead,
               CachedDecisions, Configuring, Accepted
<1>20. CASE AddTraceKeys
  <2>1. /\ reload' = "idle"
        /\ UNCHANGED <<m_configuration, tracePoint, pc, at>>
    BY <1>20 DEF AddTraceKeys, ThreadState
  <2>2. cfg.file.keyed = TracePoints
    BY <1>20 DEF AddTraceKeys, FileIsRead, NoTraceKeys
  <2>3. m_tracePointSets' = m_tracePointSets
    BY <1>t, <1>20, <2>2, WithAllKeys DEF AddTraceKeys
  <2> QED BY <2>1, <2>3 DEF AddressIsFresh, FileIsRead, CachedDecisions, Configuring, Accepted
<1>21. CASE UNCHANGED vars
  BY <1>f, <1>21 DEF vars, Configuring
<1> QED BY <1>1, <1>2, <1>3, <1>4, <1>5, <1>6, <1>7, <1>8, <1>9, <1>10, <1>11,
           <1>12, <1>13, <1>14, <1>15, <1>16, <1>17, <1>18, <1>19, <1>20, <1>21
        DEF Next, ThreadStep, EventThreadStep

(* If no file restricts the trace keys, and no configuration is created    *)
(* where a deleted one was that some trace point still knows, then what a  *)
(* trace point remembers is what the current configuration would decide,   *)
(* for any number of threads, trace points and reloads.                    *)
THEOREM TraceDecisions ==
  ASSUME NoTraceKeys, ~ReusesAddresses
  PROVE  Spec => []DecisionMatches
<1>1. DecisionInv => DecisionMatches
  BY DEF DecisionInv, CachedDecisions, Configuring, DecisionMatches
<1>2. TraceTypeOK /\ DecisionInv /\ [Next]_vars => DecisionInv'
  BY DecisionStep
<1> QED BY <1>1, <1>2, DecisionInit, TypeInit, TypeStep, PTL DEF Spec
=============================================================================
