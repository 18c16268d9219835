------------------------- MODULE RunLifecycleProofs -------------------------
(***************************************************************************)
(* TLAPS proofs about RunLifecycle, for every set of runs, clients and     *)
(* disturbances, and any capacity of the semaphore.                        *)
(***************************************************************************)
EXTENDS RunLifecycle, FiniteSetTheorems, TLAPS

(* TypeOK but for the bounds of the semaphore, which need a count; a busy
   client names a run, and an execution that is to be finalized knows how. *)
Typing ==
    /\ repo \in [Runs -> Record]
    /\ pc \in [Executions -> Holding \cup {"absent", "waiting", "done", "lost"}]
    /\ copy \in [Executions -> Record]
    /\ outcome \in [Executions -> Terminal \cup {"none"}]
    /\ timer \in [Executions -> {"none", "armed", "applying", "spent", "failed"}]
    /\ slots \in Int
    /\ activeRuns \in [Runs -> Executions \cup {Nobody}]
    /\ cancelled \subseteq Executions
    /\ watching \subseteq Executions
    /\ refused \subseteq Executions
    /\ submitted \subseteq Executions
    /\ client \in [Clients -> [op : {"none", "approve", "abort", "share"},
                               stage : {"idle", "revert", "cancel", "get", "update"},
                               run : Runs \cup {Nobody}, copy : Record,
                               cancel : Executions \cup {Nobody}]]
    /\ \A c \in Clients : client[c].stage # "idle" => client[c].run \in Runs
    /\ \A e \in Executions : pc[e] \in {"finishing", "finalizing"} => outcome[e] \in Terminal
    /\ calls \in 0..MaxCalls
    /\ up \in BOOLEAN
    /\ inForce \in Executions \cup {Nobody}
    /\ guard \in {"off", "armed", "lost"}
    /\ currentFault \in Executions \cup {Nobody}

LEMMA RunOfExecution == \A e \in Executions : RunOf(e) \in Runs
  BY DEF Executions, RunOf

LEMMA RecordTypes ==
    /\ NoRecord \in Record
    /\ \A rec \in Record, s \in Status : [rec EXCEPT !.status = s] \in Record
  BY DEF Record, NoRecord, Status

LEMMA IdleTypes ==
    Idle \in [op : {"none", "approve", "abort", "share"},
              stage : {"idle", "revert", "cancel", "get", "update"},
              run : Runs \cup {Nobody}, copy : Record, cancel : Executions \cup {Nobody}]
  BY RecordTypes DEF Idle

LEMMA InitTyping == Init => Typing
<1> SUFFICES ASSUME Init PROVE Typing
  OBVIOUS
<1>1. 0 \in 0..MaxCalls
  BY LifecycleConstants DEF LifecycleConstants
<1>2. client \in [Clients -> [op : {"none", "approve", "abort", "share"},
                               stage : {"idle", "revert", "cancel", "get", "update"},
                               run : Runs \cup {Nobody}, copy : Record,
                               cancel : Executions \cup {Nobody}]]
  BY IdleTypes DEF Init
<1>3. \A c \in Clients : client[c].stage = "idle"
  BY DEF Init, Idle
<1>4. repo \in [Runs -> Record] /\ copy \in [Executions -> Record]
  BY RecordTypes DEF Init
<1>5. inForce = Nobody /\ guard = "off" /\ currentFault = Nobody
  BY DEF Init, ChaosDriver!Init
<1>6. outcome \in [Executions -> Terminal \cup {"none"}]
  BY DEF Init
<1> QED
  BY <1>1, <1>2, <1>3, <1>4, <1>5, <1>6 DEF Init, Typing

(* What Put and TryPut do to the repository. *)
LEMMA PutTypes ==
    ASSUME Typing, NEW r \in Runs, NEW rec \in Record
    PROVE  /\ Put(r, rec) => repo' \in [Runs -> Record]
           /\ TryPut(r, rec) => repo' \in [Runs -> Record]
  BY DEF Typing, Put, TryPut

LEMMA SpawnTypes ==
    ASSUME Typing, NEW r \in Runs, Spawn(r)
    PROVE  /\ pc' \in [Executions -> Holding \cup {"absent", "waiting", "done", "lost"}]
           /\ \A x \in Executions : pc'[x] \in {pc[x], "waiting"}
  BY DEF Typing, Spawn

DriverTypes ==
    /\ inForce \in Executions \cup {Nobody}
    /\ guard \in {"off", "armed", "lost"}
    /\ currentFault \in Executions \cup {Nobody}

LEMMA RevertTypes ==
    ASSUME Typing, Revert
    PROVE  DriverTypes'
  BY DEF Typing, DriverTypes, Revert, RevertSucceeds, RevertFails, StopWatchdog,
         ChaosDriver!Withdraw, ChaosDriver!LoseGuard

LEMMA ApplyTypes ==
    ASSUME Typing, NEW e \in Executions, ApplySucceeds(e) \/ ApplyFails(e), currentFault' = e
    PROVE  /\ DriverTypes'
           /\ watching' \subseteq Executions
           /\ timer' \in [Executions -> {"none", "armed", "applying", "spent", "failed"}]
<1>1. CASE ApplySucceeds(e)
  BY <1>1 DEF Typing, DriverTypes, ApplySucceeds, ChaosDriver!Inject
<1>2. CASE ApplyFails(e)
  <2>1. DriverTypes'
    BY <1>2 DEF Typing, DriverTypes, ApplyFails, StopWatchdog, ChaosDriver!Withdraw,
               ChaosDriver!LoseGuard
  <2> QED
    BY <1>2, <2>1 DEF Typing, ApplyFails
<1> QED
  BY <1>1, <1>2

LEMMA TypingStep == Typing /\ [Next]_vars => Typing'
<1> SUFFICES ASSUME Typing, [Next]_vars PROVE Typing'
  OBVIOUS
<1> USE DEF execution, driver, chaos, api, At, Goto, Discard
<1>1. ASSUME NEW r \in Runs, StartRun(r) PROVE Typing'
  <2>1. repo' \in [Runs -> Record]
    <3> DEFINE s == IF r \in Guarded THEN "awaiting_approval" ELSE "queued"
    <3>1. s \in Status
      BY DEF Status
    <3>2. [NoRecord EXCEPT !.status = s] \in Record
      BY <3>1, RecordTypes
    <3> QED
      BY <1>1, <3>2, PutTypes DEF StartRun
  <2>2. /\ pc' \in [Executions -> Holding \cup {"absent", "waiting", "done", "lost"}]
        /\ \A x \in Executions : pc'[x] \in {pc[x], "waiting"}
    BY <1>1, SpawnTypes DEF StartRun, Typing
  <2> QED
    BY <1>1, <2>1, <2>2 DEF StartRun, Typing
<1>2. ASSUME NEW e \in Executions, AcquireSlot(e) PROVE Typing'
  BY <1>2 DEF AcquireSlot, Typing, Holding, Registered
<1>26. ASSUME NEW e \in Executions, RegisterCancel(e) PROVE Typing'
  BY <1>26, RunOfExecution DEF RegisterCancel, Typing, Holding, Registered
<1>3. ASSUME NEW e \in Executions, ResolveScenario(e) PROVE Typing'
  BY <1>3, RunOfExecution DEF ResolveScenario, Typing, Holding, Registered, Terminal
<1>4. ASSUME NEW e \in Executions, AttachScenario(e) PROVE Typing'
  <2>1. repo' \in [Runs -> Record]
    BY <1>4, RunOfExecution, PutTypes DEF AttachScenario, Typing
  <2> QED
    BY <1>4, <2>1, RecordTypes DEF AttachScenario, Typing, Holding, Registered
<1>5. ASSUME NEW e \in Executions,
             GetRecord(e, "starting", "marking") \/ GetRecord(e, "finishing", "finalizing")
      PROVE Typing'
  BY <1>5, RunOfExecution DEF GetRecord, Typing, Holding, Registered
<1>6. ASSUME NEW e \in Executions, MarkRunning(e) PROVE Typing'
  <2>1. [copy[e] EXCEPT !.status = "running"] \in Record
    BY RecordTypes DEF Typing, Status
  <2>2. repo' \in [Runs -> Record]
    BY <1>6, <2>1, RunOfExecution, PutTypes DEF MarkRunning
  <2> QED
    BY <1>6, <2>2, RecordTypes DEF MarkRunning, Typing, Holding, Registered
<1>7. ASSUME NEW e \in Executions, StartEngine(e) PROVE Typing'
  BY <1>7 DEF StartEngine, Typing, Holding, Registered, Terminal
<1>8. ASSUME NEW e \in Executions, EngineReturns(e) PROVE Typing'
  BY <1>8 DEF EngineReturns, Typing, Holding, Registered, Terminal
<1>9. ASSUME NEW e \in Executions, FinalizeRun(e) PROVE Typing'
  <2>1. FinalRecord(e) \in Record
    <3>1. copy[e] \in Record /\ outcome[e] \in Status
      BY <1>9 DEF FinalizeRun, Typing, Status, Terminal
    <3> QED
      BY <3>1 DEF FinalRecord, Record
  <2>2. repo' \in [Runs -> Record]
    BY <1>9, <2>1, RunOfExecution, PutTypes DEF FinalizeRun
  <2> QED
    BY <1>9, <2>2, RecordTypes DEF FinalizeRun, Typing, Holding, Registered
<1>10. ASSUME NEW e \in Executions, SubmitBenchmark(e) PROVE Typing'
  BY <1>10 DEF SubmitBenchmark, Typing, Holding, Registered
<1>11. ASSUME NEW e \in Executions, CleanUp(e) PROVE Typing'
  <2>1. DriverTypes'
    BY <1>11, RevertTypes DEF CleanUp, Typing, DriverTypes
  <2>2. timer' \in [Executions -> {"none", "armed", "applying", "spent", "failed"}]
    BY <1>11 DEF CleanUp, Typing
  <2>3. /\ pc' \in [Executions -> Holding \cup {"absent", "waiting", "done", "lost"}]
        /\ \A x \in Executions :
               pc'[x] \in {"finishing", "finalizing"} => outcome'[x] \in Terminal
    BY <1>11 DEF CleanUp, Typing, Holding, Registered
  <2> QED
    BY <1>11, <2>1, <2>2, <2>3 DEF CleanUp, Typing, DriverTypes
<1>27. ASSUME NEW e \in Executions, Deregister(e) PROVE Typing'
  BY <1>27 DEF Deregister, Typing, Holding, Registered
<1>28. ASSUME NEW e \in Executions, ReleaseSlot(e) PROVE Typing'
  BY <1>28 DEF ReleaseSlot, Typing
<1>12. ASSUME NEW e \in Executions, TimerFires(e) PROVE Typing'
  BY <1>12 DEF TimerFires, Typing
<1>13. ASSUME NEW e \in Executions, TimerApplies(e) PROVE Typing'
  BY <1>13, ApplyTypes DEF TimerApplies, Typing, DriverTypes
<1>14. ASSUME NEW e \in Executions, MonitorFires(e) PROVE Typing'
  <2>1. DriverTypes' /\ refused' \subseteq Executions
    BY <1>14, RevertTypes DEF MonitorFires, Revert, Typing, DriverTypes
  <2> QED
    BY <1>14, <2>1 DEF MonitorFires, Typing, DriverTypes
<1>15. CASE WatchdogFires
  BY <1>15, RevertTypes DEF WatchdogFires, Typing, DriverTypes
<1>16. ASSUME NEW c \in Clients, NEW r \in Runs,
              ApproveGets(c, r) \/ AbortLooksUp(c, r) \/ ShareGets(c, r)
       PROVE Typing'
  <2>1. PICK op \in {"approve", "abort", "share"}, stage \in {"revert", "update"},
             rec \in Record, cancel \in Executions \cup {Nobody} :
             Begins(c, op, r, stage, rec, cancel)
    BY <1>16, RecordTypes DEF ApproveGets, AbortLooksUp, ShareGets, Typing
  <2>2. calls' \in 0..MaxCalls
    BY <2>1, LifecycleConstants DEF Begins, Typing, LifecycleConstants
  <2> QED
    BY <1>16, <2>1, <2>2 DEF ApproveGets, AbortLooksUp, ShareGets, Begins, Typing
<1>17. ASSUME NEW c \in Clients, ApproveUpdates(c) PROVE Typing'
  <2>1. client[c].run \in Runs
    BY <1>17 DEF ApproveUpdates, Serving, Typing
  <2>2. [client[c].copy EXCEPT !.status = "queued", !.approved = TRUE] \in Record
    <3>1. client[c].copy \in Record /\ "queued" \in Status
      BY DEF Typing, Status
    <3> QED
      BY <3>1 DEF Record
  <2>3. repo' \in [Runs -> Record]
    BY <1>17, <2>1, <2>2, PutTypes DEF ApproveUpdates, Typing
  <2>4. /\ pc' \in [Executions -> Holding \cup {"absent", "waiting", "done", "lost"}]
        /\ \A x \in Executions : pc'[x] \in {pc[x], "waiting"}
    BY <1>17, <2>1, SpawnTypes DEF ApproveUpdates, Typing
  <2> QED
    BY <1>17, <2>3, <2>4, IdleTypes DEF ApproveUpdates, Becomes, Typing, Idle
<1>18. ASSUME NEW c \in Clients, AbortReverts(c) PROVE Typing'
  <2>1. DriverTypes'
    BY <1>18, RevertTypes DEF AbortReverts
  <2> QED
    BY <1>18, <2>1 DEF AbortReverts, Serving, Becomes, Typing, DriverTypes
<1>19. ASSUME NEW c \in Clients, AbortCancels(c) PROVE Typing'
  BY <1>19 DEF AbortCancels, Serving, Becomes, Typing
<1>20. ASSUME NEW c \in Clients, AbortGets(c) PROVE Typing'
  <2>1. client[c].run \in Runs
    BY <1>20 DEF AbortGets, Serving, Typing
  <2> QED
    BY <1>20, <2>1, IdleTypes, ZenonT(30) DEF AbortGets, Serving, Becomes, Typing, Idle
<1>21. ASSUME NEW c \in Clients, AbortUpdates(c) PROVE Typing'
  <2>1. client[c].run \in Runs
    BY <1>21 DEF AbortUpdates, Serving, Typing
  <2>2. [client[c].copy EXCEPT !.status = "aborted"] \in Record
    <3>1. client[c].copy \in Record /\ "aborted" \in Status
      BY DEF Typing, Status
    <3> QED
      BY <3>1, RecordTypes
  <2>3. repo' \in [Runs -> Record]
    BY <1>21, <2>1, <2>2, PutTypes DEF AbortUpdates
  <2> QED
    BY <1>21, <2>3, IdleTypes DEF AbortUpdates, Becomes, Typing, Idle
<1>22. ASSUME NEW c \in Clients, ShareUpdates(c) PROVE Typing'
  <2>1. client[c].run \in Runs
    BY <1>22 DEF ShareUpdates, Serving, Typing
  <2>2. [client[c].copy EXCEPT !.share = c] \in Record
    BY DEF Typing, Record
  <2>3. repo' \in [Runs -> Record]
    BY <1>22, <2>1, <2>2, PutTypes DEF ShareUpdates, Typing
  <2> QED
    BY <1>22, <2>1, <2>3, IdleTypes DEF ShareUpdates, Becomes, Typing, Idle
<1>23. CASE Stop
  <2>1. /\ pc' \in [Executions -> Holding \cup {"absent", "waiting", "done", "lost"}]
        /\ \A x \in Executions : pc'[x] \in {"absent", "done", "lost"}
    BY <1>23 DEF Stop, Typing
  <2>2. /\ client' \in [Clients -> [op : {"none", "approve", "abort", "share"},
                                   stage : {"idle", "revert", "cancel", "get", "update"},
                                   run : Runs \cup {Nobody}, copy : Record,
                                   cancel : Executions \cup {Nobody}]]
        /\ \A c \in Clients : client'[c].stage = "idle"
    BY <1>23, IdleTypes DEF Stop, Idle
  <2>3. copy' \in [Executions -> Record]
    BY <1>23, RecordTypes DEF Stop
  <2>4. /\ timer' \in [Executions -> {"none", "armed", "applying", "spent", "failed"}]
        /\ activeRuns' \in [Runs -> Executions \cup {Nobody}]
    BY <1>23 DEF Stop
  <2>5. slots' = 0 /\ ~up'
    BY <1>23 DEF Stop
  <2>6. /\ cancelled' = {} /\ watching' = {} /\ refused' = {} /\ submitted' = {}
        /\ inForce' = Nobody /\ guard' = "off" /\ currentFault' = Nobody
        /\ UNCHANGED <<repo, outcome, calls>>
    BY <1>23 DEF Stop
  <2>7. /\ \A c \in Clients : client'[c].stage # "idle" => client'[c].run \in Runs
        /\ \A x \in Executions :
               pc'[x] \in {"finishing", "finalizing"} => outcome'[x] \in Terminal
    BY <2>1, <2>2
  <2>8. /\ repo' \in [Runs -> Record]
        /\ outcome' \in [Executions -> Terminal \cup {"none"}]
        /\ calls' \in 0..MaxCalls
    BY <2>6 DEF Typing
  <2>9. slots' \in Int /\ up' \in BOOLEAN
    <3>1. slots' \in Int
      BY <2>5
    <3>2. up' \in BOOLEAN
      BY <1>23 DEF Stop
    <3> QED
      BY <3>1, <3>2
  <2>10. /\ cancelled' \subseteq Executions /\ watching' \subseteq Executions
         /\ refused' \subseteq Executions /\ submitted' \subseteq Executions
         /\ inForce' \in Executions \cup {Nobody} /\ guard' \in {"off", "armed", "lost"}
         /\ currentFault' \in Executions \cup {Nobody}
    BY <2>6
  <2> QED
    BY <2>1, <2>2, <2>3, <2>4, <2>7, <2>8, <2>9, <2>10 DEF Typing
<1>24. CASE Restart
  BY <1>24 DEF Restart, Typing
<1>25. CASE UNCHANGED vars
  BY <1>25 DEF Typing, vars
<1> QED
  BY <1>1, <1>2, <1>3, <1>4, <1>5, <1>6, <1>7, <1>8, <1>9, <1>10, <1>11, <1>12, <1>13,
     <1>14, <1>15, <1>16, <1>17, <1>18, <1>19, <1>20, <1>21, <1>22, <1>23, <1>24, <1>25,
     <1>26, <1>27, <1>28
     DEF Next, ExecuteRun, Handle

-----------------------------------------------------------------------------
(* The semaphore.                                                          *)

Holders == {e \in Executions : pc[e] \in Holding}

SlotCount == slots = Cardinality(Holders) /\ slots <= MaxRuns

LEMMA FiniteHolders == IsFiniteSet(Executions) /\ IsFiniteSet(Holders)
<1>1. IsFiniteSet(1..MaxStarts)
  BY FS_Interval, LifecycleConstants DEF LifecycleConstants
<1>2. IsFiniteSet(Executions)
  BY <1>1, FS_Product, LifecycleConstants DEF LifecycleConstants, Executions
<1> QED
  BY <1>2, FS_Subset DEF Holders

(* Within Holding, and outside it, a step changes nothing. *)
LEMMA HoldersKept ==
    ASSUME \A e \in Executions : (pc'[e] \in Holding) <=> (pc[e] \in Holding)
    PROVE  Holders' = Holders
  BY DEF Holders

LEMMA SlotCountStep == Typing /\ SlotCount /\ [Next]_vars => SlotCount'
<1> SUFFICES ASSUME Typing, SlotCount, [Next]_vars PROVE SlotCount'
  OBVIOUS
<1> USE DEF execution, driver, chaos, api, At, Goto
<1>1. ASSUME UNCHANGED slots, Holders' = Holders PROVE SlotCount'
  BY <1>1 DEF SlotCount
<1>2. ASSUME UNCHANGED <<pc, slots>> PROVE SlotCount'
  <2>1. Holders' = Holders
    BY <1>2, HoldersKept
  <2> QED
    BY <1>1, <1>2, <2>1
<1>3. ASSUME NEW r \in Runs, Spawn(r), UNCHANGED slots PROVE SlotCount'
  <2>1. Holders' = Holders
    BY <1>3, HoldersKept DEF Spawn, Holding, Registered, Typing
  <2> QED
    BY <1>1, <1>3, <2>1
<1>4. ASSUME NEW e \in Executions, AcquireSlot(e) PROVE SlotCount'
  <2>1. Holders' = Holders \cup {e} /\ e \notin Holders
    BY <1>4 DEF AcquireSlot, Holders, Holding, Registered, Typing
  <2>2. Cardinality(Holders') = Cardinality(Holders) + 1
    BY <2>1, FiniteHolders, FS_AddElement
  <2>3. slots' = slots + 1 /\ slots < MaxRuns
    BY <1>4 DEF AcquireSlot
  <2> QED
    BY <2>2, <2>3, LifecycleConstants DEF SlotCount, Typing, LifecycleConstants
<1>5. ASSUME NEW e \in Executions, ReleaseSlot(e) PROVE SlotCount'
  <2>1. Holders' = Holders \ {e} /\ e \in Holders
    BY <1>5 DEF ReleaseSlot, Holders, Holding, Registered, Typing
  <2>2. Cardinality(Holders') = Cardinality(Holders) - 1
    BY <2>1, FiniteHolders, FS_RemoveElement
  <2>3. slots' = slots - 1
    BY <1>5 DEF ReleaseSlot
  <2> QED
    BY <2>2, <2>3, LifecycleConstants DEF SlotCount, Typing, LifecycleConstants
<1>6. ASSUME NEW e \in Executions,
             \/ ResolveScenario(e) \/ AttachScenario(e) \/ MarkRunning(e) \/ StartEngine(e)
             \/ EngineReturns(e) \/ FinalizeRun(e) \/ SubmitBenchmark(e)
             \/ RegisterCancel(e) \/ CleanUp(e) \/ Deregister(e)
             \/ GetRecord(e, "starting", "marking") \/ GetRecord(e, "finishing", "finalizing")
      PROVE SlotCount'
  <2>1. /\ pc[e] \in Holding
        /\ \E label \in Holding : pc' = [pc EXCEPT ![e] = label]
    BY <1>6 DEF ResolveScenario, AttachScenario, MarkRunning, StartEngine, EngineReturns,
                FinalizeRun, SubmitBenchmark, RegisterCancel, CleanUp, Deregister, GetRecord,
                Holding, Registered
  <2>2. Holders' = Holders
    BY <2>1, HoldersKept DEF Typing
  <2>3. UNCHANGED slots
    BY <1>6 DEF ResolveScenario, AttachScenario, MarkRunning, StartEngine, EngineReturns,
                FinalizeRun, SubmitBenchmark, RegisterCancel, CleanUp, Deregister, GetRecord
  <2> QED
    BY <1>1, <2>2, <2>3
<1>7. ASSUME NEW r \in Runs, StartRun(r) PROVE SlotCount'
  BY <1>2, <1>3, <1>7 DEF StartRun
<1>8. ASSUME NEW c \in Clients, ApproveUpdates(c) PROVE SlotCount'
  <2>1. client[c].run \in Runs
    BY <1>8 DEF ApproveUpdates, Serving, Typing
  <2> QED
    BY <1>2, <1>3, <1>8, <2>1 DEF ApproveUpdates
<1>9. ASSUME NEW e \in Executions, TimerFires(e) \/ TimerApplies(e) \/ MonitorFires(e)
      PROVE SlotCount'
  BY <1>2, <1>9 DEF TimerFires, TimerApplies, MonitorFires
<1>10. CASE WatchdogFires \/ Restart \/ UNCHANGED vars
  BY <1>2, <1>10 DEF WatchdogFires, Restart, vars
<1>11. ASSUME NEW c \in Clients, NEW r \in Runs,
              ApproveGets(c, r) \/ AbortLooksUp(c, r) \/ ShareGets(c, r)
       PROVE SlotCount'
  BY <1>2, <1>11 DEF ApproveGets, AbortLooksUp, ShareGets
<1>12. ASSUME NEW c \in Clients,
              AbortReverts(c) \/ AbortCancels(c) \/ AbortGets(c) \/ AbortUpdates(c) \/ ShareUpdates(c)
       PROVE SlotCount'
  BY <1>2, <1>12 DEF AbortReverts, AbortCancels, AbortGets, AbortUpdates, ShareUpdates
<1>13. CASE Stop
  <2>1. Holders' = {}
    BY <1>13 DEF Stop, Holders, Holding, Registered
  <2>2. slots' = 0
    BY <1>13 DEF Stop
  <2> QED
    BY <2>1, <2>2, FS_EmptySet, LifecycleConstants DEF SlotCount, LifecycleConstants
<1> QED
  BY <1>4, <1>5, <1>6, <1>7, <1>8, <1>9, <1>10, <1>11, <1>12, <1>13
     DEF Next, ExecuteRun, Handle

LEMMA InitSlotCount == Init => SlotCount
<1> SUFFICES ASSUME Init PROVE SlotCount
  OBVIOUS
<1>1. Holders = {}
  BY DEF Init, Holders, Holding, Registered
<1> QED
  BY <1>1, FS_EmptySet, LifecycleConstants DEF Init, SlotCount, LifecycleConstants

LEMMA SlotInvariant == Spec => [](Typing /\ SlotCount)
<1>1. Init => Typing /\ SlotCount
  BY InitTyping, InitSlotCount
<1>2. Typing /\ SlotCount /\ [Next]_vars => (Typing /\ SlotCount)'
  BY TypingStep, SlotCountStep
<1> QED
  BY <1>1, <1>2, PTL DEF Spec

(* Every variable keeps its type; the semaphore is never over its capacity
   and never below empty. *)
THEOREM TypeCorrect == Spec => []TypeOK
<1>1. Typing /\ SlotCount => TypeOK
  <2> SUFFICES ASSUME Typing, SlotCount PROVE TypeOK
    OBVIOUS
  <2>1. slots \in 0..MaxRuns
    BY FiniteHolders, FS_CardinalityType, LifecycleConstants
       DEF SlotCount, Typing, LifecycleConstants
  <2> QED
    BY <2>1 DEF Typing, TypeOK
<1> QED
  BY <1>1, SlotInvariant, PTL

(* The semaphore counts the executions that have not left yet. *)
THEOREM SlotsCorrect == Spec => []SlotsMatch
<1>1. SlotCount => SlotsMatch
  BY DEF SlotCount, SlotsMatch, Holders
<1> QED
  BY <1>1, SlotInvariant, PTL

-----------------------------------------------------------------------------
(* The registered cancel functions.                                        *)

LEMMA ActiveKept ==
    ASSUME Typing, ActiveIsLive, UNCHANGED activeRuns,
           \A e \in Executions : pc[e] \in Registered => pc'[e] \in Registered
    PROVE  ActiveIsLive'
  BY DEF ActiveIsLive, Typing

LEMMA ActiveStep == Typing /\ ActiveIsLive /\ [Next]_vars => ActiveIsLive'
<1> SUFFICES ASSUME Typing, ActiveIsLive, [Next]_vars PROVE ActiveIsLive'
  OBVIOUS
<1> USE DEF execution, driver, chaos, api, At, Goto
<1>1. ASSUME UNCHANGED <<pc, activeRuns>> PROVE ActiveIsLive'
  BY <1>1, ActiveKept
<1>2. ASSUME NEW r \in Runs, Spawn(r), UNCHANGED activeRuns PROVE ActiveIsLive'
  <2>1. \A e \in Executions : pc[e] \in Registered => pc'[e] = pc[e]
    BY <1>2 DEF Spawn, Typing, Registered
  <2> QED
    BY <1>2, <2>1, ActiveKept
<1>3. ASSUME NEW e \in Executions, RegisterCancel(e) PROVE ActiveIsLive'
  <2>1. /\ pc'[e] \in Registered
        /\ \A x \in Executions : pc[x] \in Registered => pc'[x] \in Registered
    BY <1>3 DEF RegisterCancel, Typing, Registered
  <2>2. activeRuns' = [activeRuns EXCEPT ![RunOf(e)] = e]
    BY <1>3 DEF RegisterCancel
  <2> QED
    BY <2>1, <2>2, RunOfExecution DEF ActiveIsLive, Typing
<1>4. ASSUME NEW e \in Executions, Deregister(e) PROVE ActiveIsLive'
  <2>1. /\ activeRuns' = [activeRuns EXCEPT ![RunOf(e)] = Nobody]
        /\ \A x \in Executions : x # e => pc'[x] = pc[x]
    BY <1>4 DEF Deregister, Typing
  <2>2. ASSUME NEW r \in Runs, activeRuns'[r] # Nobody
        PROVE  RunOf(activeRuns'[r]) = r /\ pc'[activeRuns'[r]] \in Registered
    <3>1. r # RunOf(e) /\ activeRuns'[r] = activeRuns[r]
      BY <2>1, <2>2, RunOfExecution DEF Typing
    <3>2. activeRuns[r] # e /\ activeRuns[r] \in Executions
      BY <2>2, <3>1 DEF ActiveIsLive, Typing
    <3> QED
      BY <2>1, <2>2, <3>1, <3>2 DEF ActiveIsLive
  <2> QED
    BY <2>2 DEF ActiveIsLive
<1>5. ASSUME NEW e \in Executions,
             \/ ResolveScenario(e) \/ AttachScenario(e) \/ MarkRunning(e) \/ StartEngine(e)
             \/ EngineReturns(e) \/ FinalizeRun(e) \/ SubmitBenchmark(e) \/ CleanUp(e)
             \/ GetRecord(e, "starting", "marking") \/ GetRecord(e, "finishing", "finalizing")
      PROVE ActiveIsLive'
  <2>1. \E label \in Registered : pc' = [pc EXCEPT ![e] = label]
    BY <1>5 DEF ResolveScenario, AttachScenario, MarkRunning, StartEngine, EngineReturns,
                FinalizeRun, SubmitBenchmark, CleanUp, GetRecord, Registered
  <2>2. \A x \in Executions : pc[x] \in Registered => pc'[x] \in Registered
    BY <2>1 DEF Typing
  <2>3. UNCHANGED activeRuns
    BY <1>5 DEF ResolveScenario, AttachScenario, MarkRunning, StartEngine, EngineReturns,
                FinalizeRun, SubmitBenchmark, CleanUp, GetRecord
  <2> QED
    BY <2>2, <2>3, ActiveKept
<1>13. ASSUME NEW e \in Executions, AcquireSlot(e) \/ ReleaseSlot(e) PROVE ActiveIsLive'
  <2>1. \A x \in Executions : pc[x] \in Registered => pc'[x] \in Registered
    BY <1>13 DEF AcquireSlot, ReleaseSlot, Typing, Registered
  <2> QED
    BY <1>13, <2>1, ActiveKept DEF AcquireSlot, ReleaseSlot
<1>6. ASSUME NEW r \in Runs, StartRun(r) PROVE ActiveIsLive'
  BY <1>1, <1>2, <1>6 DEF StartRun
<1>7. ASSUME NEW c \in Clients, ApproveUpdates(c) PROVE ActiveIsLive'
  <2>1. client[c].run \in Runs
    BY <1>7 DEF ApproveUpdates, Serving, Typing
  <2> QED
    BY <1>1, <1>2, <1>7, <2>1 DEF ApproveUpdates
<1>8. ASSUME NEW e \in Executions, TimerFires(e) \/ TimerApplies(e) \/ MonitorFires(e)
      PROVE ActiveIsLive'
  BY <1>1, <1>8 DEF TimerFires, TimerApplies, MonitorFires
<1>9. CASE WatchdogFires \/ Restart \/ UNCHANGED vars
  BY <1>1, <1>9 DEF WatchdogFires, Restart, vars
<1>10. ASSUME NEW c \in Clients, NEW r \in Runs,
              ApproveGets(c, r) \/ AbortLooksUp(c, r) \/ ShareGets(c, r)
       PROVE ActiveIsLive'
  BY <1>1, <1>10 DEF ApproveGets, AbortLooksUp, ShareGets
<1>11. ASSUME NEW c \in Clients,
              AbortReverts(c) \/ AbortCancels(c) \/ AbortGets(c) \/ AbortUpdates(c) \/ ShareUpdates(c)
       PROVE ActiveIsLive'
  BY <1>1, <1>11 DEF AbortReverts, AbortCancels, AbortGets, AbortUpdates, ShareUpdates
<1>12. CASE Stop
  BY <1>12 DEF Stop, ActiveIsLive
<1> QED
  BY <1>3, <1>4, <1>5, <1>6, <1>7, <1>8, <1>9, <1>10, <1>11, <1>12, <1>13 DEF Next, ExecuteRun, Handle

LEMMA TypingInvariant == Spec => []Typing
  BY InitTyping, TypingStep, PTL DEF Spec

(* Whatever cancel function an abort finds belongs to an execution of that
   run that has not left. *)
THEOREM ActiveCorrect == Spec => []ActiveIsLive
<1>1. Init => ActiveIsLive
  BY DEF Init, ActiveIsLive
<1> QED
  BY <1>1, ActiveStep, TypingInvariant, PTL DEF Spec

(* The places of an execution that has not come to register. *)
Unheard == {"absent", "waiting", "registering", "lost"}

(* A step that registers nothing, and takes nobody back. *)
LEMMA AbortableKept ==
    ASSUME Abortable, UNCHANGED activeRuns,
           \A e \in Executions : pc'[e] \in Registered => pc[e] \in Registered,
           \A e \in Executions : pc'[e] \in Unheard => pc[e] \in Unheard
    PROVE  Abortable'
  BY DEF Abortable, Unheard

LEMMA AbortableStep == Typing /\ Abortable /\ [Next]_vars => Abortable'
<1> SUFFICES ASSUME Typing, Abortable, [Next]_vars PROVE Abortable'
  OBVIOUS
<1> USE DEF execution, driver, chaos, api, At, Goto
<1>1. ASSUME UNCHANGED <<pc, activeRuns>> PROVE Abortable'
  BY <1>1, AbortableKept
<1>2. ASSUME NEW r \in Runs, Spawn(r), UNCHANGED activeRuns PROVE Abortable'
  <2>1. \A e \in Executions :
            /\ pc'[e] \in Registered => pc[e] \in Registered
            /\ pc'[e] \in Unheard => pc[e] \in Unheard
    BY <1>2 DEF Spawn, Typing, Registered, Unheard
  <2> QED
    BY <1>2, <2>1, AbortableKept
<1>3. ASSUME NEW x \in Executions, RegisterCancel(x) \/ Deregister(x) PROVE Abortable'
  <2>1. /\ pc'[x] \notin Unheard
        /\ \A e \in Executions : e # x => pc'[e] = pc[e]
        /\ \A r \in Runs : r # RunOf(x) => activeRuns'[r] = activeRuns[r]
    BY <1>3 DEF RegisterCancel, Deregister, Typing, Unheard
  <2>2. pc'[x] \in Registered => activeRuns'[RunOf(x)] = x
    BY <1>3, RunOfExecution DEF RegisterCancel, Deregister, Typing, Registered
  <2>3. ASSUME NEW e \in Executions, pc'[e] \in Registered,
               \A o \in Executions \ {e} : RunOf(o) = RunOf(e) => pc'[o] \in Unheard
        PROVE  activeRuns'[RunOf(e)] = e
    <3>1. CASE e = x
      BY <2>2, <2>3, <3>1
    <3>2. CASE e # x
      <4>1. RunOf(e) # RunOf(x)
        BY <2>1, <2>3, <3>2
      <4>2. \A o \in Executions \ {e} : RunOf(o) = RunOf(e) => pc[o] \in Unheard
        BY <2>1, <2>3, <4>1
      <4>3. activeRuns[RunOf(e)] = e
        BY <2>1, <2>3, <3>2, <4>2 DEF Abortable, Unheard
      <4> QED
        BY <2>1, <4>1, <4>3, RunOfExecution
    <3> QED
      BY <3>1, <3>2
  <2> QED
    BY <2>3 DEF Abortable, Unheard
<1>4. ASSUME NEW e \in Executions,
             \/ ResolveScenario(e) \/ AttachScenario(e) \/ MarkRunning(e) \/ StartEngine(e)
             \/ EngineReturns(e) \/ FinalizeRun(e) \/ SubmitBenchmark(e) \/ CleanUp(e)
             \/ GetRecord(e, "starting", "marking") \/ GetRecord(e, "finishing", "finalizing")
      PROVE Abortable'
  <2>1. /\ pc[e] \in Registered
        /\ \E label \in Registered : pc' = [pc EXCEPT ![e] = label]
    BY <1>4 DEF ResolveScenario, AttachScenario, MarkRunning, StartEngine, EngineReturns,
                FinalizeRun, SubmitBenchmark, CleanUp, GetRecord, Registered
  <2>2. \A x \in Executions :
            /\ pc'[x] \in Registered => pc[x] \in Registered
            /\ pc'[x] \in Unheard => pc[x] \in Unheard
    BY <2>1 DEF Typing, Registered, Unheard
  <2>3. UNCHANGED activeRuns
    BY <1>4 DEF ResolveScenario, AttachScenario, MarkRunning, StartEngine, EngineReturns,
                FinalizeRun, SubmitBenchmark, CleanUp, GetRecord
  <2> QED
    BY <2>2, <2>3, AbortableKept
<1>12. ASSUME NEW e \in Executions, AcquireSlot(e) \/ ReleaseSlot(e) PROVE Abortable'
  <2>1. \A x \in Executions :
            /\ pc'[x] \in Registered => pc[x] \in Registered
            /\ pc'[x] \in Unheard => pc[x] \in Unheard
    BY <1>12 DEF AcquireSlot, ReleaseSlot, Typing, Registered, Unheard
  <2> QED
    BY <1>12, <2>1, AbortableKept DEF AcquireSlot, ReleaseSlot
<1>5. ASSUME NEW r \in Runs, StartRun(r) PROVE Abortable'
  BY <1>1, <1>2, <1>5 DEF StartRun
<1>6. ASSUME NEW c \in Clients, ApproveUpdates(c) PROVE Abortable'
  <2>1. client[c].run \in Runs
    BY <1>6 DEF ApproveUpdates, Serving, Typing
  <2> QED
    BY <1>1, <1>2, <1>6, <2>1 DEF ApproveUpdates
<1>7. ASSUME NEW e \in Executions, TimerFires(e) \/ TimerApplies(e) \/ MonitorFires(e)
      PROVE Abortable'
  BY <1>1, <1>7 DEF TimerFires, TimerApplies, MonitorFires
<1>8. CASE WatchdogFires \/ Restart \/ UNCHANGED vars
  BY <1>1, <1>8 DEF WatchdogFires, Restart, vars
<1>9. ASSUME NEW c \in Clients, NEW r \in Runs,
             ApproveGets(c, r) \/ AbortLooksUp(c, r) \/ ShareGets(c, r)
      PROVE Abortable'
  BY <1>1, <1>9 DEF ApproveGets, AbortLooksUp, ShareGets
<1>10. ASSUME NEW c \in Clients,
              AbortReverts(c) \/ AbortCancels(c) \/ AbortGets(c) \/ AbortUpdates(c) \/ ShareUpdates(c)
       PROVE Abortable'
  BY <1>1, <1>10 DEF AbortReverts, AbortCancels, AbortGets, AbortUpdates, ShareUpdates
<1>11. CASE Stop
  <2>1. \A e \in Executions : pc'[e] \notin Registered
    BY <1>11 DEF Stop, Registered
  <2> QED
    BY <2>1 DEF Abortable
<1> QED
  BY <1>3, <1>4, <1>5, <1>6, <1>7, <1>8, <1>9, <1>10, <1>11, <1>12 DEF Next, ExecuteRun, Handle

(* An execution that has registered its cancel function is the one an abort
   finds and cancels, until it deregisters, unless another execution of the run
   has registered as well: that one takes its place in the map and empties it
   when it ends (coordinator.go, executeRun and AbortRun). *)
THEOREM AbortFindsIt == Spec => []Abortable
<1>1. Init => Abortable
  BY DEF Init, Abortable, Registered
<1> QED
  BY <1>1, AbortableStep, TypingInvariant, PTL DEF Spec

-----------------------------------------------------------------------------
(* The records of the runs, when nobody shares one: without "share" every  *)
(* write of a record but AttachScenario's sets a status of its own.        *)

NoSharing == "share" \notin Operations
NothingFails == "storage_error" \notin Disturbances /\ "stop" \notin Disturbances

(* Clients do what Operations allows. *)
OpsAllowed == \A c \in Clients : client[c].op # "none" => client[c].op \in Operations

LEMMA OpsAllowedStep == Typing /\ OpsAllowed /\ [Next]_vars => OpsAllowed'
<1> SUFFICES ASSUME Typing, OpsAllowed, [Next]_vars PROVE OpsAllowed'
  OBVIOUS
<1> USE DEF execution, driver, chaos, api
<1>1. ASSUME UNCHANGED client PROVE OpsAllowed'
  BY <1>1 DEF OpsAllowed
<1>2. ASSUME NEW r \in Runs, StartRun(r) PROVE OpsAllowed'
  BY <1>1, <1>2 DEF StartRun
<1>3. ASSUME NEW e \in Executions, ExecuteRun(e) PROVE OpsAllowed'
  BY <1>1, <1>3 DEF ExecuteRun, AcquireSlot, RegisterCancel, ResolveScenario, AttachScenario, GetRecord,
     MarkRunning, StartEngine, EngineReturns, FinalizeRun, SubmitBenchmark, CleanUp, Deregister,
     ReleaseSlot
<1>4. ASSUME NEW e \in Executions, TimerFires(e) \/ TimerApplies(e) \/ MonitorFires(e)
      PROVE OpsAllowed'
  BY <1>1, <1>4 DEF TimerFires, TimerApplies, MonitorFires
<1>5. CASE WatchdogFires \/ Restart \/ UNCHANGED vars
  BY <1>1, <1>5 DEF WatchdogFires, Restart, vars
<1>6. ASSUME NEW c \in Clients, NEW r \in Runs,
             ApproveGets(c, r) \/ AbortLooksUp(c, r) \/ ShareGets(c, r)
      PROVE OpsAllowed'
  BY <1>6 DEF ApproveGets, AbortLooksUp, ShareGets, Begins, OpsAllowed, Typing
<1>7. ASSUME NEW c \in Clients, ApproveUpdates(c) \/ AbortUpdates(c) \/ ShareUpdates(c)
      PROVE OpsAllowed'
  BY <1>7 DEF ApproveUpdates, AbortUpdates, ShareUpdates, Becomes, Idle, OpsAllowed, Typing
<1>8. ASSUME NEW c \in Clients, AbortReverts(c) \/ AbortCancels(c) \/ AbortGets(c)
      PROVE OpsAllowed'
  <2>1. \E new : client' = [client EXCEPT ![c] = new] /\ new.op \in {client[c].op, "none"}
    <3>1. CASE AbortReverts(c) \/ AbortCancels(c)
      BY <3>1 DEF AbortReverts, AbortCancels, Becomes, Typing
    <3>2. CASE AbortGets(c)
      <4>1. Idle.op = "none"
        BY DEF Idle
      <4>2. [client[c] EXCEPT !.stage = "update", !.copy = repo[client[c].run]].op = client[c].op
        BY DEF Typing
      <4> QED
        BY <3>2, <4>1, <4>2 DEF AbortGets, Becomes
    <3> QED
      BY <1>8, <3>1, <3>2
  <2> QED
    BY <2>1 DEF OpsAllowed, Typing
<1>9. CASE Stop
  BY <1>9 DEF Stop, Idle, OpsAllowed
<1> QED
  BY <1>2, <1>3, <1>4, <1>5, <1>6, <1>7, <1>8, <1>9 DEF Next, Handle

(* A step that touches the record and the executions of one run only. *)
LEMMA StuckKept ==
    ASSUME NoStuckRun,
           NEW r \in Runs,
           \A x \in Runs : x # r => repo'[x] = repo[x],
           \A e \in Executions : RunOf(e) # r /\ pc[e] \in Unfinished => pc'[e] \in Unfinished,
           \/ repo'[r].status \notin {"queued", "running"}
           \/ \E e \in Executions : RunOf(e) = r /\ pc'[e] \in Unfinished
    PROVE  NoStuckRun'
<1> SUFFICES ASSUME NEW x \in Runs, repo'[x].status \in {"queued", "running"}
             PROVE  \E e \in Executions : RunOf(e) = x /\ pc'[e] \in Unfinished
  BY DEF NoStuckRun
<1>1. CASE x = r
  BY <1>1
<1>2. CASE x # r
  BY <1>2 DEF NoStuckRun
<1> QED
  BY <1>1, <1>2

LEMMA StuckSpawn ==
    ASSUME Typing, NoStuckRun, NEW r \in Runs, NEW rec \in Record, Spawn(r), Put(r, rec)
    PROVE  NoStuckRun'
<1>1. PICK n \in 1..MaxStarts :
          /\ pc[<<r, n>>] = "absent"
          /\ pc' = [pc EXCEPT ![<<r, n>>] = "waiting"]
  BY DEF Spawn
<1>2. <<r, n>> \in Executions /\ RunOf(<<r, n>>) = r
  BY DEF Executions, RunOf
<1>3. pc'[<<r, n>>] \in Unfinished
  BY <1>1, <1>2 DEF Typing, Unfinished
<1>4. \A e \in Executions : pc[e] \in Unfinished => pc'[e] \in Unfinished
  BY <1>1, <1>3 DEF Typing
<1>5. \A x \in Runs : x # r => repo'[x] = repo[x]
  BY DEF Put, Typing
<1> QED
  BY <1>2, <1>3, <1>4, <1>5, StuckKept

LEMMA StuckStep ==
    ASSUME NoSharing, NothingFails, Typing, OpsAllowed, NoStuckRun, [Next]_vars
    PROVE  NoStuckRun'
<1> USE DEF execution, driver, chaos, api, At, Goto
<1>1. ASSUME UNCHANGED <<pc, repo>> PROVE NoStuckRun'
  BY <1>1 DEF NoStuckRun
<1>2. ASSUME NEW r \in Runs, StartRun(r) PROVE NoStuckRun'
  <2>1. CASE r \in Guarded
    <3>1. /\ UNCHANGED pc
          /\ repo' = [repo EXCEPT ![r] = [NoRecord EXCEPT !.status = "awaiting_approval"]]
      BY <1>2, <2>1 DEF StartRun, Put
    <3>2. repo'[r].status = "awaiting_approval"
      BY <3>1 DEF NoRecord, Typing
    <3> QED
      BY <3>1, <3>2, StuckKept DEF Typing
  <2>2. CASE r \notin Guarded
    <3>1. [NoRecord EXCEPT !.status = "queued"] \in Record
      BY RecordTypes DEF Status
    <3> QED
      BY <1>2, <2>2, <3>1, StuckSpawn DEF StartRun
  <2> QED
    BY <2>1, <2>2
<1>3. ASSUME NEW e \in Executions,
             \/ AcquireSlot(e) \/ RegisterCancel(e) \/ ResolveScenario(e) \/ AttachScenario(e) \/ MarkRunning(e)
             \/ StartEngine(e) \/ EngineReturns(e)
             \/ GetRecord(e, "starting", "marking") \/ GetRecord(e, "finishing", "finalizing")
      PROVE NoStuckRun'
  <2>1. \E label \in Unfinished : pc' = [pc EXCEPT ![e] = label]
    BY <1>3 DEF AcquireSlot, RegisterCancel, ResolveScenario, AttachScenario, MarkRunning, StartEngine,
                EngineReturns, GetRecord, Unfinished
  <2>2. pc'[e] \in Unfinished /\ \A x \in Executions : pc[x] \in Unfinished => pc'[x] \in Unfinished
    BY <2>1 DEF Typing
  <2>3. \A r \in Runs : r # RunOf(e) => repo'[r] = repo[r]
    BY <1>3 DEF AcquireSlot, RegisterCancel, ResolveScenario, AttachScenario, MarkRunning, StartEngine,
                EngineReturns, GetRecord, TryPut, Put, Typing
  <2> QED
    BY <2>2, <2>3, StuckKept, RunOfExecution
<1>4. ASSUME NEW e \in Executions, FinalizeRun(e) PROVE NoStuckRun'
  <2>1. outcome[e] \in Terminal
    BY <1>4 DEF FinalizeRun, Typing
  <2>2. repo' = [repo EXCEPT ![RunOf(e)] = FinalRecord(e)]
    BY <1>4 DEF FinalizeRun, TryPut, Put, NothingFails
  <2>3. repo'[RunOf(e)].status = outcome[e]
    <3>1. copy[e] \in Record
      BY DEF Typing
    <3>2. FinalRecord(e).status = outcome[e]
      BY <3>1 DEF FinalRecord, Record
    <3> QED
      BY <2>2, <3>2, RunOfExecution DEF Typing
  <2>4. \A r \in Runs : r # RunOf(e) => repo'[r] = repo[r]
    BY <2>2 DEF Typing
  <2>5. \A x \in Executions : RunOf(x) # RunOf(e) => pc'[x] = pc[x]
    BY <1>4 DEF FinalizeRun, Typing
  <2> QED
    BY <2>1, <2>3, <2>4, <2>5, StuckKept, RunOfExecution DEF Terminal
<1>5. ASSUME NEW e \in Executions,
             SubmitBenchmark(e) \/ CleanUp(e) \/ Deregister(e) \/ ReleaseSlot(e)
      PROVE NoStuckRun'
  <2>1. /\ UNCHANGED repo
        /\ \A x \in Executions : pc[x] \in Unfinished => pc'[x] = pc[x]
    BY <1>5 DEF SubmitBenchmark, CleanUp, Deregister, ReleaseSlot, Typing, Unfinished
  <2> QED
    BY <2>1 DEF NoStuckRun
<1>6. ASSUME NEW e \in Executions, TimerFires(e) \/ TimerApplies(e) \/ MonitorFires(e)
      PROVE NoStuckRun'
  BY <1>1, <1>6 DEF TimerFires, TimerApplies, MonitorFires
<1>7. CASE WatchdogFires \/ Restart \/ UNCHANGED vars
  BY <1>1, <1>7 DEF WatchdogFires, Restart, vars
<1>8. ASSUME NEW c \in Clients, NEW r \in Runs,
             ApproveGets(c, r) \/ AbortLooksUp(c, r) \/ ShareGets(c, r)
      PROVE NoStuckRun'
  BY <1>1, <1>8 DEF ApproveGets, AbortLooksUp, ShareGets
<1>9. ASSUME NEW c \in Clients, ApproveUpdates(c) PROVE NoStuckRun'
  <2>1. client[c].run \in Runs
    BY <1>9 DEF ApproveUpdates, Serving, Typing
  <2>2. [client[c].copy EXCEPT !.status = "queued", !.approved = TRUE] \in Record
    <3>1. client[c].copy \in Record /\ "queued" \in Status
      BY DEF Typing, Status
    <3> QED
      BY <3>1 DEF Record
  <2> QED
    BY <1>9, <2>1, <2>2, StuckSpawn DEF ApproveUpdates, NothingFails
<1>10. ASSUME NEW c \in Clients, AbortReverts(c) \/ AbortCancels(c) \/ AbortGets(c)
       PROVE NoStuckRun'
  BY <1>1, <1>10 DEF AbortReverts, AbortCancels, AbortGets
<1>11. ASSUME NEW c \in Clients, AbortUpdates(c) PROVE NoStuckRun'
  <2> DEFINE r == client[c].run
  <2>1. r \in Runs
    BY <1>11 DEF AbortUpdates, Serving, Typing
  <2>2. /\ repo' = [repo EXCEPT ![r] = [client[c].copy EXCEPT !.status = "aborted"]]
        /\ UNCHANGED pc
    BY <1>11 DEF AbortUpdates, TryPut, Put, NothingFails
  <2>3. repo'[r].status = "aborted"
    BY <2>1, <2>2 DEF Typing, Record
  <2>4. \A x \in Runs : x # r => repo'[x] = repo[x]
    BY <2>2 DEF Typing
  <2> QED
    BY <2>1, <2>2, <2>3, <2>4, StuckKept
<1>12. ASSUME NEW c \in Clients, ShareUpdates(c) PROVE NoStuckRun'
  BY <1>12 DEF ShareUpdates, Serving, OpsAllowed, NoSharing
<1>13. CASE Stop
  BY <1>13 DEF Stop, NothingFails
<1> QED
  BY <1>2, <1>3, <1>4, <1>5, <1>6, <1>7, <1>8, <1>9, <1>10, <1>11, <1>12, <1>13
     DEF Next, ExecuteRun, Handle

LEMMA InitOpsAllowed == Init => OpsAllowed
  BY DEF Init, OpsAllowed, Idle

(* Where nobody shares runs and nothing fails, a record that shows queued or
   running has an execution that will still settle it, however many
   approvals and aborts race. *)
THEOREM NoRunStuck == NoSharing /\ NothingFails => (Spec => []NoStuckRun)
<1> SUFFICES ASSUME NoSharing, NothingFails PROVE Spec => []NoStuckRun
  OBVIOUS
<1> DEFINE Inv == Typing /\ OpsAllowed /\ NoStuckRun
<1>1. Init => NoStuckRun
  BY DEF Init, NoStuckRun, NoRecord
<1>2. Init => Inv
  BY <1>1, InitTyping, InitOpsAllowed
<1>3. Inv /\ [Next]_vars => Inv'
  BY TypingStep, OpsAllowedStep, StuckStep
<1>4. Inv => NoStuckRun
  OBVIOUS
<1> HIDE DEF Inv
<1> QED
  BY <1>2, <1>3, <1>4, PTL DEF Spec

-----------------------------------------------------------------------------
(* The approval of guarded runs.                                           *)

Past(r, rec) == rec.status # "absent" /\ (r \in Guarded => rec.approved)

(* Records that are past the gate, and every copy that will be written back,
   carry the approval; an execution has a record past the gate. *)
ApprovalInv ==
    /\ \A r \in Runs : repo[r].status \notin {"absent", "awaiting_approval"} => Past(r, repo[r])
    /\ \A e \in Executions : pc[e] # "absent" => Past(RunOf(e), repo[RunOf(e)])
    /\ \A e \in Executions :
           pc[e] \in {"attaching", "marking", "finalizing"} => Past(RunOf(e), copy[e])
    /\ \A c \in Clients :
           client[c].op = "abort" /\ client[c].stage = "update" => Past(client[c].run, client[c].copy)

(* A write of a record past the gate keeps the invariant. *)
LEMMA ApprovalPut ==
    ASSUME Typing, ApprovalInv, NEW r \in Runs, NEW rec \in Record, Past(r, rec), TryPut(r, rec)
    PROVE  /\ \A x \in Runs :
                  repo'[x].status \notin {"absent", "awaiting_approval"} => Past(x, repo'[x])
           /\ \A x \in Runs : Past(x, repo[x]) => Past(x, repo'[x])
           /\ \A e \in Executions : pc[e] # "absent" => Past(RunOf(e), repo'[RunOf(e)])
<1>1. \A x \in Runs : repo'[x] = repo[x] \/ (x = r /\ repo'[x] = rec)
  BY DEF TryPut, Put, Typing
<1> QED
  BY <1>1, RunOfExecution DEF ApprovalInv

LEMMA ApprovalStep ==
    ASSUME NoSharing, Typing, OpsAllowed, ApprovalInv, [Next]_vars
    PROVE  ApprovalInv'
<1> USE DEF execution, driver, chaos, api, At, Goto
<1>1. ASSUME UNCHANGED <<pc, repo, copy, client>> PROVE ApprovalInv'
  BY <1>1 DEF ApprovalInv, Past
<1>2. ASSUME NEW r \in Runs, StartRun(r) PROVE ApprovalInv'
  <2>1. \A e \in Executions : RunOf(e) = r => pc[e] = "absent"
    BY <1>2 DEF StartRun, ApprovalInv, Past
  <2>2. CASE r \in Guarded
    <3>1. /\ UNCHANGED <<pc, copy, client>>
          /\ repo' = [repo EXCEPT ![r] = [NoRecord EXCEPT !.status = "awaiting_approval"]]
      BY <1>2, <2>2 DEF StartRun, Put
    <3>2. repo'[r].status = "awaiting_approval" /\ \A x \in Runs : x # r => repo'[x] = repo[x]
      BY <3>1 DEF NoRecord, Typing
    <3> QED
      BY <2>1, <3>1, <3>2, RunOfExecution DEF ApprovalInv, Past
  <2>3. CASE r \notin Guarded
    <3>1. /\ UNCHANGED <<copy, client>>
          /\ Spawn(r)
          /\ repo' = [repo EXCEPT ![r] = [NoRecord EXCEPT !.status = "queued"]]
      BY <1>2, <2>3 DEF StartRun, Put
    <3>2. repo'[r].status = "queued" /\ \A x \in Runs : x # r => repo'[x] = repo[x]
      BY <3>1 DEF NoRecord, Typing
    <3>3. \A e \in Executions : RunOf(e) # r => pc'[e] = pc[e]
      BY <3>1 DEF Spawn, Typing, RunOf
    <3>4. \A e \in Executions : pc'[e] \in {pc[e], "waiting"}
      BY <3>1, SpawnTypes
    <3> QED
      BY <2>3, <3>1, <3>2, <3>3, <3>4, RunOfExecution DEF ApprovalInv, Past
  <2> QED
    BY <2>2, <2>3
<1>3. ASSUME NEW e \in Executions,
             \/ AcquireSlot(e) \/ RegisterCancel(e) \/ ResolveScenario(e) \/ StartEngine(e) \/ EngineReturns(e)
             \/ SubmitBenchmark(e) \/ CleanUp(e) \/ Deregister(e) \/ ReleaseSlot(e)
             \/ GetRecord(e, "starting", "marking") \/ GetRecord(e, "finishing", "finalizing")
      PROVE ApprovalInv'
  <2>1. pc[e] # "absent" /\ UNCHANGED <<repo, client>>
    BY <1>3 DEF AcquireSlot, RegisterCancel, ResolveScenario, StartEngine, EngineReturns,
                SubmitBenchmark, CleanUp, Deregister, ReleaseSlot,
                GetRecord
  <2>2. \A x \in Executions : x # e => pc'[x] = pc[x] /\ copy'[x] = copy[x]
    BY <1>3 DEF AcquireSlot, RegisterCancel, ResolveScenario, StartEngine, EngineReturns,
                SubmitBenchmark, CleanUp, Deregister, ReleaseSlot,
                GetRecord, Typing
  <2>3. pc'[e] \in {"attaching", "marking", "finalizing"} => copy'[e] = repo[RunOf(e)]
    BY <1>3 DEF AcquireSlot, RegisterCancel, ResolveScenario, StartEngine, EngineReturns,
                SubmitBenchmark, CleanUp, Deregister, ReleaseSlot,
                GetRecord, Typing
  <2> QED
    BY <2>1, <2>2, <2>3 DEF ApprovalInv, Past
<1>4. ASSUME NEW e \in Executions, AttachScenario(e) \/ MarkRunning(e) \/ FinalizeRun(e)
      PROVE ApprovalInv'
  <2> DEFINE r == RunOf(e)
  <2>1. /\ pc[e] \in {"attaching", "marking", "finalizing"}
        /\ Past(r, copy[e]) /\ copy[e] \in Record
    BY <1>4 DEF AttachScenario, MarkRunning, FinalizeRun, ApprovalInv, Typing
  <2>2. \E rec \in Record : Past(r, rec) /\ TryPut(r, rec)
    <3>1. CASE AttachScenario(e)
      BY <2>1, <3>1 DEF AttachScenario
    <3>2. CASE MarkRunning(e)
      <4>1. [copy[e] EXCEPT !.status = "running"] \in Record
        BY <2>1, RecordTypes DEF Status
      <4>2. Past(r, [copy[e] EXCEPT !.status = "running"])
        BY <2>1 DEF Past, Record
      <4> QED
        BY <3>2, <4>1, <4>2 DEF MarkRunning
    <3>3. CASE FinalizeRun(e)
      <4>1. outcome[e] \in Terminal
        BY <3>3 DEF FinalizeRun, Typing
      <4>2. FinalRecord(e) \in Record
        BY <2>1, <4>1 DEF FinalRecord, Record, Status, Terminal
      <4>3. Past(r, FinalRecord(e))
        BY <2>1, <4>1 DEF FinalRecord, Past, Record, Terminal
      <4> QED
        BY <3>3, <4>2, <4>3 DEF FinalizeRun
    <3> QED
      BY <1>4, <3>1, <3>2, <3>3
  <2>3. /\ \A x \in Runs :
               repo'[x].status \notin {"absent", "awaiting_approval"} => Past(x, repo'[x])
        /\ \A x \in Executions : pc[x] # "absent" => Past(RunOf(x), repo'[RunOf(x)])
    BY <2>2, ApprovalPut, RunOfExecution
  <2>4. /\ UNCHANGED client
        /\ pc'[e] \notin {"attaching", "marking", "finalizing"}
        /\ \A x \in Executions : x # e => pc'[x] = pc[x] /\ copy'[x] = copy[x]
    BY <1>4 DEF AttachScenario, MarkRunning, FinalizeRun, Discard, Typing
  <2> QED
    BY <2>1, <2>3, <2>4 DEF ApprovalInv, Past
<1>5. ASSUME NEW e \in Executions, TimerFires(e) \/ TimerApplies(e) \/ MonitorFires(e)
      PROVE ApprovalInv'
  BY <1>1, <1>5 DEF TimerFires, TimerApplies, MonitorFires
<1>6. CASE WatchdogFires \/ Restart \/ UNCHANGED vars
  BY <1>1, <1>6 DEF WatchdogFires, Restart, vars
<1>7. ASSUME NEW c \in Clients, NEW r \in Runs,
             ApproveGets(c, r) \/ AbortLooksUp(c, r) \/ ShareGets(c, r)
      PROVE ApprovalInv'
  <2>1. /\ UNCHANGED <<pc, repo, copy>>
        /\ \A d \in Clients : d # c => client'[d] = client[d]
        /\ client'[c].op = "abort" => client'[c].stage = "revert"
    BY <1>7 DEF ApproveGets, AbortLooksUp, ShareGets, Begins, Typing
  <2> QED
    BY <2>1 DEF ApprovalInv, Past
<1>8. ASSUME NEW c \in Clients, ApproveUpdates(c) PROVE ApprovalInv'
  <2> DEFINE r == client[c].run
             rec == [client[c].copy EXCEPT !.status = "queued", !.approved = TRUE]
  <2>1. r \in Runs /\ client[c].copy \in Record
    BY <1>8 DEF ApproveUpdates, Serving, Typing
  <2>2. rec \in Record /\ Past(r, rec)
    <3>1. "queued" \in Status
      BY DEF Status
    <3> QED
      BY <2>1, <3>1 DEF Record, Past
  <2>3. /\ UNCHANGED copy
        /\ \A d \in Clients : d # c => client'[d] = client[d]
        /\ client'[c].op = "none"
    BY <1>8 DEF ApproveUpdates, Becomes, Typing, Idle
  <2>4. CASE Put(r, rec) /\ Spawn(r)
    <3>1. TryPut(r, rec) /\ repo'[r] = rec
      BY <2>1, <2>4 DEF TryPut, Put, Typing
    <3>2. /\ \A x \in Runs :
                 repo'[x].status \notin {"absent", "awaiting_approval"} => Past(x, repo'[x])
          /\ \A x \in Executions : pc[x] # "absent" => Past(RunOf(x), repo'[RunOf(x)])
      BY <2>1, <2>2, <3>1, ApprovalPut
    <3>3. \A x \in Executions : pc'[x] \in {pc[x], "waiting"}
      BY <2>1, <2>4, SpawnTypes
    <3>4. \A x \in Executions : RunOf(x) # r => pc'[x] = pc[x]
      BY <2>4 DEF Spawn, Typing, RunOf
    <3> HIDE DEF rec
    <3> QED
      BY <2>2, <2>3, <3>1, <3>2, <3>3, <3>4 DEF ApprovalInv, Past
  <2>5. CASE UNCHANGED <<repo, pc>>
    BY <2>3, <2>5 DEF ApprovalInv, Past
  <2> QED
    BY <1>8, <2>4, <2>5 DEF ApproveUpdates
<1>9. ASSUME NEW c \in Clients, AbortReverts(c) \/ AbortCancels(c) PROVE ApprovalInv'
  <2>1. /\ UNCHANGED <<pc, repo, copy>>
        /\ \A d \in Clients : d # c => client'[d] = client[d]
        /\ client'[c].stage # "update"
    BY <1>9 DEF AbortReverts, AbortCancels, Becomes, Typing
  <2> QED
    BY <2>1 DEF ApprovalInv, Past
<1>10. ASSUME NEW c \in Clients, AbortGets(c) PROVE ApprovalInv'
  <2> DEFINE r == client[c].run
  <2>1. r \in Runs /\ UNCHANGED <<pc, repo, copy>>
    BY <1>10 DEF AbortGets, Serving, Typing
  <2>2. \A d \in Clients : d # c => client'[d] = client[d]
    BY <1>10 DEF AbortGets, Becomes, Typing
  <2>3. CASE repo[r].status \in {"running", "queued"}
    <3>1. client' = [client EXCEPT ![c] = [client[c] EXCEPT !.stage = "update", !.copy = repo[r]]]
      BY <1>10, <2>3 DEF AbortGets, Becomes
    <3>2. client'[c].run = r /\ client'[c].copy = repo[r]
      BY <3>1 DEF Typing
    <3>3. Past(r, repo[r])
      BY <2>1, <2>3 DEF ApprovalInv
    <3> QED
      BY <2>1, <2>2, <3>2, <3>3 DEF ApprovalInv, Past
  <2>4. CASE repo[r].status \notin {"running", "queued"}
    <3>1. client'[c].op = "none"
      BY <1>10, <2>4 DEF AbortGets, Becomes, Typing, Idle
    <3> QED
      BY <2>1, <2>2, <3>1 DEF ApprovalInv, Past
  <2> QED
    BY <2>3, <2>4
<1>11. ASSUME NEW c \in Clients, AbortUpdates(c) PROVE ApprovalInv'
  <2> DEFINE r == client[c].run
             rec == [client[c].copy EXCEPT !.status = "aborted"]
  <2>1. r \in Runs /\ client[c].copy \in Record /\ Past(r, client[c].copy)
    BY <1>11 DEF AbortUpdates, Serving, Typing, ApprovalInv
  <2>2. rec \in Record /\ Past(r, rec)
    <3>1. rec \in Record
      BY <2>1, RecordTypes DEF Status
    <3>2. Past(r, rec)
      BY <2>1 DEF Past, Record
    <3> QED
      BY <3>1, <3>2
  <2>3. /\ \A x \in Runs :
               repo'[x].status \notin {"absent", "awaiting_approval"} => Past(x, repo'[x])
        /\ \A x \in Executions : pc[x] # "absent" => Past(RunOf(x), repo'[RunOf(x)])
    BY <1>11, <2>1, <2>2, ApprovalPut DEF AbortUpdates
  <2>4. /\ UNCHANGED <<pc, copy>>
        /\ \A d \in Clients : d # c => client'[d] = client[d]
        /\ client'[c].op = "none"
    BY <1>11 DEF AbortUpdates, Becomes, Typing, Idle
  <2> QED
    BY <2>3, <2>4 DEF ApprovalInv, Past
<1>12. ASSUME NEW c \in Clients, ShareUpdates(c) PROVE ApprovalInv'
  BY <1>12 DEF ShareUpdates, Serving, OpsAllowed, NoSharing
<1>13. CASE Stop
  <2>1. /\ UNCHANGED repo
        /\ \A e \in Executions : pc'[e] \in {"absent", "done", "lost"}
        /\ \A e \in Executions : pc'[e] # "absent" => pc[e] # "absent"
        /\ \A c \in Clients : client'[c].op = "none"
    BY <1>13 DEF Stop, Idle
  <2> QED
    BY <2>1 DEF ApprovalInv, Past
<1> QED
  BY <1>2, <1>3, <1>4, <1>5, <1>6, <1>7, <1>8, <1>9, <1>10, <1>11, <1>12, <1>13
     DEF Next, ExecuteRun, Handle

(* Where nobody shares runs, a guarded run is executed only with its approval
   on record, also when storage fails and the process restarts. *)
THEOREM ApprovedBeforeExecuted == NoSharing => (Spec => []ExecutedIsApproved)
<1> SUFFICES ASSUME NoSharing PROVE Spec => []ExecutedIsApproved
  OBVIOUS
<1> DEFINE Inv == Typing /\ OpsAllowed /\ ApprovalInv
<1>1. Init => ApprovalInv
  BY DEF Init, ApprovalInv, NoRecord, Idle
<1>2. Init => Inv
  BY <1>1, InitTyping, InitOpsAllowed
<1>3. Inv /\ [Next]_vars => Inv'
  BY TypingStep, OpsAllowedStep, ApprovalStep
<1>4. Inv => ExecutedIsApproved
  BY DEF ApprovalInv, ExecutedIsApproved, Past
<1> HIDE DEF Inv
<1> QED
  BY <1>2, <1>3, <1>4, PTL DEF Spec
=============================================================================
