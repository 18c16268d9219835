---------------------------- MODULE RunLifecycle ----------------------------
(***************************************************************************)
(* TestCoordinator (pkg/server/coordinator.go): the life of a test run     *)
(* from StartRun through approval, the concurrency semaphore, executeRun   *)
(* and AbortRun, with the run record it keeps in the StorageRepository     *)
(* (repository.go, sqlite_repository.go) and the share-link handler        *)
(* (handler.go) that edits the same record.                                *)
(*                                                                         *)
(* The repository is atomic per call, but every change of a record is a    *)
(* Get, an edit of the copy and an Update, and anybody may come between.   *)
(* Each of those calls is a step here; the goroutine of executeRun, the    *)
(* callback of its chaos timer, the context monitor of its fault and the   *)
(* API handlers interleave.  The chaos driver is the one dead-man switch   *)
(* of DeadManSwitch, shared by all runs.                                   *)
(***************************************************************************)
EXTENDS Naturals, FiniteSets

CONSTANTS
    Runs,          \* run IDs
    Guarded,       \* runs held for approval: environment = production
    ChaosRuns,     \* runs with an enabled chaos plan
    FaultOf,       \* the fault ID of the plan of each run
    Clients,       \* concurrent API requests
    Nobody,        \* no client, no executor, no cancel function
    Operations,    \* requests the clients make: "approve", "abort", "share"
    Disturbances,  \* "storage_error", "chaos_error" (the kernel refuses a change),
                   \* "stop" (the process ends, at any point)
    MaxRuns,       \* MaxConcurrentRuns, the capacity of the semaphore
    MaxStarts,     \* bound: executions of one run
    MaxCalls       \* bound: API requests

ASSUME LifecycleConstants ==
    /\ IsFiniteSet(Runs)
    /\ Guarded \subseteq Runs /\ ChaosRuns \subseteq Runs
    /\ DOMAIN FaultOf = Runs
    /\ Nobody \notin Clients
    /\ Nobody \notin Runs \X (1..MaxStarts)
    /\ MaxRuns \in Nat \ {0} /\ MaxStarts \in Nat \ {0} /\ MaxCalls \in Nat

VARIABLES
    repo,        \* the stored record of every run
    pc,          \* where each execution of a run is in executeRun
    copy,        \* the record it got and has not written back yet
    outcome,     \* the status it will finalize with
    timer,       \* its chaos timer
    slots,       \* tokens in the semaphore
    activeRuns,  \* run -> the execution whose cancel function is registered
    cancelled,   \* executions whose runCtx is Done
    watching,    \* executions whose fault has a live context monitor
    refused,     \* those whose monitor asked the kernel in vain to remove it
    submitted,   \* executions that fed the benchmark pool
    client,      \* what each client is doing
    calls,       \* API requests made so far
    up,          \* the server process runs
    inForce, guard, \* the chaos driver
    currentFault    \* the execution whose fault its status names, or Nobody

execution == <<pc, copy, outcome, slots, activeRuns, submitted>>
driver    == <<inForce, guard, currentFault>>
chaos     == <<timer, watching, refused, driver>>
api       == <<client, calls>>
vars == <<repo, execution, chaos, api, cancelled, up>>

Executions == Runs \X (1..MaxStarts)
RunOf(e) == e[1]

Status == {"absent", "awaiting_approval", "queued", "running",
           "completed", "aborted", "failed"}
Terminal == {"completed", "aborted", "failed"}

Record == [status : Status, approved : BOOLEAN, share : Clients \cup {Nobody},
           summary : BOOLEAN]
NoRecord == [status |-> "absent", approved |-> FALSE, share |-> Nobody, summary |-> FALSE]

Idle == [op |-> "none", stage |-> "idle", run |-> Nobody, copy |-> NoRecord,
         cancel |-> Nobody]

(* The points of executeRun from which an abort may find its cancel function,
   ... *)
Registered == {"resolving", "attaching", "starting", "marking", "ready", "engine",
               "finishing", "finalizing", "submitting", "closing", "deregistering"}

(* ... those at which it has a slot of the semaphore, ... *)
Holding == Registered \cup {"registering", "releasing"}

(* ... and those before the terminal status is written. *)
Unfinished == {"waiting", "registering", "resolving", "attaching", "starting", "marking",
               "ready", "engine", "finishing", "finalizing"}

ChaosDriver == INSTANCE DeadManSwitch
                   WITH Faults <- Executions, NoFault <- Nobody,
                        MayLoseGuard <- "chaos_error" \in Disturbances

Init ==
    /\ repo = [r \in Runs |-> NoRecord]
    /\ pc = [e \in Executions |-> "absent"]
    /\ copy = [e \in Executions |-> NoRecord]
    /\ outcome = [e \in Executions |-> "none"]
    /\ timer = [e \in Executions |-> "none"]
    /\ slots = 0 /\ activeRuns = [r \in Runs |-> Nobody]
    /\ cancelled = {} /\ watching = {} /\ refused = {} /\ submitted = {}
    /\ client = [c \in Clients |-> Idle] /\ calls = 0
    /\ up = TRUE
    /\ ChaosDriver!Init /\ currentFault = Nobody

-----------------------------------------------------------------------------
(* Repository calls                                                        *)

Put(r, rec) == repo' = [repo EXCEPT ![r] = rec]

(* An Update that fails leaves the record alone; so does a Get that fails. *)
TryPut(r, rec) == Put(r, rec) \/ ("storage_error" \in Disturbances /\ UNCHANGED repo)

(* go executeRun(...): the next unused execution of r begins to wait. *)
Spawn(r) ==
    \E n \in 1..MaxStarts :
        /\ pc[<<r, n>>] = "absent"
        /\ \A k \in 1..(n - 1) : pc[<<r, k>>] # "absent"
        /\ pc' = [pc EXCEPT ![<<r, n>>] = "waiting"]

MayRespawn(r) == \E n \in 1..MaxStarts : pc[<<r, n>>] = "absent"

-----------------------------------------------------------------------------
(* StartRun                                                                *)

(* Mutant: the approval hold is recorded, and the run executed anyway *)
StartRun_IgnoresHold(r) ==
    /\ up
    /\ repo[r].status = "absent"
    /\ Put(r, [NoRecord EXCEPT !.status =
                   IF r \in Guarded THEN "awaiting_approval" ELSE "queued"])
    /\ Spawn(r)
    /\ UNCHANGED <<copy, outcome, slots, activeRuns, submitted, chaos, api,
                   cancelled, up>>

StartRun(r) ==
    /\ up
    /\ repo[r].status = "absent"
    /\ Put(r, [NoRecord EXCEPT !.status =
                   IF r \in Guarded THEN "awaiting_approval" ELSE "queued"])
    /\ IF r \in Guarded THEN UNCHANGED pc ELSE Spawn(r)
    /\ UNCHANGED <<copy, outcome, slots, activeRuns, submitted, chaos, api,
                   cancelled, up>>

-----------------------------------------------------------------------------
(* executeRun                                                              *)

Goto(e, label) == pc' = [pc EXCEPT ![e] = label]
At(e, label) == up /\ pc[e] = label
Discard(e) == copy' = [copy EXCEPT ![e] = NoRecord]

AcquireSlot(e) ==
    /\ At(e, "waiting")
    /\ slots < MaxRuns
    /\ slots' = slots + 1
    /\ Goto(e, "registering")
    /\ UNCHANGED <<repo, copy, outcome, activeRuns, submitted, chaos, api, cancelled, up>>

(* Mutant: the approval that came second is taken for a duplicate *)
RegisterCancel_FirstOnly(e) ==
    /\ At(e, "registering")
    /\ activeRuns' = [activeRuns EXCEPT ![RunOf(e)] =
           IF \E o \in Executions \ {e} : RunOf(o) = RunOf(e) /\ pc[o] # "absent" THEN @ ELSE e]
    /\ Goto(e, "resolving")
    /\ UNCHANGED <<repo, copy, outcome, slots, submitted, chaos, api, cancelled, up>>

(* The cancel function becomes findable only after the slot was taken, and in
   place of that of another execution of the run. *)
RegisterCancel(e) ==
    /\ At(e, "registering")
    /\ activeRuns' = [activeRuns EXCEPT ![RunOf(e)] = e]
    /\ Goto(e, "resolving")
    /\ UNCHANGED <<repo, copy, outcome, slots, submitted, chaos, api, cancelled, up>>

(* Mutant: a scenario that cannot be resolved ends the run without a status *)
ResolveScenario_NoFinalize(e) ==
    /\ At(e, "resolving")
    /\ \/ /\ Goto(e, "attaching")
          /\ copy' = [copy EXCEPT ![e] = repo[RunOf(e)]]
       \/ /\ Goto(e, "closing")
          /\ UNCHANGED copy
    /\ UNCHANGED <<repo, outcome, slots, activeRuns, submitted, chaos, api, cancelled, up>>

(* resolveScenario, and the Get of attachScenario. *)
ResolveScenario(e) ==
    /\ At(e, "resolving")
    /\ \/ /\ Goto(e, "attaching")
          /\ copy' = [copy EXCEPT ![e] = repo[RunOf(e)]]
          /\ UNCHANGED outcome
       \/ /\ Goto(e, "finishing")
          /\ outcome' = [outcome EXCEPT ![e] = "failed"]
          /\ UNCHANGED copy
    /\ UNCHANGED <<repo, slots, activeRuns, submitted, chaos, api, cancelled, up>>

AttachScenario(e) ==
    /\ At(e, "attaching")
    /\ TryPut(RunOf(e), copy[e])
    /\ Goto(e, "starting")
    /\ Discard(e)
    /\ UNCHANGED <<outcome, slots, activeRuns, submitted, chaos, api,
                   cancelled, up>>

(* The Get of updateRunStatus, for the Running and for the final status. *)
GetRecord(e, from, to) ==
    /\ At(e, from)
    /\ Goto(e, to)
    /\ copy' = [copy EXCEPT ![e] = repo[RunOf(e)]]
    /\ UNCHANGED <<repo, outcome, slots, activeRuns, submitted, chaos, api,
                   cancelled, up>>

MarkRunning(e) ==
    /\ At(e, "marking")
    /\ TryPut(RunOf(e), [copy[e] EXCEPT !.status = "running"])
    /\ Goto(e, "ready")
    /\ Discard(e)
    /\ UNCHANGED <<outcome, slots, activeRuns, submitted, chaos, api,
                   cancelled, up>>

(* NewLoadEngine, and the chaos timer. *)
StartEngine(e) ==
    /\ At(e, "ready")
    /\ \/ /\ Goto(e, "engine")
          /\ timer' = [timer EXCEPT ![e] = IF RunOf(e) \in ChaosRuns THEN "armed" ELSE @]
          /\ UNCHANGED outcome
       \/ /\ Goto(e, "finishing")
          /\ outcome' = [outcome EXCEPT ![e] = "failed"]
          /\ UNCHANGED timer
    /\ UNCHANGED <<repo, copy, slots, activeRuns, submitted, watching, refused, driver,
                   api, cancelled, up>>

(* engine.Run comes back, with a summary: it fails only without a scenario.
   The circuit breaker aborts at any time, and a cancelled run is aborted. *)
EngineReturns(e) ==
    /\ At(e, "engine")
    /\ \E result \in {"aborted", "completed"} :
           /\ result = "completed" => e \notin cancelled
           /\ outcome' = [outcome EXCEPT ![e] = result]
    /\ Goto(e, "finishing")
    /\ UNCHANGED <<repo, copy, slots, activeRuns, submitted, chaos, api, cancelled, up>>

FinalRecord(e) ==
    [copy[e] EXCEPT !.status = outcome[e], !.summary = @ \/ outcome[e] # "failed"]

FinalizeRun(e) ==
    /\ At(e, "finalizing")
    /\ TryPut(RunOf(e), FinalRecord(e))
    /\ Goto(e, IF outcome[e] = "completed" THEN "submitting" ELSE "closing")
    /\ Discard(e)
    /\ UNCHANGED <<outcome, slots, activeRuns, submitted, chaos, api,
                   cancelled, up>>

(* maybeSubmitBenchmark reads the record once more; every run opted in. *)
SubmitBenchmark(e) ==
    /\ At(e, "submitting")
    /\ \/ submitted' = IF repo[RunOf(e)].summary THEN submitted \cup {e} ELSE submitted
       \/ "storage_error" \in Disturbances /\ UNCHANGED submitted
    /\ Goto(e, "closing")
    /\ UNCHANGED <<repo, copy, outcome, slots, activeRuns, chaos, api, cancelled, up>>

(* ManagedChaosDriver.Revert, whose error nobody here looks at.  Where a fault
   is refused to go its watchdog has been stopped, and the status goes on to name
   it, so that whoever reverts next tries again. *)
RevertSucceeds ==
    /\ IF inForce = Nobody THEN UNCHANGED <<inForce, guard>> ELSE ChaosDriver!Withdraw
    /\ currentFault' = Nobody

StopWatchdog == IF guard = "armed" THEN ChaosDriver!LoseGuard ELSE UNCHANGED <<inForce, guard>>

RevertFails ==
    /\ "chaos_error" \in Disturbances
    /\ currentFault # Nobody
    /\ StopWatchdog
    /\ UNCHANGED currentFault

Revert == RevertSucceeds \/ RevertFails

(* The deferred functions, the last one first: the chaos clean-up, where there
   is one, whose Stop does nothing to a callback that has begun, ... *)
CleanUp(e) ==
    /\ At(e, "closing")
    /\ \/ timer[e] = "none" /\ UNCHANGED <<timer, driver>>
       \/ /\ timer[e] # "none"
          /\ timer' = [timer EXCEPT ![e] = IF @ = "armed" THEN "spent" ELSE @]
          /\ Revert
    /\ Goto(e, "deregistering")
    /\ UNCHANGED <<repo, copy, outcome, slots, activeRuns, submitted, watching, refused,
                   api, cancelled, up>>

(* Mutant: the cancel function of a failed run stays registered *)
Deregister_StaysActive(e) ==
    /\ At(e, "deregistering")
    /\ activeRuns' = [activeRuns EXCEPT ![RunOf(e)] = IF outcome[e] = "failed" THEN @ ELSE Nobody]
    /\ Goto(e, "releasing")
    /\ UNCHANGED <<repo, copy, outcome, slots, submitted, chaos, api, cancelled, up>>

(* ... the deregistration, which takes away the entry of the run, whoever made
   it, ... *)
Deregister(e) ==
    /\ At(e, "deregistering")
    /\ activeRuns' = [activeRuns EXCEPT ![RunOf(e)] = Nobody]
    /\ Goto(e, "releasing")
    /\ UNCHANGED <<repo, copy, outcome, slots, submitted, chaos, api, cancelled, up>>

(* Mutant: a failed run keeps its slot *)
ReleaseSlot_Keeps(e) ==
    /\ At(e, "releasing")
    /\ slots' = IF outcome[e] = "failed" THEN slots ELSE slots - 1
    /\ Goto(e, "done")
    /\ UNCHANGED <<repo, copy, outcome, activeRuns, submitted, chaos, api, cancelled, up>>

(* ... and the release of the slot. *)
ReleaseSlot(e) ==
    /\ At(e, "releasing")
    /\ slots' = slots - 1
    /\ Goto(e, "done")
    /\ UNCHANGED <<repo, copy, outcome, activeRuns, submitted, chaos, api, cancelled, up>>

ExecuteRun(e) ==
    \/ AcquireSlot(e)
    \/ RegisterCancel(e)
    \/ ResolveScenario(e)
    \/ AttachScenario(e)
    \/ GetRecord(e, "starting", "marking")
    \/ MarkRunning(e)
    \/ StartEngine(e)
    \/ EngineReturns(e)
    \/ GetRecord(e, "finishing", "finalizing")
    \/ FinalizeRun(e)
    \/ SubmitBenchmark(e)
    \/ CleanUp(e)
    \/ Deregister(e)
    \/ ReleaseSlot(e)

-----------------------------------------------------------------------------
(* Chaos: the timer callback of a run, and the guards of its fault.        *)

TimerFires(e) ==
    /\ up
    /\ timer[e] = "armed"
    /\ timer' = [timer EXCEPT ![e] = IF e \in cancelled THEN "spent" ELSE "applying"]
    /\ UNCHANGED <<repo, execution, watching, refused, driver, api, cancelled, up>>

(* ManagedChaosDriver.Apply: the fault and its two guards, ... *)
ApplySucceeds(e) ==
    /\ ChaosDriver!Inject(e)
    /\ watching' = watching \cup {e}
    /\ timer' = [timer EXCEPT ![e] = "spent"]

(* ... or an error, which the callback ignores.  The watchdog of the fault
   before was stopped and the status names the new one; the old one was removed
   first, or the kernel has refused that too. *)
ApplyFails(e) ==
    /\ "chaos_error" \in Disturbances
    /\ \/ inForce # Nobody /\ ChaosDriver!Withdraw
       \/ StopWatchdog
    /\ timer' = [timer EXCEPT ![e] = "failed"]
    /\ UNCHANGED watching

(* Mutant: Apply is given a context that is never cancelled *)
TimerApplies_Unwatched(e) ==
    /\ up
    /\ timer[e] = "applying"
    /\ timer' = [timer EXCEPT ![e] = "spent"]
    /\ ChaosDriver!Inject(e)
    /\ currentFault' = e
    /\ UNCHANGED <<repo, execution, watching, refused, api, cancelled, up>>

TimerApplies(e) ==
    /\ up
    /\ timer[e] = "applying"
    /\ ApplySucceeds(e) \/ ApplyFails(e)
    /\ currentFault' = e
    /\ UNCHANGED <<repo, execution, refused, api, cancelled, up>>

SameId(e, o) == FaultOf[RunOf(e)] = FaultOf[RunOf(o)]

(* The monitor knows its fault by the ID alone, and tries once. *)
MonitorFires(e) ==
    /\ up
    /\ e \in watching \cap cancelled
    /\ watching' = watching \ {e}
    /\ IF currentFault # Nobody /\ SameId(e, currentFault)
       THEN \/ RevertSucceeds /\ UNCHANGED refused
            \/ RevertFails /\ refused' = refused \cup {e}
       ELSE UNCHANGED <<driver, refused>>
    /\ UNCHANGED <<repo, execution, timer, api, cancelled, up>>

(* A watchdog whose callback waited for the mutex while it was stopped reverts
   whatever is in force by then. *)
WatchdogFires ==
    /\ up
    /\ currentFault # Nobody
    /\ Revert
    /\ UNCHANGED <<repo, execution, timer, watching, refused, api, cancelled, up>>

-----------------------------------------------------------------------------
(* The API handlers                                                        *)

Begins(c, op, r, stage, rec, cancel) ==
    /\ up
    /\ op \in Operations
    /\ client[c] = Idle
    /\ calls < MaxCalls
    /\ calls' = calls + 1
    /\ client' = [client EXCEPT ![c] =
           [op |-> op, stage |-> stage, run |-> r, copy |-> rec, cancel |-> cancel]]

Serving(c, op, stage) == up /\ client[c].op = op /\ client[c].stage = stage
Becomes(c, new) == client' = [client EXCEPT ![c] = new] /\ UNCHANGED calls

(* ApproveRun *)
ApproveGets(c, r) ==
    /\ repo[r].status = "awaiting_approval"
    /\ Begins(c, "approve", r, "update", repo[r], Nobody)
    /\ UNCHANGED <<repo, execution, chaos, cancelled, up>>

ApproveUpdates(c) ==
    LET r == client[c].run IN
    /\ Serving(c, "approve", "update")
    /\ MayRespawn(r)
    /\ \/ /\ Put(r, [client[c].copy EXCEPT !.status = "queued", !.approved = TRUE])
          /\ Spawn(r)
       \/ /\ "storage_error" \in Disturbances
          /\ UNCHANGED <<repo, pc>>
    /\ Becomes(c, Idle)
    /\ UNCHANGED <<copy, outcome, slots, activeRuns, submitted, chaos, cancelled, up>>

(* AbortRun *)
AbortLooksUp(c, r) ==
    /\ repo[r].status # "absent"
    /\ Begins(c, "abort", r, "revert", NoRecord, activeRuns[r])
    /\ UNCHANGED <<repo, execution, chaos, cancelled, up>>

AbortReverts(c) ==
    /\ Serving(c, "abort", "revert")
    /\ Revert
    /\ Becomes(c, [client[c] EXCEPT !.stage = "cancel"])
    /\ UNCHANGED <<repo, execution, timer, watching, refused, cancelled, up>>

AbortCancels(c) ==
    /\ Serving(c, "abort", "cancel")
    /\ cancelled' = cancelled \cup ({client[c].cancel} \ {Nobody})
    /\ Becomes(c, [client[c] EXCEPT !.stage = "get"])
    /\ UNCHANGED <<repo, execution, chaos, up>>

AbortGets(c) ==
    LET rec == repo[client[c].run] IN
    /\ Serving(c, "abort", "get")
    /\ Becomes(c, IF rec.status \in {"running", "queued"}
                  THEN [client[c] EXCEPT !.stage = "update", !.copy = rec]
                  ELSE Idle)
    /\ UNCHANGED <<repo, execution, chaos, cancelled, up>>

AbortUpdates(c) ==
    /\ Serving(c, "abort", "update")
    /\ TryPut(client[c].run, [client[c].copy EXCEPT !.status = "aborted"])
    /\ Becomes(c, Idle)
    /\ UNCHANGED <<execution, chaos, cancelled, up>>

(* handleCreateShareLink; the token is named after the request that drew it. *)
ShareGets(c, r) ==
    /\ repo[r].status # "absent"
    /\ repo[r].share = Nobody
    /\ Begins(c, "share", r, "update", repo[r], Nobody)
    /\ UNCHANGED <<repo, execution, chaos, cancelled, up>>

ShareUpdates(c) ==
    LET r == client[c].run IN
    /\ Serving(c, "share", "update")
    /\ TryPut(r, [client[c].copy EXCEPT !.share = c])
    /\ Becomes(c, Idle)
    /\ UNCHANGED <<execution, chaos, cancelled, up>>

Handle(c) ==
    \/ \E r \in Runs : ApproveGets(c, r) \/ AbortLooksUp(c, r) \/ ShareGets(c, r)
    \/ ApproveUpdates(c)
    \/ AbortReverts(c) \/ AbortCancels(c) \/ AbortGets(c) \/ AbortUpdates(c)
    \/ ShareUpdates(c)

-----------------------------------------------------------------------------
(* main returns, or the process dies: no run is waited for.  Only the
   repository survives, and nothing looks at its unfinished runs again. *)
Stop ==
    /\ up /\ "stop" \in Disturbances
    /\ up' = FALSE
    /\ pc' = [e \in Executions |-> IF pc[e] \in {"absent", "done"} THEN pc[e] ELSE "lost"]
    /\ copy' = [e \in Executions |-> NoRecord]
    /\ timer' = [e \in Executions |-> "none"]
    /\ slots' = 0 /\ activeRuns' = [r \in Runs |-> Nobody]
    /\ cancelled' = {} /\ watching' = {} /\ refused' = {} /\ submitted' = {}
    /\ client' = [c \in Clients |-> Idle]
    /\ inForce' = Nobody /\ guard' = "off" /\ currentFault' = Nobody
    /\ UNCHANGED <<repo, outcome, calls>>

Restart ==
    /\ ~up
    /\ up' = TRUE
    /\ UNCHANGED <<repo, execution, chaos, api, cancelled>>

Next ==
    \/ \E r \in Runs : StartRun(r)
    \/ \E e \in Executions : ExecuteRun(e) \/ TimerFires(e) \/ TimerApplies(e) \/ MonitorFires(e)
    \/ WatchdogFires
    \/ \E c \in Clients : Handle(c)
    \/ Stop
    \/ Restart

Spec == Init /\ [][Next]_vars

(* Goroutines that can run do run, the semaphore is granted to a waiter once
   it is free, a load test ends, and a request is served. *)
Fairness ==
    /\ \A e \in Executions : WF_vars(ExecuteRun(e))
    /\ \A c \in Clients : WF_vars(Handle(c) /\ client[c] # Idle)

LiveSpec == Spec /\ Fairness

(* Context monitors run; neither the watchdog nor the end of a run is
   counted on. *)
MonitorSpec == Spec /\ \A e \in Executions : WF_vars(MonitorFires(e))

-----------------------------------------------------------------------------
(* Properties                                                              *)

TypeOK ==
    /\ repo \in [Runs -> Record]
    /\ pc \in [Executions -> Holding \cup {"absent", "waiting", "done", "lost"}]
    /\ copy \in [Executions -> Record]
    /\ outcome \in [Executions -> Terminal \cup {"none"}]
    /\ timer \in [Executions -> {"none", "armed", "applying", "spent", "failed"}]
    /\ slots \in 0..MaxRuns
    /\ activeRuns \in [Runs -> Executions \cup {Nobody}]
    /\ cancelled \subseteq Executions
    /\ watching \subseteq Executions
    /\ refused \subseteq Executions
    /\ submitted \subseteq Executions
    /\ client \in [Clients -> [op : {"none", "approve", "abort", "share"},
                               stage : {"idle", "revert", "cancel", "get", "update"},
                               run : Runs \cup {Nobody}, copy : Record,
                               cancel : Executions \cup {Nobody}]]
    /\ calls \in 0..MaxCalls
    /\ up \in BOOLEAN
    /\ inForce \in Executions \cup {Nobody}
    /\ guard \in {"off", "armed", "lost"}
    /\ currentFault \in Executions \cup {Nobody}

(* The semaphore counts the executions that have not left yet: none leaves
   without giving its slot back, none gives it back twice. *)
SlotsMatch == slots = Cardinality({e \in Executions : pc[e] \in Holding})

(* A cancel function that an abort can find belongs to an execution of that
   very run which has not left, or is about to take it away. *)
ActiveIsLive ==
    \A r \in Runs : activeRuns[r] # Nobody =>
        RunOf(activeRuns[r]) = r /\ pc[activeRuns[r]] \in Registered

(* No record is left showing queued or running without an execution that
   will still write its terminal status, whatever stale copies are written
   in between. *)
NoStuckRun ==
    \A r \in Runs : repo[r].status \in {"queued", "running"} =>
        \E e \in Executions : RunOf(e) = r /\ pc[e] \in Unfinished

(* A guarded run executes only with its approval on record. *)
ExecutedIsApproved ==
    \A e \in Executions : RunOf(e) \in Guarded /\ pc[e] # "absent" => repo[RunOf(e)].approved

(* An execution that has registered its cancel function can be found, and so
   cancelled, by AbortRun until it deregisters it, unless another execution of
   the run has come to register as well. *)
Abortable ==
    \A e \in Executions :
        /\ pc[e] \in Registered
        /\ \A o \in Executions \ {e} :
               RunOf(o) = RunOf(e) => pc[o] \in {"absent", "waiting", "registering", "lost"}
        => activeRuns[RunOf(e)] = e

(* A run that was aborted while it waited for a slot does not get one. *)
AbortedIsNotExecuted ==
    [][\A e \in Executions : AcquireSlot(e) => repo[RunOf(e)].status # "aborted"]_vars

(* Every run that was accepted or approved settles, and stays settled. *)
RunsSettle ==
    \A r \in Runs : repo[r].status \in {"queued", "running"} ~> [](repo[r].status \in Terminal)

(* The fault of a cancelled run ends even if it was applied after the
   cancellation, or AbortRun could not remove it, through the context monitor
   alone, unless the kernel refused it as well.  A monitor cannot act when the
   Apply of a fault with another ID has failed and left its own in place. *)
CancelledFaultEnds ==
    \A e \in Executions :
        (inForce = e /\ e \in cancelled) ~>
            \/ inForce # e
            \/ e \in refused
            \/ \E o \in Executions : timer[o] = "failed" /\ ~SameId(e, o)
=============================================================================
