----------------------------- MODULE LoadEngine -----------------------------
(***************************************************************************)
(* LoadEngine.Run (pkg/loadengine/engine.go) and its three load profiles   *)
(* (pool.go): the goroutines of the virtual users, the results they hand   *)
(* to the metrics and the sliding window, and what stops them: the end of  *)
(* the duration, the circuit breaker, or the context of the caller.        *)
(***************************************************************************)
EXTENDS CircuitBreaker, VUSession

CONSTANTS
    Profiles,      \* load profiles: "flat_vu", "target_rps", "ramping"
    VUs,           \* of the flat profile
    MaxInflight,   \* of the target_rps profile, 10 seconds' worth of sessions
    Stages,        \* of the ramping profile: the TargetVUs of every stage
    MaxDelay,      \* slices that may pass between a recorder's look at the
                   \* clock and its turn at the window's lock
    MaxSessions,   \* bound: sessions, and ticks that found no room for one
    MaxSlices      \* bound: slices of time

ASSUME EngineConstants ==
    /\ Profiles \subseteq {"flat_vu", "target_rps", "ramping"}
    /\ IsFiniteSet(Workers)
    /\ VUs \in 1..Cardinality(Workers) /\ MaxInflight \in 1..Cardinality(Workers)
    /\ Stages \in Seq(0..Cardinality(Workers)) /\ Stages # <<>>
    /\ MaxDelay \in Nat /\ MaxSessions \in Nat /\ MaxSlices \in Nat \ {0}

VARIABLES
    profile,
    engine,      \* where Run is; "crashed" once the process has panicked
    stage,       \* stageIdx of runRamping
    active,      \* the WaitGroup of the workers, and activeVUs
    cause,       \* context.Cause(runCtx); "none" while it is not Done
    parentDone,  \* the context of the caller is Done
    tick,        \* the ticker of the breaker's monitor has a tick for it
    sessions,    \* sessionSeq, and dropped ticks
    metrics,     \* MetricsAccumulator: requests and errors
    performed,   \* history: steps that were carried out, and dropped ticks
    summary      \* what Run returned

pool == <<stage, active, sessions>>
stop == <<cause, parentDone>>
watch == <<breaker, evidence, tick>>
telemetry == <<window, metrics, performed>>
vars == <<now, watch, telemetry, session, profile, engine, pool, stop, summary>>

NoSummary == [status |-> "none", requests |-> 0, errors |-> 0]

Stopped == cause # "none"

Init ==
    /\ BreakerInit
    /\ profile \in Profiles
    /\ session = [w \in Workers |-> Gone]
    /\ engine = "start" /\ stage = 1 /\ active = 0 /\ sessions = 0
    /\ cause = "none" /\ parentDone = FALSE
    /\ tick = FALSE
    /\ metrics = [requests |-> 0, errors |-> 0] /\ performed = 0
    /\ summary = NoSummary

-----------------------------------------------------------------------------
(* The load profiles: what starts workers, until runCtx is Done.           *)

Idle == {w \in Workers : session[w].pc = "gone"}

(* n more goroutines; it does not matter which of the free names they get. *)
StartWorkers(n, at) ==
    LET new == CHOOSE set \in SUBSET Idle : Cardinality(set) = n IN
    /\ new \in SUBSET Idle /\ Cardinality(new) = n
    /\ session' = [w \in Workers |-> IF w \in new THEN at ELSE session[w]]
    /\ active' = active + n

(* runFlatVU: all workers at once, which then take session after session. *)
RunFlatVU ==
    /\ engine = "start" /\ profile = "flat_vu"
    /\ StartWorkers(VUs, Ready)
    /\ engine' = "waiting"
    /\ UNCHANGED <<now, watch, telemetry, profile, stage, sessions, stop, summary>>

StartLoop ==
    /\ engine = "start" /\ profile # "flat_vu"
    /\ engine' = "loop"
    /\ UNCHANGED <<now, watch, telemetry, session, profile, pool, stop, summary>>

StopLoop ==
    /\ engine = "loop" /\ Stopped
    /\ engine' = "waiting"
    /\ UNCHANGED <<now, watch, telemetry, session, profile, pool, stop, summary>>

AddMetrics(result) ==
    metrics' = [requests |-> metrics.requests + 1,
                errors |-> metrics.errors + (IF IsError(result) THEN 1 ELSE 0)]

(* One tick of runTargetRPS: a session of its own, or a failure on record. *)
LaunchSession ==
    /\ engine = "loop" /\ profile = "target_rps"
    /\ sessions < MaxSessions /\ active < MaxInflight
    /\ sessions' = sessions + 1
    /\ StartWorkers(1, NewSession)
    /\ UNCHANGED <<now, watch, telemetry, profile, engine, stage, stop, summary>>

DropSession ==
    /\ engine = "loop" /\ profile = "target_rps"
    /\ sessions < MaxSessions /\ active >= MaxInflight
    /\ sessions' = sessions + 1
    /\ AddMetrics("error") /\ WindowRecord(now, "error")
    /\ performed' = performed + 1
    /\ UNCHANGED <<now, watch, session, profile, engine, stage, active, stop, summary>>

WorkersWanted(target) == IF target > active THEN target - active ELSE 0

(* The interpolation of runRamping, truncated: it does not reach the target
   of its stage, where the next stage sets out from. *)
RampTargets ==
    LET from == IF stage = 1 THEN 0 ELSE Stages[stage - 1]
        to == Stages[stage]
    IN  IF from <= to THEN {from} \cup from..(to - 1) ELSE to..from

RampUp ==
    /\ engine = "loop" /\ profile = "ramping" /\ stage <= Len(Stages)
    /\ \E target \in RampTargets :
           WorkersWanted(target) > 0 /\ StartWorkers(WorkersWanted(target), Ready)
    /\ UNCHANGED <<now, watch, telemetry, profile, engine, stage, sessions, stop, summary>>

NextStage ==
    /\ engine = "loop" /\ profile = "ramping"
    /\ IF stage < Len(Stages) THEN stage' = stage + 1 /\ UNCHANGED engine
                              ELSE engine' = "waiting" /\ UNCHANGED stage
    /\ UNCHANGED <<now, watch, telemetry, session, profile, active, sessions, stop, summary>>

-----------------------------------------------------------------------------
(* A worker                                                                *)

(* Mutant: wg.Done is left out *)
Leave_NotDone(w) == Become(w, Gone) /\ UNCHANGED active

Leave(w) == Become(w, Gone) /\ active' = active - 1

(* The head of a worker's loop: another session, or the end. *)
TakeSession(w) ==
    /\ Is(w, "ready")
    /\ \/ Stopped /\ Leave(w) /\ UNCHANGED sessions
       \/ /\ ~Stopped /\ sessions < MaxSessions
          /\ sessions' = sessions + 1
          /\ Become(w, NewSession)
          /\ UNCHANGED active
    /\ UNCHANGED <<now, watch, telemetry, profile, engine, stage, stop, summary>>

ExecuteStep(w) ==
    /\ \/ LoopHead(w, Stopped)
       \/ \E outcome \in Outcomes : StepSucceeds(w, outcome) \/ StepFails(w, outcome)
       \/ ~Stopped /\ RetryStep(w)
    /\ performed' = performed + Len(session'[w].history) - Len(session[w].history)
    /\ UNCHANGED <<now, watch, window, metrics, profile, engine, pool, stop, summary>>

(* Cancelled between two attempts, executeStepWithRetry returns no result,
   Execute looks into it, and nothing recovers from that. *)
Panic(w) ==
    /\ Is(w, "retry") /\ Stopped
    /\ engine' = "crashed"
    /\ UNCHANGED <<now, watch, telemetry, session, profile, pool, stop, summary>>

(* executeSession reports when the session is over: every step to the
   metrics, which look at no clock, and then to the window, which looks at
   the clock before it has its lock. *)
RecordStep(w) ==
    /\ Is(w, "reporting") /\ session[w].history # <<>>
    /\ AddMetrics(Head(session[w].history))
    /\ Become(w, [session[w] EXCEPT !.pc = "stamped", !.stamp = now])
    /\ UNCHANGED <<now, watch, window, performed, profile, engine, pool, stop, summary>>

RecordInWindow(w) ==
    /\ Is(w, "stamped")
    /\ WindowRecord(session[w].stamp, Head(session[w].history))
    /\ Become(w, [session[w] EXCEPT !.pc = "reporting", !.stamp = 0, !.history = Tail(@)])
    /\ UNCHANGED <<now, watch, metrics, performed, profile, engine, pool, stop, summary>>

FinishSession(w) ==
    /\ Is(w, "reporting") /\ session[w].history = <<>>
    /\ IF profile = "target_rps" THEN Leave(w)
       ELSE Become(w, Ready) /\ UNCHANGED active
    /\ UNCHANGED <<now, watch, telemetry, profile, engine, stage, sessions, stop, summary>>

WorkerStep(w) ==
    \/ TakeSession(w) \/ ExecuteStep(w) \/ Panic(w)
    \/ RecordStep(w) \/ RecordInWindow(w) \/ FinishSession(w)

-----------------------------------------------------------------------------
(* What stops a run.  The first cause is the one that stays.               *)

Cancel(why) == cause' = IF Stopped THEN cause ELSE why

DurationElapses ==
    /\ engine # "done" /\ ~Stopped
    /\ Cancel("elapsed")
    /\ UNCHANGED <<now, watch, telemetry, session, profile, engine, pool, parentDone, summary>>

CallerCancels ==
    /\ engine # "done" /\ ~parentDone
    /\ parentDone' = TRUE
    /\ Cancel("parent")
    /\ UNCHANGED <<now, watch, telemetry, session, profile, engine, pool, summary>>

(* A slice of time is over. *)
Tick ==
    /\ engine # "done" /\ now + 1 < MaxSlices
    /\ \A w \in Workers : Is(w, "stamped") => now + 1 - session[w].stamp <= MaxDelay
    /\ now' = now + 1
    /\ tick' = TRUE
    /\ measured' = Append(measured, NoCounts)
    /\ UNCHANGED <<buckets, breaker, evidence, metrics, performed, session, profile,
                   engine, pool, stop, summary>>

(* Start of the monitor: while there is a tick, it may take that although
   runCtx is Done. *)
MonitorEvaluates ==
    /\ engine # "done" /\ tick
    /\ tick' = FALSE
    /\ IF breaker.tripped THEN UNCHANGED <<breaker, evidence>> ELSE Evaluate
    /\ IF breaker'.tripped THEN Cancel("tripped") ELSE UNCHANGED cause
    /\ UNCHANGED <<now, telemetry, session, profile, engine, pool, parentDone, summary>>

-----------------------------------------------------------------------------
(* Run, once the profile has nothing more to start.                        *)

(* Mutant: the sessions in flight are not waited for *)
PoolReturns_NoWait ==
    /\ engine = "waiting"
    /\ engine' = "returning"
    /\ UNCHANGED <<now, watch, telemetry, session, profile, pool, stop, summary>>

PoolReturns ==
    /\ engine = "waiting" /\ active = 0
    /\ engine' = "returning"
    /\ UNCHANGED <<now, watch, telemetry, session, profile, pool, stop, summary>>

Return(status) ==
    /\ engine' = "done"
    /\ summary' = [status |-> status, requests |-> metrics.requests, errors |-> metrics.errors]
    /\ Cancel("returned")
    /\ UNCHANGED <<now, watch, telemetry, session, profile, pool, parentDone>>

ReadTripped ==
    /\ engine = "returning"
    /\ IF breaker.tripped THEN Return("aborted_by_circuit_breaker")
       ELSE /\ engine' = "untripped"
            /\ UNCHANGED <<now, watch, telemetry, session, profile, pool, stop, summary>>

(* Mutant: the caller's context is not asked *)
StatusOf_NoCaller == IF cause = "tripped" THEN "aborted_by_circuit_breaker" ELSE "completed"

StatusOf ==
    IF cause = "tripped" THEN "aborted_by_circuit_breaker"
    ELSE IF parentDone THEN "context_cancelled" ELSE "completed"

ReadCause == engine = "untripped" /\ Return(StatusOf)

EngineStep ==
    \/ RunFlatVU \/ StartLoop \/ StopLoop
    \/ LaunchSession \/ DropSession \/ RampUp \/ NextStage
    \/ PoolReturns \/ ReadTripped \/ ReadCause

Next ==
    /\ engine # "crashed"
    /\ \/ EngineStep
       \/ \E w \in Workers : WorkerStep(w)
       \/ DurationElapses \/ CallerCancels
       \/ Tick \/ MonitorEvaluates

Spec == Init /\ [][Next]_vars

(* Goroutines run, and requests end within their timeout. *)
ReturnStep ==
    engine # "crashed" /\ (RunFlatVU \/ StartLoop \/ StopLoop \/ PoolReturns \/ ReadTripped \/ ReadCause)

LiveSpec ==
    /\ Spec
    /\ WF_vars(ReturnStep)
    /\ \A w \in Workers : WF_vars(engine # "crashed" /\ WorkerStep(w))

-----------------------------------------------------------------------------
(* Properties                                                              *)

TypeOK ==
    /\ now \in 0..(MaxSlices - 1)
    /\ buckets \in [0..(NumBuckets - 1) -> [slice : Nat \cup {Never}, counts : Counts]]
    /\ breaker \in [streaks : [Limits -> 0..ConsecutiveBreaches], tripped : BOOLEAN]
    /\ measured \in Seq(Counts) /\ Len(measured) = now + 1
    /\ evidence \in Seq(SUBSET Limits) /\ Len(evidence) <= ConsecutiveBreaches
    /\ session \in [Workers -> Session]
    /\ \A w \in Workers : Len(session[w].history) <= MaxSteps
    /\ profile \in Profiles
    /\ engine \in {"start", "loop", "waiting", "returning", "untripped", "done", "crashed"}
    /\ stage \in DOMAIN Stages /\ active \in 0..Cardinality(Workers)
    /\ cause \in {"none", "elapsed", "parent", "tripped", "returned"}
    /\ parentDone \in BOOLEAN /\ tick \in BOOLEAN
    /\ sessions \in 0..MaxSessions
    /\ metrics \in [requests : Nat, errors : Nat] /\ performed \in Nat
    /\ summary \in [status : {"none", "completed", "aborted_by_circuit_breaker",
                              "context_cancelled"}, requests : Nat, errors : Nat]

Live == {w \in Workers : session[w].pc # "gone"}

(* When Run has returned no goroutine of it sends load any more, and its
   summary has every step that was carried out, once. *)
SummaryIsFinal ==
    engine = "done" =>
        /\ Live = {}
        /\ summary.requests = performed
        /\ LET total == SumOf(0..now, InSlices)
           IN  summary.requests = total.requests /\ summary.errors = total.errors

(* A profile never has more users on the target at a time than it was asked
   for, whatever starts and ends meanwhile. *)
LoadIsBounded ==
    /\ active = Cardinality(Live)
    /\ profile = "flat_vu" => active <= VUs
    /\ profile = "target_rps" => active <= MaxInflight
    /\ profile = "ramping" => \E i \in 1..stage : active <= Stages[i]

(* As long as no recorder is kept waiting for a whole round of the ring, the
   window knows exactly what was recorded in each of its slices. *)
WindowIsExact ==
    \A s \in 0..now : InWindow(s) => BucketOf(s) = Measured(s)

(* The breaker trips only when the results themselves, and not what is left
   of them in the window, broke the same limit at so many evaluations in a
   row. *)
TripIsJustified ==
    breaker.tripped =>
        /\ Len(evidence) = ConsecutiveBreaches
        /\ \E limit \in Limits : \A i \in DOMAIN evidence : limit \in evidence[i]

(* What a run is reported to have been is what stopped it: a completed one
   was stopped by nobody, and one the breaker stopped is never reported as
   anything else. *)
StatusIsEarned ==
    engine = "done" =>
        /\ summary.status = "completed" => ~parentDone
        /\ summary.status = "completed" =>
               cause = "elapsed" \/ (cause = "returned" /\ profile = "ramping")
        /\ cause = "tripped" => summary.status = "aborted_by_circuit_breaker"
        /\ summary.status = "context_cancelled" => parentDone

(* A run whose context is done, for whatever reason, returns. *)
StoppedRunReturns == Stopped ~> (engine \in {"done", "crashed"})

(* Execute ends a session whose context is cancelled like any other. *)
NoPanic == engine # "crashed"
=============================================================================
