------------------------ MODULE BreakingPointSearch ------------------------
(***************************************************************************)
(* The two searches for the point where an application breaks: the         *)
(* capacity search (pkg/autopilot) over virtual users and the chaos fuzzer *)
(* (pkg/autofuzz) over fault severity, both on the bisection of            *)
(* pkg/search, run by pkg/server/search_coordinator.go.                    *)
(*                                                                         *)
(* A trial takes time.  A fuzzer trial injects its fault through the chaos *)
(* driver of the server, which test runs and their aborts use as well, so  *)
(* the fault may be gone or replaced before the trial ends.                *)
(*                                                                         *)
(* Inputs are floats in the code.  They are integers here, in a unit so    *)
(* fine that every halving is exact, as it is for a float64.               *)
(***************************************************************************)
EXTENDS Integers, FiniteSets

CONSTANTS
    Min, Max,       \* the searched range of each kind of search
    Tolerance,      \* of each kind of search
    MaxIterations,
    Width,          \* hi - lo of each kind after every number of halvings
    Unit,           \* units in one virtual user
    MinVUs, MaxVUs, \* the range of the capacity search, in users
    Applications,   \* for each kind, where an application may be healthy: sets
                    \* of users, or of severities
    Disturbances    \* "cancel", "refusal", "other_revert", "other_apply"

Kinds == {"autopilot", "autofuzz"}

ASSUME SearchConstants ==
    /\ Min \in [Kinds -> Nat] /\ Max \in [Kinds -> Nat] /\ Tolerance \in [Kinds -> Nat \ {0}]
    /\ MaxIterations \in Nat \ {0}
    /\ Width \in [Kinds -> [0..MaxIterations -> Nat \ {0}]]
    /\ \A k \in Kinds :
           /\ Max[k] = Min[k] + Width[k][0]
           /\ \A i \in 0..(MaxIterations - 1) : Width[k][i] = 2 * Width[k][i + 1]
    /\ Unit \in Nat \ {0} /\ MinVUs \in Nat \ {0} /\ MaxVUs \in Nat
    /\ Min["autopilot"] = MinVUs * Unit /\ Max["autopilot"] = MaxVUs * Unit
    /\ Tolerance["autopilot"] >= 2 * Unit  \* ToleranceVUs is 5
    /\ Applications \in [Kinds -> SUBSET SUBSET Nat]
    /\ Disturbances \subseteq {"cancel", "refusal", "other_revert", "other_apply"}

VARIABLES
    kind,            \* which search this is
    healthy,         \* where the application keeps its health score
    phase,           \* "max", "min" and "loop" probe; then "done" or "error"
    lo, hi,          \* the bisected range
    iteration,       \* i
    trials,          \* report.Trials, and whether the fault stayed in force
    running,         \* a trial's load test is running
    intact,          \* so far to its full length, and nobody touched its fault
    cancelled,       \* the context of the request is Done
    lastPassingVUs,  \* of the capacity search
    report,          \* the result, once there is one
    inForce,         \* whose fault the kernel applies
    current,         \* whose fault the status of the chaos driver names
    monitors,        \* trials whose monitor waits for the end of the request
    refused          \* whose calls the kernel refused since the last trial began:
                     \* Reverts of the trial and of monitors, an Apply of others

bisection == <<phase, lo, hi, iteration, trials, lastPassingVUs, report>>
driver == <<inForce, current, monitors, refused>>
vars == <<kind, healthy, bisection, running, intact, cancelled, driver>>

Probing == {"max", "min", "loop"}
NoReport == [found |-> FALSE, breaking |-> 0, safeVUs |-> 0]

(* The virtual users a trial runs with: its input, rounded. *)
VUs(x) == LET rounded == (2 * x + Unit) \div (2 * Unit)
          IN  IF rounded < 1 THEN 1 ELSE rounded

Inputs == Min[kind]..Max[kind]

(* What a trial at x puts the application through, and how it fares. *)
Load(x) == IF kind = "autopilot" THEN VUs(x) ELSE x
Healthy(x) == Load(x) \in healthy

Init ==
    /\ kind \in Kinds
    /\ healthy \in Applications[kind]
    /\ phase = "max" /\ lo = Min[kind] /\ hi = Max[kind] /\ iteration = 0
    /\ trials = {} /\ running = FALSE /\ intact = TRUE /\ cancelled = FALSE
    /\ lastPassingVUs = MinVUs
    /\ report = NoReport
    /\ inForce = "nobody" /\ current = "nobody" /\ monitors = 0 /\ refused = {}

-----------------------------------------------------------------------------
(* ManagedChaosDriver.Revert: where there is a fault to revert, the kernel may
   refuse to let go of it.  Its watchdog has been stopped by then. *)

RevertSucceeds == inForce' = "nobody" /\ current' = "nobody"

RevertFails ==
    /\ "refusal" \in Disturbances
    /\ current # "nobody"
    /\ UNCHANGED <<inForce, current>>

(* An Apply that fails is named all the same.  It has removed the fault in
   force, or could not do that either. *)
ApplyFails(owner) ==
    /\ "refusal" \in Disturbances
    /\ inForce' \in {inForce, "nobody"}
    /\ current' = owner

-----------------------------------------------------------------------------
(* One trial: evaluate, with the trialRunner in it.                        *)

Probe == CASE phase = "max" -> Max[kind]
           [] phase = "min" -> Min[kind]
           [] OTHER -> lo + (hi - lo) \div 2

Continues == iteration < MaxIterations /\ hi - lo > Tolerance[kind]

MayProbe == phase \in {"max", "min"} \/ (phase = "loop" /\ Continues)

(* The fuzzer injects the trial's fault.  The context is looked at between
   the trials of the loop only. *)
StartTrial ==
    /\ MayProbe /\ ~running
    /\ phase = "loop" => ~cancelled
    /\ running' = TRUE
    /\ intact' = ~cancelled
    /\ IF kind = "autofuzz"
       THEN /\ inForce' = "trial" /\ current' = "trial"
            /\ monitors' = monitors + 1 /\ refused' = {}
       ELSE UNCHANGED driver
    /\ UNCHANGED <<kind, healthy, bisection, cancelled>>

(* Mutant: the fault is left to its guards. *)
RevertTrial_Never == UNCHANGED driver

(* The deferred Revert is for whatever fault is in force by now, and its error
   is dropped. *)
RevertTrial ==
    /\ IF kind = "autofuzz"
       THEN \/ RevertSucceeds /\ UNCHANGED refused
            \/ RevertFails /\ refused' = refused \cup {"trial"}
       ELSE UNCHANGED <<inForce, current, refused>>
    /\ UNCHANGED monitors

(* The score at x is at or above the threshold.  What a trial says that was
   cut short or lost its fault is anybody's guess. *)
Passes(x, pass) == intact => pass = Healthy(x)

Measured(pass) ==
    /\ running
    /\ Passes(Probe, pass)
    /\ running' = FALSE
    /\ RevertTrial
    /\ trials' = trials \cup {[x |-> Probe, pass |-> pass, intact |-> intact]}
    /\ lastPassingVUs' = IF kind = "autopilot" /\ pass /\ VUs(Probe) > lastPassingVUs
                         THEN VUs(Probe) ELSE lastPassingVUs
    /\ UNCHANGED <<kind, healthy, intact, cancelled>>

Survived == [found |-> FALSE, breaking |-> 0, safeVUs |-> MaxVUs]

Broken(x) == [found |-> TRUE, breaking |-> x, safeVUs |-> lastPassingVUs]

MaxProbe(pass) ==
    /\ phase = "max"
    /\ Measured(pass)
    /\ IF pass THEN phase' = "done" /\ report' = Survived
               ELSE phase' = "min" /\ UNCHANGED report
    /\ UNCHANGED <<lo, hi, iteration>>

(* Mutant: the loop is entered whatever the gentlest input gave. *)
MinProbe_Unchecked(pass) ==
    /\ phase = "min"
    /\ Measured(pass)
    /\ phase' = "loop"
    /\ UNCHANGED <<report, lo, hi, iteration>>

MinProbe(pass) ==
    /\ phase = "min"
    /\ Measured(pass)
    /\ IF pass THEN phase' = "loop" /\ UNCHANGED report
               ELSE phase' = "done" /\ report' = Broken(Min[kind])
    /\ UNCHANGED <<lo, hi, iteration>>

Halve(pass) ==
    /\ phase = "loop"
    /\ Measured(pass)
    /\ lo' = IF pass THEN Probe ELSE lo
    /\ hi' = IF pass THEN hi ELSE Probe
    /\ iteration' = iteration + 1
    /\ UNCHANGED <<phase, report>>

(* Mutant: the passing end of the range is reported. *)
Conclude_Low ==
    /\ phase = "loop" /\ ~Continues
    /\ phase' = "done"
    /\ report' = Broken(lo)
    /\ UNCHANGED <<kind, healthy, lo, hi, iteration, trials, running, intact,
                   cancelled, lastPassingVUs, driver>>

Conclude ==
    /\ phase = "loop" /\ ~Continues
    /\ phase' = "done"
    /\ report' = Broken(hi)
    /\ UNCHANGED <<kind, healthy, lo, hi, iteration, trials, running, intact,
                   cancelled, lastPassingVUs, driver>>

(* Mutant: a break that leaves the select and not the loop. *)
Cancelled_BreaksSelect ==
    /\ phase = "loop" /\ Continues /\ ~running
    /\ cancelled
    /\ UNCHANGED vars

Cancelled ==
    /\ phase = "loop" /\ Continues /\ ~running
    /\ cancelled
    /\ phase' = "error"
    /\ UNCHANGED <<kind, healthy, lo, hi, iteration, trials, running, intact,
                   cancelled, lastPassingVUs, report, driver>>

(* The engine or the chaos driver refuses the trial. *)
TrialRefused ==
    /\ "refusal" \in Disturbances
    /\ MayProbe /\ ~running
    /\ phase' = "error"
    /\ \/ UNCHANGED <<inForce, current>>
       \/ kind = "autofuzz" /\ ApplyFails("trial")
    /\ UNCHANGED <<kind, healthy, lo, hi, iteration, trials, running, intact,
                   cancelled, lastPassingVUs, report, monitors, refused>>

Search ==
    \/ StartTrial
    \/ \E pass \in BOOLEAN : MaxProbe(pass) \/ MinProbe(pass) \/ Halve(pass)
    \/ Conclude
    \/ Cancelled

-----------------------------------------------------------------------------
(* The client of the request goes away. *)
CancelRequest ==
    /\ "cancel" \in Disturbances
    /\ ~cancelled
    /\ cancelled' = TRUE
    /\ intact' = (intact /\ ~running)
    /\ UNCHANGED <<kind, healthy, bisection, running, driver>>

(* Once the request is over, every trial's monitor reverts the fault that its
   ID names, which all trials of a search share; it tries once. *)
MonitorFires ==
    /\ monitors > 0
    /\ cancelled \/ phase \notin Probing
    /\ monitors' = monitors - 1
    /\ IF current = "trial"
       THEN \/ RevertSucceeds /\ UNCHANGED refused
            \/ RevertFails /\ refused' = refused \cup {"monitor"}
       ELSE UNCHANGED <<inForce, current, refused>>
    /\ UNCHANGED <<kind, healthy, bisection, running, intact, cancelled>>

(* The chaos driver has other users: a run's chaos timer replaces the fault
   in force; a run that ends, an abort or a watchdog reverts it.           *)

Touch ==
    /\ intact' = (intact /\ (inForce = "trial" => inForce' = "trial"))
    /\ UNCHANGED <<kind, healthy, bisection, running, cancelled, monitors>>

OthersRevert ==
    /\ "other_revert" \in Disturbances
    /\ current # "nobody"
    /\ RevertSucceeds \/ RevertFails
    /\ UNCHANGED refused
    /\ Touch

OthersApply ==
    /\ "other_apply" \in Disturbances
    /\ \/ inForce' = "run" /\ current' = "run" /\ UNCHANGED refused
       \/ ApplyFails("run") /\ refused' = refused \cup {"other"}
    /\ Touch

Next ==
    \/ Search
    \/ TrialRefused
    \/ CancelRequest
    \/ MonitorFires
    \/ OthersRevert
    \/ OthersApply

Spec == Init /\ [][Next]_vars

(* A load test ends after its duration, the loop goes on, and the goroutines
   that wait for the end of the request wake up. *)
LiveSpec == Spec /\ WF_vars(Search) /\ WF_vars(MonitorFires)

-----------------------------------------------------------------------------
(* Properties                                                              *)

Trial == [x : Nat, pass : BOOLEAN, intact : BOOLEAN]

TypeOK ==
    /\ kind \in Kinds
    /\ healthy \subseteq Nat
    /\ phase \in Probing \cup {"done", "error"}
    /\ lo \in Nat /\ hi \in Nat
    /\ iteration \in 0..MaxIterations
    /\ trials \subseteq Trial
    /\ running \in BOOLEAN /\ intact \in BOOLEAN /\ cancelled \in BOOLEAN
    /\ lastPassingVUs \in Nat
    /\ report \in [found : BOOLEAN, breaking : Nat, safeVUs : Nat]
    /\ inForce \in {"nobody", "trial", "run"}
    /\ current \in {"nobody", "trial", "run"}
    /\ monitors \in Nat
    /\ refused \subseteq {"trial", "monitor", "other"}

Tried(x, pass) == \E t \in trials : t.x = x /\ t.pass = pass

(* The bisected range always has an end that passed and one that failed,
   and its width is what so many halvings make of it. *)
BracketHolds ==
    phase = "loop" =>
        /\ Tried(lo, TRUE) /\ Tried(hi, FALSE)
        /\ hi = lo + Width[kind][iteration]

(* What is reported was measured.  A breaking point was tried and failed;
   unless it is the low end of the range, an input that passed lies below
   it, no further than the tolerance or the iterations allow.  Where none is
   reported, the harshest input passed. *)
ReportIsMeasured ==
    phase = "done" =>
        IF report.found
        THEN /\ Tried(report.breaking, FALSE)
             /\ \/ report.breaking = Min[kind]
                \/ \E t \in trials :
                       /\ t.pass
                       /\ t.x < report.breaking
                       /\ \/ report.breaking - t.x <= Tolerance[kind]
                          \/ report.breaking - t.x = Width[kind][MaxIterations]
        ELSE Tried(Max[kind], TRUE)

(* An application that only ever gets worse is measured right if its trials
   were: it fails from the reported point on, and it is healthy up to the
   tolerance, or the last width, below it. *)
Monotone == \A x, y \in Inputs : x < y /\ Healthy(y) => Healthy(x)

Gap == IF Tolerance[kind] > Width[kind][MaxIterations] THEN Tolerance[kind]
       ELSE Width[kind][MaxIterations]

ThresholdIsFound ==
    phase = "done" /\ report.found /\ Monotone /\ (\A t \in trials : t.intact) =>
        \A x \in Inputs :
            /\ x >= report.breaking => ~Healthy(x)
            /\ x <= report.breaking - Gap => Healthy(x)

(* The capacity that is called safe was run and passed, the one that is
   called breaking was run and failed, and the first is the smaller one,
   however the application behaves and the inputs are rounded: unless it
   fails at MinVUs already. *)
SafeBelowBreaking ==
    kind = "autopilot" /\ phase = "done" /\ report.found /\ report.breaking # Min[kind] =>
        /\ \E t \in trials : t.pass /\ VUs(t.x) = report.safeVUs
        /\ \E t \in trials : ~t.pass /\ VUs(t.x) = VUs(report.breaking)
        /\ report.safeVUs < VUs(report.breaking)

(* A trial's fault is in force after the trial only where its Revert was
   refused, and then no longer than the request: a monitor is still to try,
   unless the kernel refused one as well, or a failing Apply of others has put
   another name on the fault. *)
TrialFaultEnds ==
    inForce = "trial" =>
        \/ running
        \/ /\ "trial" \in refused
           /\ monitors > 0 \/ "monitor" \in refused \/ "other" \in refused

(* Every search comes to an end, and each of its monitors has its try. *)
SearchEnds == <>(phase \in {"done", "error"} /\ monitors = 0)
=============================================================================
