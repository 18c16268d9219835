------------------------------ MODULE VUSession ------------------------------
(***************************************************************************)
(* A virtual user's walk through a scenario (pkg/vusession/engine.go,      *)
(* transition.go), by each of the workers of a load test.                  *)
(*                                                                         *)
(* One session is one Execute: steps one after the other, the next one     *)
(* drawn from the transitions, retries and fallbacks where a step fails.   *)
(* A step takes time, and the context may be cancelled meanwhile.          *)
(***************************************************************************)
EXTENDS Naturals, Sequences

CONSTANTS
    Workers,       \* goroutines there may be at a time
    Steps,
    InitialStep,
    Targets,       \* of every step: where its transitions may lead
    OnFailure,     \* of every step: [action, retries, fallback]
    Outcomes,      \* how a step may go: "ok", "slow" and "accepted" are
                   \* successes, "error" and "timeout" failures
    MaxSteps       \* MaxStepTransitions

(* ValidateScenario.  It trims the names it looks up, Execute does not: a
   target may be no step after all. *)
ASSUME SessionConstants ==
    /\ InitialStep \in Steps /\ "END" \notin Steps
    /\ Targets \in [Steps -> SUBSET STRING]
    /\ \A s \in Steps : Targets[s] # {}
    /\ OnFailure \in [Steps -> [action : {"abort", "retry", "transition"},
                                retries : Nat, fallback : Steps]]
    /\ Outcomes \subseteq {"ok", "slow", "accepted", "error", "timeout"}
    /\ MaxSteps \in Nat \ {0}

VARIABLE session   \* of every worker: the local variables of its Execute

(* What currentStepID may be. *)
Names == Steps \cup {"END"} \cup UNION {Targets[s] : s \in Steps}

Session == [pc : {"gone", "ready", "head", "attempt", "retry", "reporting", "stamped"},
            step : Names, attempt : Nat, history : Seq(Outcomes), stamp : Nat]

Gone == [pc |-> "gone", step |-> InitialStep, attempt |-> 0, history |-> <<>>, stamp |-> 0]
Ready == [Gone EXCEPT !.pc = "ready"]
NewSession == [Gone EXCEPT !.pc = "head"]

Is(w, pc) == session[w].pc = pc
Become(w, new) == session' = [session EXCEPT ![w] = new]

(* What ends a session between two steps; every step taken is in history. *)
Ends(s, stopped) == stopped \/ Len(s.history) >= MaxSteps \/ s.step \notin Steps

LoopHead(w, stopped) ==
    /\ Is(w, "head")
    /\ Become(w, [session[w] EXCEPT !.pc = IF Ends(session[w], stopped) THEN "reporting" ELSE "attempt"])

(* recordStepResult, and on to the step or to the end of the session. *)
Recorded(s, outcome, next) ==
    [s EXCEPT !.history = Append(@, outcome), !.attempt = 0, !.step = next, !.pc = IF next = "END" THEN "reporting" ELSE "head"]

StepSucceeds(w, outcome) ==
    /\ Is(w, "attempt")
    /\ outcome \in {"ok", "slow", "accepted"}
    /\ \E next \in Targets[session[w].step] : Become(w, Recorded(session[w], outcome, next))

Retries(step) == IF OnFailure[step].action = "retry" THEN OnFailure[step].retries ELSE 0

AfterFailure(step) ==
    IF OnFailure[step].action = "transition" THEN OnFailure[step].fallback ELSE "END"

StepFails(w, outcome) ==
    LET s == session[w] IN
    /\ Is(w, "attempt")
    /\ outcome \in {"error", "timeout"}
    /\ Become(w, IF s.attempt < Retries(s.step)
                 THEN [s EXCEPT !.pc = "retry", !.attempt = @ + 1]
                 ELSE Recorded(s, outcome, AfterFailure(s.step)))

RetryStep(w) == Is(w, "retry") /\ Become(w, [session[w] EXCEPT !.pc = "attempt"])
=============================================================================
