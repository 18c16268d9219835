------------------------------ MODULE Journey ------------------------------
(***************************************************************************)
(* A scenario and the journey of one virtual user through it               *)
(* (pkg/vusession): what a valid scenario is, which variables a step needs *)
(* before it can be sent and which it leaves for later steps, which        *)
(* answers it accepts and where it leads then.  VUSession has the          *)
(* concurrency of many sessions; this module has the data of one.          *)
(*                                                                         *)
(* Identifiers of steps are tuples; END is the target that ends a session, *)
(* and so is an empty one.  <<"padded", id>> is id with spaces around it.  *)
(* An answer is its status code, or none.  A scenario has a base, the host *)
(* its requests go to; what a step gives is a sequence of extractors.      *)
(* Retries and cancellation are in VUSession and LoadEngine.               *)
(***************************************************************************)
EXTENDS Naturals, Sequences, FiniteSets

CONSTANTS
    Answers,              \* status codes a target may answer with
    MaxStepTransitions    \* steps of a session, at most

ASSUME JourneyConstants == Answers \subseteq 100..599 /\ MaxStepTransitions \in Nat \ {0}

VARIABLES
    scenario,  \* the scenario, NoScenario before there is one
    user       \* the virtual user: [at, sent, vars, paused, steps, state]

journeyVars == <<scenario, user>>

END == <<"END">>
NoAnswer == 0
NoScenario == [base |-> "", initial |-> END, steps |-> <<>>]
Nobody == [at |-> END, sent |-> <<>>, vars |-> {}, paused |-> 0, steps |-> 0, state |-> "absent"]

JourneyInit == scenario = NoScenario /\ user = Nobody

(* A condition compares the status with a number, or a word of the answer or
   of the session with another word; Always is the empty one. *)
Always == [left |-> "", op |-> "", right |-> 0]

To(target) == [target |-> target, condition |-> Always]

(* An extractor with a default never fails. *)
Given(var) == [var |-> var, default |-> TRUE]

(* strings.TrimSpace *)
Trimmed(id) == IF Len(id) = 2 /\ id[1] = "padded" THEN id[2] ELSE id

(* What is wrong with a scenario is found before it is run.  Of a target the
   spaces around it are ignored, here but not by Execute. *)
ValidateScenario(sc) ==
    /\ sc.initial \in DOMAIN sc.steps
    /\ \A id \in DOMAIN sc.steps :
          LET step == sc.steps[id] IN
          /\ \A i \in DOMAIN step.next : Trimmed(step.next[i].target) \in DOMAIN sc.steps \cup {END, <<>>}
          /\ step.onFailure = "transition" => step.fallback \in DOMAIN sc.steps

(* The value of a variable of the session that is not set is the empty word;
   a step that leads on has succeeded. *)
resolveValue(left, vars) ==
    CASE left = "success" -> "true"
      [] OTHER -> IF left \in vars THEN "set" ELSE ""

compareOperands(c, status, vars) ==
    IF c.left = "status"
    THEN \/ c.op = "==" /\ status = c.right
         \/ c.op = "!=" /\ status # c.right
         \/ c.op = ">=" /\ status >= c.right
         \/ c.op = "<"  /\ status < c.right
    ELSE \/ c.op = "==" /\ resolveValue(c.left, vars) = c.right
         \/ c.op = "!=" /\ resolveValue(c.left, vars) # c.right

evaluateCondition(c, status, vars) == c = Always \/ compareOperands(c, status, vars)

(* Every weight that counts is positive: any candidate may be drawn.  Without
   one the session ends. *)
SelectNextTransition(step, status, vars) ==
    LET candidates == {i \in DOMAIN step.next : evaluateCondition(step.next[i].condition, status, vars)}
    IN IF candidates = {} THEN {END} ELSE {step.next[i].target : i \in candidates}

Interpolates(step, vars) == step.needs \subseteq vars

NewVirtualUser ==
    /\ scenario # NoScenario /\ user = Nobody
    /\ user' = [Nobody EXCEPT !.at = scenario.initial, !.state = "walking"]
    /\ UNCHANGED scenario

(* Between two steps: the limit, and whether there is such a step. *)
MayGoOn ==
    /\ user.state = "walking" /\ user.at \in DOMAIN scenario.steps
    /\ user.steps < MaxStepTransitions

Ended(target) == IF target \in {END, <<>>} THEN "finished" ELSE "walking"

Vars(gives, n) == {gives[k].var : k \in 1..n}

(* The pause, the request, an answer the assertions accept, the extractors
   and the transition. *)
StepSucceeds(status) ==
    LET step == scenario.steps[user.at]
        vars == user.vars \cup Vars(step.gives, Len(step.gives))
    IN
    /\ MayGoOn
    /\ Interpolates(step, user.vars) /\ status \in step.accepts
    /\ \E target \in SelectNextTransition(step, status, vars) :
          user' = [at |-> target, sent |-> Append(user.sent, step.request), vars |-> vars,
                   paused |-> user.paused + step.pause, steps |-> user.steps + 1, state |-> Ended(target)]
    /\ UNCHANGED scenario

(* A step that fails goes to its fallback, or ends the session. *)
Fail(step, sent, vars) ==
    /\ user' = [user EXCEPT !.sent = sent, !.vars = vars, !.paused = @ + step.pause, !.steps = @ + 1,
                            !.at = IF step.onFailure = "transition" THEN step.fallback ELSE @,
                            !.state = IF step.onFailure = "transition" THEN @ ELSE "failed"]
    /\ UNCHANGED scenario

(* A variable that is not set: nothing is sent. *)
StepUnready ==
    LET step == scenario.steps[user.at] IN
    /\ MayGoOn /\ ~Interpolates(step, user.vars)
    /\ Fail(step, user.sent, user.vars)

(* An answer the assertions refuse, or no answer. *)
StepRefused(status) ==
    LET step == scenario.steps[user.at] IN
    /\ MayGoOn /\ Interpolates(step, user.vars) /\ status \notin step.accepts
    /\ Fail(step, Append(user.sent, step.request), user.vars)

(* An extractor without a default finds nothing; those before it have. *)
ExtractorFails(status) ==
    LET step == scenario.steps[user.at] IN
    /\ MayGoOn /\ Interpolates(step, user.vars) /\ status \in step.accepts
    /\ \E n \in DOMAIN step.gives :
          /\ ~step.gives[n].default
          /\ Fail(step, Append(user.sent, step.request), user.vars \cup Vars(step.gives, n - 1))

(* The limit of steps, or a step that does not exist. *)
SessionStops ==
    /\ user.state = "walking" /\ ~MayGoOn
    /\ user' = [user EXCEPT !.state = "failed"]
    /\ UNCHANGED scenario

Walk ==
    \/ NewVirtualUser \/ SessionStops \/ StepUnready \/ StepRefused(NoAnswer)
    \/ \E status \in Answers : StepSucceeds(status) \/ StepRefused(status) \/ ExtractorFails(status)
=============================================================================
