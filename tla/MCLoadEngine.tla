---------------------------- MODULE MCLoadEngine ----------------------------
(***************************************************************************)
(* A small scenario for LoadEngine: a step that may be tried twice and     *)
(* leads to a step that falls back to the first, to itself or, through a   *)
(* name that ValidateScenario trimmed, nowhere.                            *)
(***************************************************************************)
EXTENDS LoadEngine

ScenarioSteps == {"browse", "pay"}
ScenarioTargets == [browse |-> {"pay", "END"}, pay |-> {" pay"}]
ScenarioOnFailure ==
    [browse |-> [action |-> "retry", retries |-> 1, fallback |-> "browse"],
     pay |-> [action |-> "transition", retries |-> 0, fallback |-> "browse"]]

UpAndDown == <<1, 0>>
=============================================================================
