--------------------------- MODULE AgentRegistry ---------------------------
(***************************************************************************)
(* The registry of load agents on the server (pkg/server/                  *)
(* agent_registry.go): who has polled lately, one channel of capacity one  *)
(* per agent for its next assignment, and one per run and agent for the    *)
(* result.  The operators are the methods, as steps of the three maps;     *)
(* MultiRegion has the agents and the requests that call them.             *)
(*                                                                         *)
(* The assignment of a run to an agent is known by its run, the result by  *)
(* whether it carries a summary or an error.                               *)
(***************************************************************************)
EXTENDS Integers, Sequences, FiniteSets

CONSTANTS
    Ids,        \* agent IDs
    Regions,
    Runs,       \* run IDs, never used twice
    Nobody

AgentInfo == [region : Regions, fresh : BOOLEAN]

ASSUME RegistryConstants ==
    IsFiniteSet(Ids) /\ Nobody \notin Runs /\ Nobody \notin AgentInfo

VARIABLES
    agents,         \* the region of every registered ID, and whether it was
                    \* seen within agentHeartbeatTTL
    assignments,    \* what the channel of every ID holds
    results         \* the result channels: "absent", "empty" or the result

registry == <<agents, assignments, results>>

Outcomes == {"summary", "error"}

RegistryTypeOK ==
    /\ agents \in [Ids -> {Nobody} \cup AgentInfo]
    /\ assignments \in [Ids -> Runs \cup {Nobody}]
    /\ results \in [Runs \X Ids -> {"absent", "empty"} \cup Outcomes]

RegistryInit ==
    /\ agents = [id \in Ids |-> Nobody]
    /\ assignments = [id \in Ids |-> Nobody]
    /\ results = [k \in Runs \X Ids |-> "absent"]

-----------------------------------------------------------------------------
Registered(id) == agents[id] # Nobody

(* An ID that is known keeps its channel, and what is in it. *)
Register(id, region) ==
    agents' = [agents EXCEPT ![id] = [region |-> region, fresh |-> TRUE]]

Heartbeat(id) ==
    agents' = IF Registered(id) THEN [agents EXCEPT ![id].fresh = TRUE] ELSE agents

(* Nobody has heard of an agent for agentHeartbeatTTL. *)
Expire(id) ==
    /\ Registered(id) /\ agents[id].fresh
    /\ agents' = [agents EXCEPT ![id].fresh = FALSE]

ListConnected(regions) ==
    {id \in Ids : Registered(id) /\ agents[id].fresh /\ agents[id].region \in regions}

(* A send that does not wait: an agent is not registered, or its channel is
   full. *)
MayDispatch(id) == Registered(id) /\ assignments[id] = Nobody

Dispatch(id, run) == assignments' = [assignments EXCEPT ![id] = run]

(* The receive of Poll. *)
Take(id) == assignments' = [assignments EXCEPT ![id] = Nobody]

(* Mutant: the run is left out of the key. *)
resultKey_Agent(run, id) == <<CHOOSE r \in Runs : TRUE, id>>

resultKey(run, id) == <<run, id>>

(* AwaitResult finds the channel or makes it. *)
AwaitResult(run, id) ==
    results' = [results EXCEPT ![resultKey(run, id)] = IF @ = "absent" THEN "empty" ELSE @]

(* AwaitResult has its result, and deletes the channel. *)
ReceiveResult(run, id) == results' = [results EXCEPT ![resultKey(run, id)] = "absent"]

(* Mutant: a result nobody waits for yet is dropped. *)
SubmitResult_Awaited(run, id, outcome) ==
    results' = [results EXCEPT ![resultKey(run, id)] = IF @ = "empty" THEN outcome ELSE @]

(* A result that comes before AwaitResult makes the channel; one that finds
   the channel full is dropped. *)
SubmitResult(run, id, outcome) ==
    results' = [results EXCEPT ![resultKey(run, id)] = IF @ \in Outcomes THEN @ ELSE outcome]
=============================================================================
