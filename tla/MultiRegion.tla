---------------------------- MODULE MultiRegion ----------------------------
(***************************************************************************)
(* Load tests spread over remote agents: the requests served by            *)
(* RunMultiRegion (pkg/server/multiregion.go), the agent processes of      *)
(* cmd/agent that poll for work, and the registry between them.            *)
(*                                                                         *)
(* Connections break.  Poll does not look at the context of its request,   *)
(* so it goes on waiting on behalf of an agent that has gone, and takes    *)
(* that agent's next assignment with it.  Agents crash and are started     *)
(* again, two of them may share an ID, and the server may be restarted,    *)
(* which empties the registry.                                             *)
(***************************************************************************)
EXTENDS AgentRegistry, SequencesExt

CONSTANTS
    Agents,         \* agent processes
    IdOf, RegionOf, \* what each was started with
    Wanted,         \* of every run, what its request may ask for
    MaxFailures     \* crashes and silences of agents, broken connections,
                    \* restarts of the server

(* A load profile, the VUs that a flat one runs, and what the others run and
   take from elsewhere: the peak of the Stages of a ramp, or the TargetRPS. *)
LoadConfig == [profile : {"flat_vu", "ramping", "target_rps"}, vus : Int, rest : Nat]

MultiRegionRequest == [regions : Seq(SUBSET Regions), load : LoadConfig]

ASSUME FleetConstants ==
    /\ IdOf \in [Agents -> Ids] /\ RegionOf \in [Agents -> Regions]
    /\ Wanted \in [Runs -> SUBSET MultiRegionRequest]
    /\ MaxFailures \in Nat

VARIABLES
    agent,      \* of every agent process: where it is, and the run it works on
    abandoned,  \* calls of Poll for an ID whose connection is gone
    request,    \* of every run: the local variables of RunMultiRegion
    work,       \* history: what became of every assignment
    failures    \* how many there have been

vars == <<registry, agent, abandoned, request, work, failures>>

Active == {"listing", "dispatching", "awaiting", "waiting"}
Ended == {"done", "error", "gone"}
Idle == [pc |-> "idle", run |-> Nobody]

(* The local variables: regions left to list, the load wanted, the users given
   to each agent, the agents, the position among them, and those whose
   summary is merged. *)
Requests == [pc : Active \cup Ended \cup {"absent"},
             todo : Seq(SUBSET Regions), load : LoadConfig, vus : Nat,
             fleet : Seq(Ids), at : Nat \ {0}, used : SUBSET Ids]

NoLoad == [profile |-> "flat_vu", vus |-> 0, rest |-> 0]
NoRequest == [pc |-> "absent", todo |-> <<>>, load |-> NoLoad, vus |-> 0,
              fleet |-> <<>>, at |-> 1, used |-> {}]

Init ==
    /\ RegistryInit
    /\ agent = [a \in Agents |-> [pc |-> "down", run |-> Nobody]]
    /\ abandoned = [id \in Ids |-> 0]
    /\ request = [r \in Runs |-> NoRequest]
    /\ work = [r \in Runs |-> [id \in Ids |-> "none"]]
    /\ failures = 0

-----------------------------------------------------------------------------
(* The agent process.                                                      *)

(* It registers once, when it starts. *)
StartAgent(a) ==
    /\ agent[a].pc = "down"
    /\ Register(IdOf[a], RegionOf[a])
    /\ agent' = [agent EXCEPT ![a] = Idle]
    /\ UNCHANGED <<assignments, results, abandoned, request, work, failures>>

(* Poll waits on the channel of the ID; it returns at once, with nothing, if
   there is none, and the agent polls again. *)
Poll(a) ==
    /\ agent[a].pc = "idle"
    /\ Heartbeat(IdOf[a])
    /\ agent' = [agent EXCEPT ![a].pc = IF Registered(IdOf[a]) THEN "polling" ELSE "idle"]
    /\ UNCHANGED <<assignments, results, abandoned, request, work, failures>>

Receive(a) ==
    LET id == IdOf[a] IN
    /\ agent[a].pc = "polling" /\ assignments[id] # Nobody
    /\ Take(id)
    /\ agent' = [agent EXCEPT ![a] = [pc |-> "executing", run |-> assignments[id]]]
    /\ work' = [work EXCEPT ![assignments[id]][id] = "running"]
    /\ UNCHANGED <<agents, results, abandoned, request, failures>>

PollTimeout(a) ==
    /\ agent[a].pc = "polling" /\ assignments[IdOf[a]] = Nobody
    /\ agent' = [agent EXCEPT ![a] = Idle]
    /\ UNCHANGED <<registry, abandoned, request, work, failures>>

(* The connection of a poll breaks; the agent will poll again. *)
PollBreaks(a) ==
    /\ agent[a].pc = "polling" /\ failures < MaxFailures
    /\ agent' = [agent EXCEPT ![a] = Idle]
    /\ abandoned' = [abandoned EXCEPT ![IdOf[a]] = @ + 1]
    /\ failures' = failures + 1
    /\ UNCHANGED <<registry, request, work>>

(* The load test is over, or could not be started, and its result is posted
   once. *)
Report(a, outcome) ==
    LET run == agent[a].run IN
    /\ agent[a].pc = "executing"
    /\ SubmitResult(run, IdOf[a], outcome)
    /\ agent' = [agent EXCEPT ![a] = Idle]
    /\ work' = [work EXCEPT ![run][IdOf[a]] = outcome]
    /\ UNCHANGED <<agents, assignments, abandoned, request, failures>>

ReportBreaks(a) ==
    /\ agent[a].pc = "executing" /\ failures < MaxFailures
    /\ agent' = [agent EXCEPT ![a] = Idle]
    /\ work' = [work EXCEPT ![agent[a].run][IdOf[a]] = "lost"]
    /\ failures' = failures + 1
    /\ UNCHANGED <<registry, abandoned, request>>

CrashAgent(a) ==
    /\ agent[a].pc # "down" /\ failures < MaxFailures
    /\ agent' = [agent EXCEPT ![a] = [pc |-> "down", run |-> Nobody]]
    /\ abandoned' = IF agent[a].pc = "polling"
                    THEN [abandoned EXCEPT ![IdOf[a]] = @ + 1] ELSE abandoned
    /\ work' = IF agent[a].pc = "executing"
               THEN [work EXCEPT ![agent[a].run][IdOf[a]] = "lost"] ELSE work
    /\ failures' = failures + 1
    /\ UNCHANGED <<registry, request>>

(* The heartbeat request, which cmd/agent does not send. *)
HandleHeartbeat(id) ==
    /\ Heartbeat(id)
    /\ UNCHANGED <<assignments, results, agent, abandoned, request, work, failures>>

(* An agent that is polling is heard of every 25 seconds. *)
Disconnect(id) ==
    /\ \A a \in Agents : IdOf[a] = id => agent[a].pc # "polling"
    /\ failures < MaxFailures
    /\ Expire(id)
    /\ failures' = failures + 1
    /\ UNCHANGED <<assignments, results, agent, abandoned, request, work>>

(* A Poll whose agent has gone takes an assignment, or runs into its timeout. *)
AbandonedTakes(id) ==
    /\ abandoned[id] > 0 /\ assignments[id] # Nobody
    /\ Take(id)
    /\ abandoned' = [abandoned EXCEPT ![id] = @ - 1]
    /\ work' = [work EXCEPT ![assignments[id]][id] = "lost"]
    /\ UNCHANGED <<agents, results, agent, request, failures>>

AbandonedTimeout(id) ==
    /\ abandoned[id] > 0 /\ assignments[id] = Nobody
    /\ abandoned' = [abandoned EXCEPT ![id] = @ - 1]
    /\ UNCHANGED <<registry, agent, request, work, failures>>

-----------------------------------------------------------------------------
(* A request.                                                              *)

(* A request whose target is refused or whose scenario cannot be resolved
   ends before this. *)
StartRequest(r, wanted) ==
    /\ request[r].pc = "absent"
    /\ request' = [request EXCEPT ![r] =
                       [NoRequest EXCEPT !.pc = "listing", !.todo = wanted.regions,
                                         !.load = wanted.load]]
    /\ UNCHANGED <<registry, agent, abandoned, work, failures>>

(* The agents of one more region that are not in the fleet yet. *)
NewIn(r, regions) == ListConnected(regions) \ Range(request[r].fleet)

(* The registry is a map: they come in any order. *)
ListRegion(r) ==
    /\ request[r].pc = "listing" /\ request[r].todo # <<>>
    /\ \E more \in SetToSeqs(NewIn(r, Head(request[r].todo))) :
           request' = [request EXCEPT ![r].fleet = @ \o more, ![r].todo = Tail(@)]
    /\ UNCHANGED <<registry, agent, abandoned, work, failures>>

(* Mutant: the division rounds up. *)
PerAgentVUs_RoundsUp(vus, n) ==
    LET total == IF vus <= 0 THEN n ELSE vus
    IN  (total + n - 1) \div n

PerAgentVUs(vus, n) ==
    LET total == IF vus <= 0 THEN n ELSE vus
    IN  IF total \div n < 1 THEN 1 ELSE total \div n

SplitLoad(r) ==
    /\ request[r].pc = "listing" /\ request[r].todo = <<>>
    /\ request' = IF request[r].fleet = <<>>
                  THEN [request EXCEPT ![r].pc = "error"]
                  ELSE [request EXCEPT ![r].pc = "dispatching", ![r].at = 1,
                            ![r].vus = PerAgentVUs(request[r].load.vus, Len(request[r].fleet))]
    /\ UNCHANGED <<registry, agent, abandoned, work, failures>>

(* What an agent is given: the users are its share, Stages and TargetRPS are
   those of the request. *)
AgentLoad(r) == [request[r].load EXCEPT !.vus = request[r].vus]

(* What the load engine of an agent makes of it: users, or requests a second. *)
PutOn(load) == IF load.profile = "flat_vu" THEN load.vus ELSE load.rest

Current(r) == request[r].fleet[request[r].at]
IsLast(r) == request[r].at = Len(request[r].fleet)

(* One dispatch that fails ends the request; what was dispatched before it
   stays with the agents. *)
DispatchNext(r) ==
    /\ request[r].pc = "dispatching"
    /\ IF MayDispatch(Current(r))
       THEN /\ Dispatch(Current(r), r)
            /\ work' = [work EXCEPT ![r][Current(r)] = "queued"]
            /\ request' = IF IsLast(r)
                          THEN [request EXCEPT ![r].pc = "awaiting", ![r].at = 1]
                          ELSE [request EXCEPT ![r].at = @ + 1]
       ELSE /\ request' = [request EXCEPT ![r].pc = "error"]
            /\ UNCHANGED <<assignments, work>>
    /\ UNCHANGED <<agents, results, agent, abandoned, failures>>

AwaitNext(r) ==
    /\ request[r].pc = "awaiting"
    /\ AwaitResult(r, Current(r))
    /\ request' = [request EXCEPT ![r].pc = "waiting"]
    /\ UNCHANGED <<agents, assignments, agent, abandoned, work, failures>>

(* On to the next agent, or to the answer, with these summaries. *)
Advance(r, used) ==
    request' = [request EXCEPT ![r].used = used,
                    ![r].at = IF IsLast(r) THEN @ ELSE @ + 1,
                    ![r].pc = IF ~IsLast(r) THEN "awaiting"
                              ELSE IF used = {} THEN "error" ELSE "done"]

Collect(r) ==
    LET result == results[resultKey(r, Current(r))] IN
    /\ request[r].pc = "waiting" /\ result \in Outcomes
    /\ ReceiveResult(r, Current(r))
    /\ Advance(r, IF result = "summary" THEN request[r].used \cup {Current(r)}
                  ELSE request[r].used)
    /\ UNCHANGED <<agents, assignments, agent, abandoned, work, failures>>

(* The channel stays behind for a result that comes too late. *)
AwaitTimeout(r) ==
    /\ request[r].pc = "waiting"
    /\ results[resultKey(r, Current(r))] \notin Outcomes
    /\ Advance(r, request[r].used)
    /\ UNCHANGED <<registry, agent, abandoned, work, failures>>

RequestStep(r) ==
    \/ ListRegion(r) \/ SplitLoad(r) \/ DispatchNext(r)
    \/ AwaitNext(r) \/ Collect(r) \/ AwaitTimeout(r)

(* The server is killed and started again: requests and registry are gone,
   load tests on the agents go on. *)
RestartServer ==
    /\ failures < MaxFailures
    /\ agents' = [id \in Ids |-> Nobody]
    /\ assignments' = [id \in Ids |-> Nobody]
    /\ results' = [k \in Runs \X Ids |-> "absent"]
    /\ abandoned' = [id \in Ids |-> 0]
    /\ agent' = [a \in Agents |-> IF agent[a].pc = "polling" THEN Idle ELSE agent[a]]
    /\ request' = [r \in Runs |-> IF request[r].pc \in Active
                                   THEN [request[r] EXCEPT !.pc = "gone"] ELSE request[r]]
    /\ work' = [r \in Runs |-> [id \in Ids |->
                    IF work[r][id] = "queued" THEN "lost" ELSE work[r][id]]]
    /\ failures' = failures + 1

AgentStep(a) ==
    \/ StartAgent(a) \/ Poll(a) \/ Receive(a) \/ PollTimeout(a) \/ PollBreaks(a)
    \/ \E outcome \in Outcomes : Report(a, outcome)
    \/ ReportBreaks(a) \/ CrashAgent(a)

RegistryStep(id) ==
    HandleHeartbeat(id) \/ Disconnect(id) \/ AbandonedTakes(id) \/ AbandonedTimeout(id)

Next ==
    \/ \E a \in Agents : AgentStep(a)
    \/ \E id \in Ids : RegistryStep(id)
    \/ \E r \in Runs : RequestStep(r)
    \/ \E r \in Runs : \E wanted \in Wanted[r] : StartRequest(r, wanted)
    \/ RestartServer

Spec == Init /\ [][Next]_vars

-----------------------------------------------------------------------------
(* Properties                                                              *)

(* Every variable has its type; a request that dispatches or awaits is at
   an agent of its fleet. *)
TypeOK ==
    /\ RegistryTypeOK
    /\ agent \in [Agents -> [pc : {"down", "idle", "polling", "executing"},
                             run : Runs \cup {Nobody}]]
    /\ abandoned \in [Ids -> Nat]
    /\ failures \in 0..MaxFailures
    /\ work \in [Runs -> [Ids -> {"none", "queued", "running", "lost"} \cup Outcomes]]
    /\ request \in [Runs -> Requests]
    /\ \A r \in Runs : request[r].pc \in Active \ {"listing"} =>
                          request[r].at \in DOMAIN request[r].fleet

(* What one agent has taken, or lost, is not given to it, or to another one
   with its ID, again. *)
TakenOnce ==
    [][\A r \in Runs, id \in Ids :
           work[r][id] \notin {"none", "queued"} =>
               /\ work'[r][id] # "queued"
               /\ work'[r][id] = "running" => work[r][id] = "running"]_vars

(* All the agents that run a request of a flat profile together never put more
   users on the target than it asked for, or one each.  A ramp or a rate is not
   divided: each of them may put the whole of it on the target, once. *)
LoadIsSplit ==
    \A r \in Runs :
        LET running == Cardinality({a \in Agents : agent[a] = [pc |-> "executing", run |-> r]})
            size == Len(request[r].fleet)
            asked == request[r].load
        IN  running * PutOn(AgentLoad(r)) <=
                IF asked.profile # "flat_vu" THEN size * asked.rest
                ELSE IF asked.vus > size THEN asked.vus ELSE size

(* The answer to a request merges summaries of this very run alone, of the
   agents it names. *)
MergedIsReported ==
    \A r \in Runs : \A id \in request[r].used : work[r][id] = "summary"

(* A request does not go past an agent whose summary has arrived, even while
   it was waiting for another agent, without taking it in. *)
NoReportMissed ==
    [][\A r \in Runs :
           /\ request[r].pc = "waiting" /\ request'[r].pc \in {"awaiting", "done", "error"}
           /\ work[r][Current(r)] = "summary"
           => Current(r) \in request'[r].used]_vars
=============================================================================
