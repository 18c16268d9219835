------------------------- MODULE MultiRegionProofs -------------------------
(***************************************************************************)
(* What MultiRegion promises of the assignments, results and load of a     *)
(* request holds for every set of agents, IDs, regions and requests, and   *)
(* any number of failures.                                                 *)
(***************************************************************************)
EXTENDS MultiRegion, FiniteSetTheorems, TLAPS

-----------------------------------------------------------------------------
(* Types                                                                   *)

LEMMA RegistryFacts ==
    /\ IsFiniteSet(Ids) /\ Nobody \notin Runs
    /\ Nobody \notin AgentInfo
  BY RegistryConstants DEF RegistryConstants

LEMMA FleetFacts ==
    /\ IdOf \in [Agents -> Ids] /\ RegionOf \in [Agents -> Regions]
    /\ Wanted \in [Runs -> SUBSET MultiRegionRequest]
    /\ MaxFailures \in Nat
  BY FleetConstants DEF FleetConstants

(* The orders of a set of IDs are sequences without repetition. *)
LEMMA OrdersAreSequences ==
    ASSUME NEW S \in SUBSET Ids, NEW more \in SetToSeqs(S)
    PROVE  /\ more \in Seq(S) /\ more \in Seq(Ids)
           /\ \A i, j \in DOMAIN more : i # j => more[i] # more[j]
  <1>1. IsFiniteSet(S)
    BY RegistryFacts, FS_Subset
  <1>2. Cardinality(S) \in Nat
    BY <1>1, FS_CardinalityType
  <1>3. more \in [1..Cardinality(S) -> S]
    BY DEF SetToSeqs
  <1>4. more \in Seq(S)
    BY <1>2, <1>3
  <1>5. more \in Seq(Ids)
    BY <1>2, <1>3
  <1>6. DOMAIN more = 1..Cardinality(S)
    BY <1>3
  <1> QED
    BY <1>4, <1>5, <1>6 DEF SetToSeqs

LEMMA Division ==
    ASSUME NEW a \in Nat, NEW b \in Nat \ {0}
    PROVE  a \div b \in Nat /\ b * (a \div b) <= a
  OBVIOUS

(* The load of one agent, for a fleet that is not empty. *)
LEMMA PerAgentType ==
    ASSUME NEW target \in Int, NEW n \in Nat \ {0}
    PROVE  /\ PerAgentVUs(target, n) \in Nat
           /\ n * PerAgentVUs(target, n) <= IF target > n THEN target ELSE n
  <1>1. CASE target <= 0
    <2>1. n \div n = 1
      OBVIOUS
    <2>2. PerAgentVUs(target, n) = 1
      BY <1>1, <2>1 DEF PerAgentVUs
    <2> QED
      BY <1>1, <2>2
  <1>2. CASE target > 0
    <2>1. target \div n \in Nat /\ n * (target \div n) <= target
      BY <1>2, Division
    <2>2. PerAgentVUs(target, n) = IF target \div n < 1 THEN 1 ELSE target \div n
      BY <1>2 DEF PerAgentVUs
    <2>3. CASE target \div n < 1
      <3>1. PerAgentVUs(target, n) = 1
        BY <2>2, <2>3
      <3> QED
        BY <3>1
    <2>4. CASE ~(target \div n < 1)
      <3>1. PerAgentVUs(target, n) = target \div n
        BY <2>2, <2>4
      <3>2. n * PerAgentVUs(target, n) <= target
        BY <3>1, <2>1
      <3> QED
        BY <3>1, <3>2, <2>1
    <2> QED
      BY <2>3, <2>4
  <1> QED
    BY <1>1, <1>2

LEMMA TypeInit == Init => TypeOK
  BY FleetFacts DEF Init, TypeOK, RegistryInit, RegistryTypeOK, NoRequest, NoLoad,
                      LoadConfig, Requests, Active, Ended

(* What a request's own steps need to know of it. *)
LEMMA RequestType ==
    ASSUME TypeOK, NEW r \in Runs
    PROVE  /\ request[r].fleet \in Seq(Ids) /\ Len(request[r].fleet) \in Nat
           /\ DOMAIN request[r].fleet = 1..Len(request[r].fleet)
           /\ request[r].at \in Nat \ {0} /\ request[r].load \in LoadConfig /\ request[r].vus \in Nat
           /\ request[r].todo \in Seq(SUBSET Regions) /\ request[r].used \subseteq Ids
           /\ request[r].pc \in Active \ {"listing"} =>
                  request[r].at \in 1..Len(request[r].fleet) /\ Current(r) \in Ids
  BY DEF TypeOK, Requests, Current

(* The record of a request that moves on. *)
LEMMA MovedType ==
    ASSUME NEW q \in Requests, NEW pc \in Active \cup Ended, NEW at \in Nat \ {0},
           NEW vus \in Nat
    PROVE  /\ [q EXCEPT !.pc = pc, !.at = at] \in Requests
           /\ [q EXCEPT !.pc = pc, !.at = at, !.vus = vus] \in Requests
           /\ [q EXCEPT !.pc = pc] \in Requests
           /\ [q EXCEPT !.at = at] \in Requests
  BY DEF Requests

(* The steps of a request by what they do to its record alone. *)
LEMMA RequestStepType ==
    ASSUME TypeOK, NEW r \in Runs, NEW new \in Requests,
           request' = [request EXCEPT ![r] = new],
           new.pc \in Active \ {"listing"} => new.at \in DOMAIN new.fleet
    PROVE  /\ request' \in [Runs -> Requests]
           /\ \A q \in Runs : request'[q].pc \in Active \ {"listing"} =>
                                 request'[q].at \in DOMAIN request'[q].fleet
  BY DEF TypeOK

LEMMA HeartbeatType ==
    ASSUME TypeOK, NEW id \in Ids, Heartbeat(id) \/ Expire(id)
    PROVE  agents' \in [Ids -> {Nobody} \cup AgentInfo]
  <1>1. agents \in [Ids -> {Nobody} \cup AgentInfo]
    BY DEF TypeOK, RegistryTypeOK
  <1>2. ASSUME Registered(id), NEW fresh \in BOOLEAN
        PROVE  [agents[id] EXCEPT !.fresh = fresh] \in AgentInfo
    BY <1>1, <1>2 DEF Registered, AgentInfo
  <1> QED
    BY <1>1, <1>2 DEF Heartbeat, Expire

(* Where the end of a wait takes a request. *)
LEMMA AdvanceType ==
    ASSUME TypeOK, NEW r \in Runs, request[r].pc = "waiting",
           NEW used \in SUBSET Ids, Advance(r, used)
    PROVE  \E new \in Requests :
               /\ request' = [request EXCEPT ![r] = new]
               /\ new.pc \in {"awaiting", "done", "error"}
               /\ new.pc = "awaiting" => ~IsLast(r) /\ new.at = request[r].at + 1
               /\ new.at \in DOMAIN new.fleet
               /\ new.fleet = request[r].fleet /\ new.used = used
               /\ new.vus = request[r].vus /\ new.load = request[r].load
  <1> DEFINE at == IF IsLast(r) THEN request[r].at ELSE request[r].at + 1
             pc == IF ~IsLast(r) THEN "awaiting" ELSE IF used = {} THEN "error" ELSE "done"
             new == [request[r] EXCEPT !.used = used, !.at = at, !.pc = pc]
  <1>1. request[r] \in Requests /\ request \in [Runs -> Requests]
    BY DEF TypeOK
  <1>2. /\ request[r].at \in 1..Len(request[r].fleet)
        /\ Len(request[r].fleet) \in Nat /\ DOMAIN request[r].fleet = 1..Len(request[r].fleet)
    BY RequestType DEF Active
  <1>3. new \in Requests
    <2>1. at \in Nat \ {0} /\ pc \in Active \cup Ended
      BY <1>2 DEF Active, Ended
    <2> HIDE DEF at, pc
    <2> QED
      BY <1>1, <2>1 DEF Requests
  <1>4. request' = [request EXCEPT ![r] = new]
    BY <1>1 DEF Advance
  <1>5. /\ new.pc \in {"awaiting", "done", "error"}
        /\ new.pc = "awaiting" => ~IsLast(r)
        /\ ~IsLast(r) => new.at = request[r].at + 1
        /\ IsLast(r) => new.at = request[r].at
        /\ new.fleet = request[r].fleet /\ new.used = used
        /\ new.vus = request[r].vus /\ new.load = request[r].load
    BY <1>1 DEF Requests
  <1>6. new.at \in DOMAIN new.fleet
    <2> HIDE DEF new
    <2> QED
      BY <1>2, <1>5 DEF IsLast
  <1> HIDE DEF new
  <1> QED
    BY <1>3, <1>4, <1>5, <1>6

LEMMA TypeStep == TypeOK /\ [Next]_vars => TypeOK'
  <1> SUFFICES ASSUME TypeOK, [Next]_vars PROVE TypeOK'
    OBVIOUS
  <1> USE RegistryFacts, FleetFacts
  <1>1. ASSUME NEW a \in Agents, AgentStep(a) PROVE TypeOK'
    <2>1. CASE StartAgent(a)
      <3>1. [region |-> RegionOf[a], fresh |-> TRUE] \in AgentInfo
        BY DEF AgentInfo
      <3> QED
        BY <2>1, <3>1 DEF StartAgent, Register, Idle, TypeOK, RegistryTypeOK
    <2>2. CASE Poll(a)
      <3>1. agents' \in [Ids -> {Nobody} \cup AgentInfo]
        BY <2>2, HeartbeatType DEF Poll
      <3> QED
        BY <2>2, <3>1, ZenonT(30) DEF Poll, TypeOK, RegistryTypeOK
    <2>3. CASE Receive(a)
      BY <2>3 DEF Receive, Take, TypeOK, RegistryTypeOK
    <2>4. CASE PollTimeout(a)
      BY <2>4 DEF PollTimeout, Idle, TypeOK, RegistryTypeOK, registry
    <2>5. CASE PollBreaks(a)
      BY <2>5 DEF PollBreaks, Idle, TypeOK, RegistryTypeOK, registry
    <2>6. ASSUME NEW outcome \in Outcomes, Report(a, outcome) PROVE TypeOK'
      BY <2>6 DEF Report, SubmitResult, resultKey, Idle, TypeOK, RegistryTypeOK
    <2>7. CASE ReportBreaks(a)
      <3>1. failures' \in 0..MaxFailures
        BY <2>7 DEF ReportBreaks, TypeOK
      <3>2. /\ agent' \in [Agents -> [pc : {"down", "idle", "polling", "executing"},
                                     run : Runs \cup {Nobody}]]
            /\ work' \in [Runs -> [Ids -> {"none", "queued", "running", "lost"} \cup Outcomes]]
        BY <2>7 DEF ReportBreaks, Idle, TypeOK
      <3> QED
        BY <2>7, <3>1, <3>2 DEF ReportBreaks, TypeOK, RegistryTypeOK, registry
    <2>8. CASE CrashAgent(a)
      <3>1. failures' \in 0..MaxFailures /\ abandoned' \in [Ids -> Nat]
        BY <2>8 DEF CrashAgent, TypeOK
      <3>2. /\ agent' \in [Agents -> [pc : {"down", "idle", "polling", "executing"},
                                     run : Runs \cup {Nobody}]]
            /\ work' \in [Runs -> [Ids -> {"none", "queued", "running", "lost"} \cup Outcomes]]
        BY <2>8 DEF CrashAgent, TypeOK
      <3> QED
        BY <2>8, <3>1, <3>2 DEF CrashAgent, TypeOK, RegistryTypeOK, registry
    <2> QED
      BY <1>1, <2>1, <2>2, <2>3, <2>4, <2>5, <2>6, <2>7, <2>8 DEF AgentStep
  <1>2. ASSUME NEW id \in Ids, RegistryStep(id) PROVE TypeOK'
    <2>1. CASE HandleHeartbeat(id)
      <3>1. agents' \in [Ids -> {Nobody} \cup AgentInfo]
        BY <2>1, HeartbeatType DEF HandleHeartbeat
      <3> QED
        BY <2>1, <3>1 DEF HandleHeartbeat, TypeOK, RegistryTypeOK
    <2>2. CASE Disconnect(id)
      <3>1. agents' \in [Ids -> {Nobody} \cup AgentInfo]
        BY <2>2, HeartbeatType DEF Disconnect
      <3>2. failures' \in 0..MaxFailures
        BY <2>2 DEF Disconnect, TypeOK
      <3> QED
        BY <2>2, <3>1, <3>2 DEF Disconnect, TypeOK, RegistryTypeOK
    <2>3. CASE AbandonedTakes(id)
      BY <2>3 DEF AbandonedTakes, Take, TypeOK, RegistryTypeOK
    <2>4. CASE AbandonedTimeout(id)
      BY <2>4 DEF AbandonedTimeout, TypeOK, RegistryTypeOK, registry
    <2> QED
      BY <1>2, <2>1, <2>2, <2>3, <2>4 DEF RegistryStep
  <1>3. ASSUME NEW r \in Runs, RequestStep(r) PROVE TypeOK'
    <2> DEFINE Good == /\ request' \in [Runs -> Requests]
                       /\ \A q \in Runs : request'[q].pc \in Active \ {"listing"} =>
                                             request'[q].at \in DOMAIN request'[q].fleet
    <2>0. /\ request[r] \in Requests /\ request \in [Runs -> Requests]
          /\ request[r].fleet \in Seq(Ids) /\ Len(request[r].fleet) \in Nat
          /\ DOMAIN request[r].fleet = 1..Len(request[r].fleet)
          /\ request[r].at \in Nat \ {0} /\ request[r].load \in LoadConfig
          /\ request[r].todo \in Seq(SUBSET Regions)
          /\ request[r].pc \in Active \ {"listing"} =>
                  request[r].at \in 1..Len(request[r].fleet) /\ Current(r) \in Ids
      BY RequestType DEF TypeOK
    <2>1. CASE ListRegion(r)
      <3>1. PICK more \in SetToSeqs(NewIn(r, Head(request[r].todo))) :
                request' = [request EXCEPT ![r].fleet = @ \o more, ![r].todo = Tail(@)]
        BY <2>1 DEF ListRegion
      <3>2. NewIn(r, Head(request[r].todo)) \in SUBSET Ids
        BY DEF NewIn, ListConnected
      <3>3. more \in Seq(Ids)
        BY <3>2, OrdersAreSequences
      <3>4. /\ request[r].fleet \o more \in Seq(Ids)
            /\ Tail(request[r].todo) \in Seq(SUBSET Regions)
        BY <2>0, <2>1, <3>3 DEF ListRegion
      <3> DEFINE new == [request[r] EXCEPT !.fleet = @ \o more, !.todo = Tail(@)]
      <3>5. new \in Requests /\ new.pc = "listing"
        BY <2>0, <2>1, <3>4 DEF ListRegion, Requests
      <3>6. request' = [request EXCEPT ![r] = new]
        BY <2>0, <3>1
      <3>7. Good
        <4> HIDE DEF new
        <4> QED
          BY <3>5, <3>6, RequestStepType
      <3> QED
        BY <2>1, <3>7 DEF ListRegion, TypeOK, RegistryTypeOK, registry
    <2>2. CASE SplitLoad(r)
      <3>1. CASE request[r].fleet = <<>>
        <4> DEFINE new == [request[r] EXCEPT !.pc = "error"]
        <4>1. new \in Requests /\ new.pc = "error"
          BY <2>0 DEF Requests, Ended
        <4>2. request' = [request EXCEPT ![r] = new]
          BY <2>0, <2>2, <3>1 DEF SplitLoad
        <4> HIDE DEF new
        <4>3. Good
          BY <4>1, <4>2, RequestStepType DEF Active
        <4> QED
          BY <2>2, <4>3 DEF SplitLoad, TypeOK, RegistryTypeOK, registry
      <3>2. CASE request[r].fleet # <<>>
        <4> DEFINE vus == PerAgentVUs(request[r].load.vus, Len(request[r].fleet))
                   new == [request[r] EXCEPT !.pc = "dispatching", !.at = 1, !.vus = vus]
        <4>1. Len(request[r].fleet) \in Nat \ {0}
          BY <2>0, <3>2
        <4>2. vus \in Nat
          BY <2>0, <4>1, PerAgentType DEF LoadConfig
        <4> HIDE DEF vus
        <4>3. new \in Requests /\ new.at = 1 /\ new.fleet = request[r].fleet
          <5>1. 1 \in Nat \ {0} /\ "dispatching" \in Active \cup Ended
            BY DEF Active
          <5>2. new \in Requests
            BY <2>0, <4>2, <5>1, MovedType
          <5> QED
            BY <2>0, <5>2 DEF Requests
        <4>4. request' = [request EXCEPT ![r] = new]
          BY <2>0, <2>2, <3>2 DEF SplitLoad, vus
        <4> HIDE DEF new
        <4>6. Good
          <5>1. 1 \in DOMAIN request[r].fleet
            BY <2>0, <4>1
          <5> QED
            BY <4>3, <4>4, <5>1, RequestStepType
        <4> QED
          BY <2>2, <4>6 DEF SplitLoad, TypeOK, RegistryTypeOK, registry
      <3> QED
        BY <3>1, <3>2
    <2>3. CASE DispatchNext(r)
      <3>1. request[r].at \in 1..Len(request[r].fleet) /\ Current(r) \in Ids
        BY <2>0, <2>3 DEF DispatchNext, Active
      <3>2. /\ assignments' \in [Ids -> Runs \cup {Nobody}]
            /\ work' \in [Runs -> [Ids -> {"none", "queued", "running", "lost"} \cup Outcomes]]
        <4>1. CASE MayDispatch(Current(r))
          <5>1. /\ assignments' = [assignments EXCEPT ![Current(r)] = r]
                /\ work' = [work EXCEPT ![r][Current(r)] = "queued"]
            BY <2>3, <4>1 DEF DispatchNext, Dispatch
          <5> QED
            BY <3>1, <5>1 DEF TypeOK, RegistryTypeOK
        <4>2. CASE ~MayDispatch(Current(r))
          BY <2>3, <4>2 DEF DispatchNext, TypeOK, RegistryTypeOK
        <4> QED
          BY <4>1, <4>2
      <3>3. \E new \in Requests :
               /\ request' = [request EXCEPT ![r] = new]
               /\ new.pc \in Active => new.at \in DOMAIN new.fleet
        <4> DEFINE first == [request[r] EXCEPT !.pc = "awaiting", !.at = 1]
                   next == [request[r] EXCEPT !.at = @ + 1]
                   none == [request[r] EXCEPT !.pc = "error"]
        <4>1. first \in Requests /\ first.at = 1 /\ first.fleet = request[r].fleet
          <5>1. 1 \in Nat \ {0} /\ "awaiting" \in Active \cup Ended
            BY DEF Active
          <5>2. first \in Requests
            BY <2>0, <5>1, MovedType
          <5> QED
            BY <2>0, <5>2 DEF Requests
        <4>2. next \in Requests /\ next.at = request[r].at + 1 /\ next.fleet = request[r].fleet
          <5>1. request[r].at + 1 \in Nat \ {0}
            BY <2>0
          <5> QED
            BY <2>0, <5>1 DEF Requests
        <4>3. none \in Requests /\ none.pc = "error"
          BY <2>0 DEF Requests, Ended
        <4>4. \/ request' = [request EXCEPT ![r] = first]
              \/ request' = [request EXCEPT ![r] = next] /\ ~IsLast(r)
              \/ request' = [request EXCEPT ![r] = none]
          BY <2>0, <2>3 DEF DispatchNext
        <4> HIDE DEF first, next, none
        <4> QED
          BY <2>0, <3>1, <4>1, <4>2, <4>3, <4>4 DEF IsLast, Active
      <3>4. Good
        BY <3>3, RequestStepType
      <3> QED
        BY <2>3, <3>2, <3>4 DEF DispatchNext, TypeOK, RegistryTypeOK
    <2>4. CASE AwaitNext(r)
      <3>1. request[r].at \in 1..Len(request[r].fleet) /\ Current(r) \in Ids
        BY <2>0, <2>4 DEF AwaitNext, Active
      <3> DEFINE new == [request[r] EXCEPT !.pc = "waiting"]
      <3>2. new \in Requests /\ new.at = request[r].at /\ new.fleet = request[r].fleet
        BY <2>0 DEF Requests, Active
      <3>3. request' = [request EXCEPT ![r] = new]
        BY <2>0, <2>4 DEF AwaitNext
      <3> HIDE DEF new
      <3>4. Good
        BY <2>0, <3>1, <3>2, <3>3, RequestStepType
      <3>5. results' \in [Runs \X Ids -> {"absent", "empty"} \cup Outcomes]
        BY <2>4, <3>1 DEF AwaitNext, AwaitResult, resultKey, TypeOK, RegistryTypeOK
      <3> QED
        BY <2>4, <3>4, <3>5 DEF AwaitNext, TypeOK, RegistryTypeOK
    <2>5. CASE Collect(r)
      <3>1. Current(r) \in Ids
        BY <2>0, <2>5 DEF Collect, Active
      <3>2. PICK used \in SUBSET Ids : Advance(r, used)
        <4>1. request[r].used \in SUBSET Ids
          BY RequestType
        <4> QED
          BY <2>5, <3>1, <4>1 DEF Collect
      <3>3. Good
        BY <2>5, <3>2, AdvanceType, RequestStepType DEF Collect
      <3>4. results' \in [Runs \X Ids -> {"absent", "empty"} \cup Outcomes]
        BY <2>5, <3>1 DEF Collect, ReceiveResult, resultKey, TypeOK, RegistryTypeOK
      <3> QED
        BY <2>5, <3>3, <3>4 DEF Collect, TypeOK, RegistryTypeOK
    <2>6. CASE AwaitTimeout(r)
      <3>1. request[r].used \in SUBSET Ids
        BY RequestType
      <3>2. Good
        BY <2>6, <3>1, AdvanceType, RequestStepType DEF AwaitTimeout
      <3> QED
        BY <2>6, <3>2 DEF AwaitTimeout, TypeOK, RegistryTypeOK, registry
    <2> QED
      BY <1>3, <2>1, <2>2, <2>3, <2>4, <2>5, <2>6 DEF RequestStep
  <1>4. ASSUME NEW r \in Runs, NEW wanted \in Wanted[r],
               StartRequest(r, wanted)
        PROVE TypeOK'
    <2> DEFINE new == [NoRequest EXCEPT !.pc = "listing", !.todo = wanted.regions,
                                     !.load = wanted.load]
    <2>1. wanted.regions \in Seq(SUBSET Regions) /\ wanted.load \in LoadConfig
      BY FleetFacts DEF MultiRegionRequest
    <2>2. new \in Requests /\ new.pc = "listing"
      <3>1. NoRequest \in Requests
        BY DEF NoRequest, NoLoad, LoadConfig, Requests
      <3> QED
        BY <2>1, <3>1 DEF Requests, Active
    <2>3. request' = [request EXCEPT ![r] = new]
      BY <1>4 DEF StartRequest
    <2> HIDE DEF new
    <2>4. /\ request' \in [Runs -> Requests]
          /\ \A q \in Runs : request'[q].pc \in Active \ {"listing"} =>
                                request'[q].at \in DOMAIN request'[q].fleet
      BY <2>2, <2>3, RequestStepType
    <2> QED
      BY <1>4, <2>4 DEF StartRequest, TypeOK, RegistryTypeOK, registry
  <1>5. CASE RestartServer
    <2>1. ASSUME NEW r \in Runs
          PROVE  /\ [request[r] EXCEPT !.pc = "gone"] \in Requests
                 /\ [request[r] EXCEPT !.pc = "gone"].pc = "gone"
                 /\ request[r] \in Requests
      BY ZenonT(30) DEF TypeOK, Requests, Ended
    <2>2. request' \in [Runs -> Requests] /\ \A r \in Runs : request'[r].pc \notin Active
      BY <1>5, <2>1 DEF RestartServer, Active
    <2>3. RegistryTypeOK' /\ abandoned' \in [Ids -> Nat]
      BY <1>5 DEF RestartServer, RegistryTypeOK
    <2>4. /\ failures' \in 0..MaxFailures
          /\ agent' \in [Agents -> [pc : {"down", "idle", "polling", "executing"},
                                   run : Runs \cup {Nobody}]]
      BY <1>5 DEF RestartServer, TypeOK, Idle
    <2>5. work' \in [Runs -> [Ids -> {"none", "queued", "running", "lost"} \cup Outcomes]]
      BY <1>5 DEF RestartServer, TypeOK
    <2> QED
      BY <2>2, <2>3, <2>4, <2>5 DEF TypeOK
  <1>6. CASE UNCHANGED vars
    BY <1>6 DEF vars, registry, TypeOK, RegistryTypeOK
  <1> QED
    BY <1>1, <1>2, <1>3, <1>4, <1>5, <1>6 DEF Next

(* Every variable keeps its type, and no request leaves its fleet. *)
THEOREM TypeCorrect == Spec => []TypeOK
  BY TypeInit, TypeStep, PTL DEF Spec

-----------------------------------------------------------------------------
(* The inductive invariant: where an assignment is, and where its result.  *)

(* A fleet names an agent once, was given no more than its load, and only
   its agents have assignments of the run, those it has been through. *)
FleetInv ==
    \A r \in Runs :
        /\ \A i, j \in DOMAIN request[r].fleet : i # j => request[r].fleet[i] # request[r].fleet[j]
        /\ request[r].pc \in {"absent", "listing"} =>
               request[r].vus = 0 /\ \A id \in Ids : work[r][id] = "none"
        /\ request[r].pc = "dispatching" =>
               \A i \in DOMAIN request[r].fleet :
                   i >= request[r].at => work[r][request[r].fleet[i]] = "none"
        /\ Len(request[r].fleet) * request[r].vus <=
               IF request[r].load.vus > Len(request[r].fleet)
               THEN request[r].load.vus ELSE Len(request[r].fleet)
        /\ \A id \in Ids : work[r][id] # "none" => id \in Range(request[r].fleet)
        /\ \A id \in request[r].used : work[r][id] = "summary"

(* What a channel holds is queued, and what an agent executes is running,
   with that agent alone. *)
HolderInv ==
    /\ \A id \in Ids : assignments[id] # Nobody => work[assignments[id]][id] = "queued"
    /\ \A a \in Agents : agent[a].pc = "executing" =>
           agent[a].run \in Runs /\ work[agent[a].run][IdOf[a]] = "running"
    /\ \A a, b \in Agents :
           /\ agent[a].pc = "executing" /\ agent[b].pc = "executing"
           /\ agent[a].run = agent[b].run /\ IdOf[a] = IdOf[b]
           => a = b

(* A result channel holds what was reported, and does so until the request
   has been there. *)
ToCome(r, i) ==
    \/ request[r].pc = "dispatching"
    \/ request[r].pc \in {"awaiting", "waiting"} /\ i >= request[r].at

ResultInv ==
    /\ \A r \in Runs, id \in Ids :
           results[<<r, id>>] \in Outcomes => work[r][id] = results[<<r, id>>]
    /\ \A r \in Runs : \A i \in DOMAIN request[r].fleet :
           ToCome(r, i) /\ work[r][request[r].fleet[i]] \in Outcomes =>
               results[<<r, request[r].fleet[i]>>] \in Outcomes

IInv == TypeOK /\ FleetInv /\ HolderInv /\ ResultInv

LEMMA InvInit == Init => FleetInv /\ HolderInv /\ ResultInv
  BY FleetFacts DEF Init, RegistryInit, NoRequest, NoLoad, FleetInv, HolderInv, ResultInv,
                    Outcomes

(* Steps that leave assignments, results and requests alone, and start no
   execution. *)
LEMMA IdleStep ==
    ASSUME IInv, UNCHANGED <<assignments, results, request, work>>,
           \A a \in Agents : agent'[a].pc = "executing" => agent'[a] = agent[a]
    PROVE  FleetInv' /\ HolderInv' /\ ResultInv'
  <1>1. FleetInv'
    BY DEF IInv, FleetInv
  <1>2. HolderInv'
    BY DEF IInv, HolderInv
  <1>3. ResultInv'
    BY DEF IInv, ResultInv, ToCome
  <1> QED
    BY <1>1, <1>2, <1>3

(* Steps that take one assignment of an agent further. *)
LEMMA WorkStep ==
    ASSUME IInv, NEW r \in Runs, NEW id \in Ids, NEW status,
           work' = [work EXCEPT ![r][id] = status],
           work[r][id] \in {"queued", "running"}, status # "none", UNCHANGED request
    PROVE  FleetInv'
  <1>1. /\ work'[r][id] = status
        /\ \A q \in Runs, i \in Ids : q # r \/ i # id => work'[q][i] = work[q][i]
    BY DEF IInv, TypeOK
  <1>2. \A q \in Runs : request[q].fleet \in Seq(Ids) /\ request[q].used \subseteq Ids
    BY RequestType DEF IInv
  <1>3. ASSUME NEW q \in Runs, request[q].pc \in {"absent", "listing"}
        PROVE  \A i \in Ids : work'[q][i] = "none"
    BY <1>1, <1>3 DEF IInv, FleetInv
  <1>4. ASSUME NEW q \in Runs, request[q].pc = "dispatching",
               NEW i \in DOMAIN request[q].fleet, i >= request[q].at
        PROVE  work'[q][request[q].fleet[i]] = "none"
    <2>1. work[q][request[q].fleet[i]] = "none" /\ request[q].fleet[i] \in Ids
      BY <1>2, <1>4 DEF IInv, FleetInv
    <2> QED
      BY <1>1, <2>1
  <1>5. ASSUME NEW q \in Runs, NEW i \in Ids, work'[q][i] # "none"
        PROVE  i \in Range(request[q].fleet)
    BY <1>1, <1>5 DEF IInv, FleetInv
  <1>6. ASSUME NEW q \in Runs, NEW i \in request[q].used
        PROVE  work'[q][i] = "summary"
    BY <1>1, <1>2, <1>6 DEF IInv, FleetInv
  <1>7. \A q \in Runs :
           /\ \A i, j \in DOMAIN request[q].fleet : i # j => request[q].fleet[i] # request[q].fleet[j]
           /\ request[q].pc \in {"absent", "listing"} => request[q].vus = 0
           /\ Len(request[q].fleet) * request[q].vus <=
                 IF request[q].load.vus > Len(request[q].fleet)
                 THEN request[q].load.vus ELSE Len(request[q].fleet)
    BY DEF IInv, FleetInv
  <1> QED
    BY <1>3, <1>4, <1>5, <1>6, <1>7 DEF FleetInv

(* Such a step keeps the results where they are if it reports nothing. *)
LEMMA NoResultStep ==
    ASSUME IInv, NEW r \in Runs, NEW id \in Ids, NEW status,
           work' = [work EXCEPT ![r][id] = status],
           work[r][id] \in {"queued", "running"}, status \notin Outcomes,
           UNCHANGED <<request, results>>
    PROVE  ResultInv'
  <1>1. /\ work'[r][id] = status
        /\ \A q \in Runs, i \in Ids : q # r \/ i # id => work'[q][i] = work[q][i]
    BY DEF IInv, TypeOK
  <1>2. \A q \in Runs : request[q].fleet \in Seq(Ids)
    BY RequestType DEF IInv
  <1>3. ASSUME NEW q \in Runs, NEW i \in Ids, results[<<q, i>>] \in Outcomes
        PROVE  work'[q][i] = results[<<q, i>>]
    <2>1. work[q][i] \in Outcomes /\ work[q][i] = results[<<q, i>>]
      BY <1>3 DEF IInv, ResultInv
    <2> QED
      BY <1>1, <2>1 DEF Outcomes
  <1>4. ASSUME NEW q \in Runs, NEW i \in DOMAIN request[q].fleet, ToCome(q, i),
               work'[q][request[q].fleet[i]] \in Outcomes
        PROVE  results[<<q, request[q].fleet[i]>>] \in Outcomes
    <2>1. request[q].fleet[i] \in Ids
      BY <1>2, <1>4
    <2>2. work[q][request[q].fleet[i]] \in Outcomes
      BY <1>1, <1>4, <2>1
    <2> QED
      BY <1>4, <2>2 DEF IInv, ResultInv
  <1> QED
    BY <1>3, <1>4 DEF ResultInv, ToCome

(* An agent that executes has been given a run, and loses it again. *)
LEMMA ReleaseStep ==
    ASSUME IInv, NEW a \in Agents, agent[a].pc = "executing", NEW status,
           work' = [work EXCEPT ![agent[a].run][IdOf[a]] = status],
           NEW free, agent' = [agent EXCEPT ![a] = free], free.pc # "executing",
           UNCHANGED assignments
    PROVE  HolderInv'
  <1>1. /\ agent[a].run \in Runs /\ IdOf[a] \in Ids
        /\ work[agent[a].run][IdOf[a]] = "running"
    BY FleetFacts DEF IInv, HolderInv
  <1>2. \A q \in Runs, i \in Ids :
            q # agent[a].run \/ i # IdOf[a] => work'[q][i] = work[q][i]
    BY <1>1 DEF IInv, TypeOK
  <1>3. /\ agent'[a].pc # "executing"
        /\ \A b \in Agents : b # a => agent'[b] = agent[b]
    BY DEF IInv, TypeOK
  <1>4. ASSUME NEW id \in Ids, assignments[id] # Nobody
        PROVE  work'[assignments[id]][id] = "queued"
    <2>1. assignments[id] \in Runs /\ work[assignments[id]][id] = "queued"
      BY <1>4 DEF IInv, HolderInv, TypeOK, RegistryTypeOK
    <2> QED
      BY <1>1, <1>2, <2>1
  <1>5. ASSUME NEW b \in Agents, agent'[b].pc = "executing"
        PROVE  agent'[b].run \in Runs /\ work'[agent'[b].run][IdOf[b]] = "running"
    <2>1. b # a /\ agent'[b] = agent[b]
      BY <1>3, <1>5
    <2>2. agent[b].run \in Runs /\ work[agent[b].run][IdOf[b]] = "running" /\ IdOf[b] \in Ids
      BY <1>5, <2>1, FleetFacts DEF IInv, HolderInv
    <2>3. agent[b].run # agent[a].run \/ IdOf[b] # IdOf[a]
      BY <1>5, <2>1 DEF IInv, HolderInv
    <2> QED
      BY <1>2, <2>1, <2>2, <2>3
  <1>6. ASSUME NEW b \in Agents, NEW c \in Agents,
               agent'[b].pc = "executing", agent'[c].pc = "executing",
               agent'[b].run = agent'[c].run, IdOf[b] = IdOf[c]
        PROVE  b = c
    <2>1. agent'[b] = agent[b] /\ agent'[c] = agent[c]
      BY <1>3, <1>6
    <2> QED
      BY <1>6, <2>1 DEF IInv, HolderInv
  <1> QED
    BY <1>4, <1>5, <1>6 DEF HolderInv

LEMMA AgentInvStep ==
    ASSUME IInv, NEW a \in Agents, AgentStep(a)
    PROVE  FleetInv' /\ HolderInv' /\ ResultInv'
  <1> USE FleetFacts, RegistryFacts
  <1>0. TypeOK
    BY DEF IInv
  <1>1. CASE StartAgent(a)
    BY <1>0, <1>1, IdleStep DEF StartAgent, Idle, TypeOK
  <1>2. CASE Poll(a)
    BY <1>0, <1>2, IdleStep DEF Poll, TypeOK
  <1>3. CASE Receive(a)
    <2> DEFINE id == IdOf[a]
               run == assignments[id]
    <2>1. id \in Ids /\ run \in Runs /\ work[run][id] = "queued"
      BY <1>0, <1>3 DEF Receive, IInv, HolderInv, TypeOK, RegistryTypeOK
    <2>2. /\ work' = [work EXCEPT ![run][id] = "running"]
          /\ assignments' = [assignments EXCEPT ![id] = Nobody]
          /\ agent' = [agent EXCEPT ![a] = [pc |-> "executing", run |-> run]]
          /\ UNCHANGED <<request, results>>
      BY <1>3 DEF Receive, Take
    <2> HIDE DEF id, run
    <2>3. /\ work'[run][id] = "running"
          /\ \A q \in Runs, i \in Ids : q # run \/ i # id => work'[q][i] = work[q][i]
      BY <1>0, <2>1, <2>2 DEF TypeOK
    <2>4. /\ agent'[a] = [pc |-> "executing", run |-> run]
          /\ \A b \in Agents : b # a => agent'[b] = agent[b]
      BY <1>0, <2>2 DEF TypeOK
    <2>5. FleetInv'
      BY <2>1, <2>2, WorkStep
    <2>6. ResultInv'
      <3>1. "running" \notin Outcomes
        BY DEF Outcomes
      <3> QED
        BY <2>1, <2>2, <3>1, NoResultStep
    <2>7. ASSUME NEW i \in Ids, assignments'[i] # Nobody
          PROVE  work'[assignments'[i]][i] = "queued"
      <3>1. i # id /\ assignments'[i] = assignments[i]
        BY <1>0, <2>1, <2>2, <2>7 DEF TypeOK, RegistryTypeOK
      <3>2. assignments[i] \in Runs /\ work[assignments[i]][i] = "queued"
        BY <1>0, <2>7, <3>1 DEF IInv, HolderInv, TypeOK, RegistryTypeOK
      <3> QED
        BY <2>3, <3>1, <3>2
    <2>8. ASSUME NEW b \in Agents, agent[b].pc = "executing"
          PROVE  /\ agent[b].run \in Runs /\ IdOf[b] \in Ids
                 /\ work[agent[b].run][IdOf[b]] = "running"
                 /\ agent[b].run # run \/ IdOf[b] # id
      BY <2>1, <2>8 DEF IInv, HolderInv
    <2>9. ASSUME NEW b \in Agents, agent'[b].pc = "executing"
          PROVE  agent'[b].run \in Runs /\ work'[agent'[b].run][IdOf[b]] = "running"
      <3>1. CASE b = a
        BY <2>1, <2>3, <2>4, <3>1 DEF id
      <3>2. CASE b # a
        BY <2>3, <2>4, <2>8, <2>9, <3>2
      <3> QED
        BY <3>1, <3>2
    <2>10. ASSUME NEW b \in Agents, NEW c \in Agents,
                  agent'[b].pc = "executing", agent'[c].pc = "executing",
                  agent'[b].run = agent'[c].run, IdOf[b] = IdOf[c]
           PROVE  b = c
      <3>1. CASE b # a /\ c # a
        BY <2>4, <2>10, <3>1 DEF IInv, HolderInv
      <3>2. CASE b # a /\ c = a
        BY <2>4, <2>8, <2>10, <3>2 DEF id
      <3>3. CASE b = a /\ c # a
        BY <2>4, <2>8, <2>10, <3>3 DEF id
      <3> QED
        BY <3>1, <3>2, <3>3
    <2>11. HolderInv'
      BY <2>7, <2>9, <2>10 DEF HolderInv
    <2> QED
      BY <2>5, <2>6, <2>11
  <1>4. CASE PollTimeout(a)
    BY <1>0, <1>4, IdleStep DEF PollTimeout, Idle, TypeOK, registry
  <1>5. CASE PollBreaks(a)
    BY <1>0, <1>5, IdleStep DEF PollBreaks, Idle, TypeOK, registry
  <1>6. ASSUME NEW outcome \in Outcomes, Report(a, outcome)
        PROVE  FleetInv' /\ HolderInv' /\ ResultInv'
    <2> DEFINE id == IdOf[a]
               run == agent[a].run
    <2>1. id \in Ids /\ run \in Runs /\ work[run][id] = "running"
      BY <1>6 DEF Report, IInv, HolderInv
    <2>2. /\ work' = [work EXCEPT ![run][id] = outcome]
          /\ agent' = [agent EXCEPT ![a] = Idle] /\ agent[a].pc = "executing"
          /\ UNCHANGED <<assignments, request>>
      BY <1>6 DEF Report
    <2>3. /\ results'[<<run, id>>] = outcome
          /\ \A q \in Runs, i \in Ids :
                 q # run \/ i # id => results'[<<q, i>>] = results[<<q, i>>]
      <3>1. results[<<run, id>>] \notin Outcomes
        BY <2>1 DEF IInv, ResultInv, Outcomes
      <3> QED
        BY <1>0, <1>6, <2>1, <3>1 DEF Report, SubmitResult, resultKey, TypeOK, RegistryTypeOK
    <2>4. HolderInv'
      <3>1. Idle.pc # "executing"
        BY DEF Idle
      <3> QED
        BY <2>2, <3>1, ReleaseStep
    <2> HIDE DEF id, run
    <2>5. FleetInv'
      BY <2>1, <2>2, WorkStep DEF Outcomes
    <2>6. /\ work'[run][id] = outcome
          /\ \A q \in Runs, i \in Ids : q # run \/ i # id => work'[q][i] = work[q][i]
      BY <1>0, <2>1, <2>2 DEF TypeOK
    <2>7. ASSUME NEW q \in Runs, NEW i \in Ids, results'[<<q, i>>] \in Outcomes
          PROVE  work'[q][i] = results'[<<q, i>>]
      BY <2>3, <2>6, <2>7 DEF IInv, ResultInv
    <2>8. ASSUME NEW q \in Runs, NEW i \in DOMAIN request[q].fleet, ToCome(q, i),
                 work'[q][request[q].fleet[i]] \in Outcomes
          PROVE  results'[<<q, request[q].fleet[i]>>] \in Outcomes
      <3>1. request[q].fleet[i] \in Ids
        BY <1>0, <2>8, RequestType
      <3> QED
        BY <2>3, <2>6, <2>8, <3>1 DEF IInv, ResultInv
    <2>9. ResultInv'
      BY <2>2, <2>7, <2>8 DEF ResultInv, ToCome
    <2> QED
      BY <2>4, <2>5, <2>9
  <1>7. ASSUME agent[a].pc = "executing", UNCHANGED <<assignments, request, results>>,
               work' = [work EXCEPT ![agent[a].run][IdOf[a]] = "lost"],
               NEW free, agent' = [agent EXCEPT ![a] = free], free.pc # "executing"
        PROVE  FleetInv' /\ HolderInv' /\ ResultInv'
    <2>1. IdOf[a] \in Ids /\ agent[a].run \in Runs /\ work[agent[a].run][IdOf[a]] = "running"
      BY <1>7 DEF IInv, HolderInv
    <2>2. FleetInv'
      BY <1>7, <2>1, WorkStep
    <2>3. ResultInv'
      <3>1. "lost" \notin Outcomes
        BY DEF Outcomes
      <3> QED
        BY <1>7, <2>1, <3>1, NoResultStep
    <2>4. HolderInv'
      BY <1>7, ReleaseStep
    <2> QED
      BY <2>2, <2>3, <2>4
  <1>8. CASE ReportBreaks(a)
    <2>1. Idle.pc # "executing"
      BY DEF Idle
    <2>2. /\ agent[a].pc = "executing" /\ agent' = [agent EXCEPT ![a] = Idle]
          /\ work' = [work EXCEPT ![agent[a].run][IdOf[a]] = "lost"]
          /\ UNCHANGED <<assignments, request, results>>
      BY <1>8 DEF ReportBreaks, registry
    <2> QED
      BY <1>7, <2>1, <2>2
  <1>9. CASE CrashAgent(a)
    <2>1. CASE agent[a].pc = "executing"
      <3> DEFINE free == [pc |-> "down", run |-> Nobody]
      <3>1. free.pc # "executing"
        OBVIOUS
      <3>2. /\ agent' = [agent EXCEPT ![a] = free]
            /\ work' = [work EXCEPT ![agent[a].run][IdOf[a]] = "lost"]
            /\ UNCHANGED <<assignments, request, results>>
        BY <1>9, <2>1 DEF CrashAgent, registry
      <3> HIDE DEF free
      <3> QED
        BY <1>7, <2>1, <3>1, <3>2
    <2>2. CASE agent[a].pc # "executing"
      BY <1>0, <1>9, <2>2, IdleStep DEF CrashAgent, registry, TypeOK
    <2> QED
      BY <2>1, <2>2
  <1> QED
    BY <1>1, <1>2, <1>3, <1>4, <1>5, <1>6, <1>8, <1>9 DEF AgentStep

LEMMA RegistryInvStep ==
    ASSUME IInv, NEW id \in Ids, RegistryStep(id)
    PROVE  FleetInv' /\ HolderInv' /\ ResultInv'
  <1>0. TypeOK
    BY DEF IInv
  <1>1. CASE HandleHeartbeat(id)
    BY <1>1, IdleStep DEF HandleHeartbeat
  <1>2. CASE Disconnect(id)
    BY <1>2, IdleStep DEF Disconnect
  <1>3. CASE AbandonedTakes(id)
    <2> DEFINE run == assignments[id]
    <2>1. run \in Runs /\ work[run][id] = "queued"
      BY <1>0, <1>3, RegistryFacts DEF AbandonedTakes, IInv, HolderInv, TypeOK, RegistryTypeOK
    <2>2. /\ work' = [work EXCEPT ![run][id] = "lost"]
          /\ assignments' = [assignments EXCEPT ![id] = Nobody]
          /\ UNCHANGED <<agent, request, results>>
      BY <1>3 DEF AbandonedTakes, Take
    <2> HIDE DEF run
    <2>3. FleetInv'
      BY <2>1, <2>2, WorkStep
    <2>4. ResultInv'
      <3>1. "lost" \notin Outcomes
        BY DEF Outcomes
      <3> QED
        BY <2>1, <2>2, <3>1, NoResultStep
    <2>5. /\ work'[run][id] = "lost"
          /\ \A q \in Runs, i \in Ids : q # run \/ i # id => work'[q][i] = work[q][i]
      BY <1>0, <2>1, <2>2 DEF TypeOK
    <2>6. ASSUME NEW i \in Ids, assignments'[i] # Nobody
          PROVE  work'[assignments'[i]][i] = "queued"
      <3>1. i # id /\ assignments'[i] = assignments[i]
        BY <1>0, <2>1, <2>2, <2>6 DEF TypeOK, RegistryTypeOK
      <3>2. assignments[i] \in Runs /\ work[assignments[i]][i] = "queued"
        BY <1>0, <2>6, <3>1 DEF IInv, HolderInv, TypeOK, RegistryTypeOK
      <3> QED
        BY <2>5, <3>1, <3>2
    <2>7. ASSUME NEW b \in Agents, agent[b].pc = "executing"
          PROVE  agent[b].run \in Runs /\ work'[agent[b].run][IdOf[b]] = "running"
      <3>1. agent[b].run \in Runs /\ work[agent[b].run][IdOf[b]] = "running" /\ IdOf[b] \in Ids
        BY <2>7, FleetFacts DEF IInv, HolderInv
      <3> QED
        BY <2>1, <2>5, <3>1
    <2>8. HolderInv'
      BY <2>2, <2>6, <2>7 DEF IInv, HolderInv
    <2> QED
      BY <2>3, <2>4, <2>8
  <1>4. CASE AbandonedTimeout(id)
    BY <1>4, IdleStep DEF AbandonedTimeout, registry
  <1> QED
    BY <1>1, <1>2, <1>3, <1>4 DEF RegistryStep

LEMMA RestartInvStep ==
    ASSUME IInv, RestartServer
    PROVE  FleetInv' /\ HolderInv' /\ ResultInv'
  <1>0. TypeOK
    BY DEF IInv
  <1>1. \A r \in Runs :
           /\ request'[r].fleet = request[r].fleet /\ request'[r].vus = request[r].vus
           /\ request'[r].load = request[r].load /\ request'[r].used = request[r].used
           /\ request'[r].pc \notin Active
           /\ request'[r].pc = "absent" => request[r].pc = "absent"
    BY <1>0 DEF RestartServer, TypeOK, Requests, Active
  <1>2. \A r \in Runs, id \in Ids :
           work'[r][id] = IF work[r][id] = "queued" THEN "lost" ELSE work[r][id]
    BY <1>0 DEF RestartServer, TypeOK
  <1>3. \A r \in Runs : request[r].fleet \in Seq(Ids) /\ request[r].used \subseteq Ids
    BY <1>0, RequestType
  <1>4. FleetInv'
    <2> SUFFICES ASSUME NEW r \in Runs PROVE FleetInv!(r)'
      BY DEF FleetInv
    <2> QED
      BY <1>1, <1>2, <1>3 DEF IInv, FleetInv, Active
  <1>5. HolderInv'
    <2>1. \A id \in Ids : assignments'[id] = Nobody
      BY DEF RestartServer
    <2>2. \A a \in Agents : agent'[a].pc = "executing" => agent'[a] = agent[a]
      BY <1>0 DEF RestartServer, Idle, TypeOK
    <2>3. ASSUME NEW a \in Agents, agent[a].pc = "executing"
          PROVE  agent[a].run \in Runs /\ work'[agent[a].run][IdOf[a]] = "running"
      <3>1. agent[a].run \in Runs /\ work[agent[a].run][IdOf[a]] = "running" /\ IdOf[a] \in Ids
        BY <2>3, FleetFacts DEF IInv, HolderInv
      <3> QED
        BY <1>2, <3>1
    <2> QED
      BY <2>1, <2>2, <2>3 DEF IInv, HolderInv
  <1>6. ResultInv'
    <2>1. \A r \in Runs, id \in Ids : results'[<<r, id>>] \notin Outcomes
      BY DEF RestartServer, Outcomes
    <2> QED
      BY <1>1, <2>1 DEF ResultInv, ToCome, Active
  <1> QED
    BY <1>4, <1>5, <1>6

LEMMA AppendDistinct ==
    ASSUME NEW s \in Seq(Ids), NEW t \in Seq(Ids),
           \A i, j \in DOMAIN s : i # j => s[i] # s[j],
           \A i, j \in DOMAIN t : i # j => t[i] # t[j],
           \A j \in DOMAIN t : t[j] \notin Range(s)
    PROVE  \A i, j \in DOMAIN (s \o t) : i # j => (s \o t)[i] # (s \o t)[j]
  <1>1. /\ Len(s) \in Nat /\ DOMAIN s = 1..Len(s)
        /\ Len(t) \in Nat /\ DOMAIN t = 1..Len(t)
        /\ DOMAIN (s \o t) = 1..(Len(s) + Len(t))
    OBVIOUS
  <1>2. \A i \in DOMAIN (s \o t) : (s \o t)[i] = IF i <= Len(s) THEN s[i] ELSE t[i - Len(s)]
    OBVIOUS
  <1>3. \A i \in DOMAIN s : s[i] \in Range(s)
    BY DEF Range
  <1> SUFFICES ASSUME NEW i \in DOMAIN (s \o t), NEW j \in DOMAIN (s \o t), i # j
               PROVE  (s \o t)[i] # (s \o t)[j]
    OBVIOUS
  <1>4. CASE i <= Len(s) /\ j <= Len(s)
    BY <1>1, <1>2, <1>4
  <1>5. CASE i <= Len(s) /\ ~(j <= Len(s))
    <2>1. i \in DOMAIN s /\ j - Len(s) \in DOMAIN t
      BY <1>1, <1>5
    <2> QED
      BY <1>2, <1>3, <1>5, <2>1
  <1>6. CASE ~(i <= Len(s)) /\ j <= Len(s)
    <2>1. j \in DOMAIN s /\ i - Len(s) \in DOMAIN t
      BY <1>1, <1>6
    <2> QED
      BY <1>2, <1>3, <1>6, <2>1
  <1>7. CASE ~(i <= Len(s)) /\ ~(j <= Len(s))
    <2>1. i - Len(s) \in DOMAIN t /\ j - Len(s) \in DOMAIN t /\ i - Len(s) # j - Len(s)
      BY <1>1, <1>7
    <2> QED
      BY <1>2, <1>7, <2>1
  <1> QED
    BY <1>4, <1>5, <1>6, <1>7

(* A step of one request that leaves the assignments alone. *)
LEMMA OwnStep ==
    ASSUME IInv, NEW r \in Runs,
           \A q \in Runs : q # r => request'[q] = request[q],
           UNCHANGED <<assignments, agent, work>>,
           FleetInv!(r)',
           \A i \in Ids, q \in Runs : results'[<<q, i>>] \in Outcomes =>
               results'[<<q, i>>] = results[<<q, i>>],
           \A i \in Ids, q \in Runs : q # r => results'[<<q, i>>] = results[<<q, i>>],
           \A i \in DOMAIN request'[r].fleet :
               ToCome(r, i)' /\ work[r][request'[r].fleet[i]] \in Outcomes =>
                   results'[<<r, request'[r].fleet[i]>>] \in Outcomes
    PROVE  FleetInv' /\ HolderInv' /\ ResultInv'
  <1>1. FleetInv'
    BY DEF IInv, FleetInv
  <1>2. HolderInv'
    BY DEF IInv, HolderInv
  <1>3. ASSUME NEW q \in Runs, NEW i \in DOMAIN request'[q].fleet,
               ToCome(q, i)', work'[q][request'[q].fleet[i]] \in Outcomes
        PROVE  results'[<<q, request'[q].fleet[i]>>] \in Outcomes
    <2>1. CASE q = r
      BY <1>3, <2>1
    <2>2. CASE q # r
      <3>1. request[q].fleet[i] \in Ids /\ request'[q] = request[q]
        BY <1>3, <2>2, RequestType DEF IInv
      <3>2. ToCome(q, i)
        BY <1>3, <3>1 DEF ToCome
      <3> QED
        BY <1>3, <2>2, <3>1, <3>2 DEF IInv, ResultInv
    <2> QED
      BY <2>1, <2>2
  <1>4. ASSUME NEW q \in Runs, NEW i \in Ids, results'[<<q, i>>] \in Outcomes
        PROVE  work'[q][i] = results'[<<q, i>>]
    BY <1>4 DEF IInv, ResultInv
  <1>5. ResultInv'
    BY <1>3, <1>4 DEF ResultInv
  <1> QED
    BY <1>1, <1>2, <1>5

(* The end of a wait, when the summaries taken in are of this run and the
   results still to come stay. *)
LEMMA AdvanceInv ==
    ASSUME IInv, NEW r \in Runs, request[r].pc = "waiting", NEW used \in SUBSET Ids,
           Advance(r, used), \A id \in used : work[r][id] = "summary",
           UNCHANGED <<assignments, agent, work>>,
           results' = results \/ results' = [results EXCEPT ![<<r, Current(r)>>] = "absent"]
    PROVE  FleetInv' /\ HolderInv' /\ ResultInv'
  <1>0. /\ TypeOK /\ request[r].fleet \in Seq(Ids) /\ Current(r) \in Ids
        /\ request[r].at \in Nat \ {0} /\ request[r].at \in DOMAIN request[r].fleet
        /\ DOMAIN request[r].fleet \subseteq Nat
    BY RequestType DEF IInv, TypeOK, Active
  <1>1. PICK new \in Requests :
            /\ request' = [request EXCEPT ![r] = new]
            /\ new.pc \in {"awaiting", "done", "error"}
            /\ new.pc = "awaiting" => ~IsLast(r) /\ new.at = request[r].at + 1
            /\ new.at \in DOMAIN new.fleet
            /\ new.fleet = request[r].fleet /\ new.used = used
            /\ new.vus = request[r].vus /\ new.load = request[r].load
    BY <1>0, AdvanceType
  <1>2. request'[r] = new /\ \A q \in Runs : q # r => request'[q] = request[q]
    BY <1>0, <1>1 DEF TypeOK
  <1>3. FleetInv!(r)'
    BY <1>1, <1>2 DEF IInv, FleetInv
  <1>4. \A i \in Ids, q \in Runs :
            /\ q # r \/ i # Current(r) => results'[<<q, i>>] = results[<<q, i>>]
            /\ results'[<<q, i>>] \in Outcomes => results'[<<q, i>>] = results[<<q, i>>]
    BY <1>0, ZenonT(30) DEF TypeOK, RegistryTypeOK, Outcomes
  <1>5. ASSUME NEW i \in DOMAIN request'[r].fleet, ToCome(r, i)',
               work[r][request'[r].fleet[i]] \in Outcomes
        PROVE  results'[<<r, request'[r].fleet[i]>>] \in Outcomes
    <2>1. /\ i \in DOMAIN request[r].fleet /\ request'[r].fleet = request[r].fleet
          /\ request[r].fleet[i] \in Ids
      BY <1>0, <1>1, <1>2, <1>5
    <2>2. i >= request[r].at + 1
      BY <1>1, <1>2, <1>5 DEF ToCome
    <2>3. i # request[r].at /\ i >= request[r].at
      BY <1>0, <2>1, <2>2
    <2>4. request[r].fleet[i] # Current(r)
      BY <1>0, <2>1, <2>3 DEF IInv, FleetInv, Current
    <2>5. results[<<r, request[r].fleet[i]>>] \in Outcomes
      BY <1>5, <2>1, <2>3 DEF IInv, ResultInv, ToCome
    <2> QED
      BY <1>4, <2>1, <2>4, <2>5
  <1> QED
    BY <1>2, <1>3, <1>4, <1>5, OwnStep

LEMMA RequestInvStep ==
    ASSUME IInv, NEW r \in Runs, RequestStep(r)
    PROVE  FleetInv' /\ HolderInv' /\ ResultInv'
  <1>0. /\ TypeOK /\ request \in [Runs -> Requests] /\ request[r] \in Requests
        /\ request[r].fleet \in Seq(Ids) /\ request[r].used \in SUBSET Ids
        /\ DOMAIN request[r].fleet = 1..Len(request[r].fleet) /\ Len(request[r].fleet) \in Nat
        /\ request[r].at \in Nat \ {0}
        /\ request[r].pc \in Active \ {"listing"} =>
               request[r].at \in DOMAIN request[r].fleet /\ Current(r) \in Ids
    BY RequestType DEF IInv, TypeOK
  <1>1. CASE ListRegion(r)
    <2>1. PICK more \in SetToSeqs(NewIn(r, Head(request[r].todo))) :
              request' = [request EXCEPT ![r].fleet = @ \o more, ![r].todo = Tail(@)]
      BY <1>1 DEF ListRegion
    <2>2. /\ NewIn(r, Head(request[r].todo)) \in SUBSET Ids
          /\ \A id \in NewIn(r, Head(request[r].todo)) : id \notin Range(request[r].fleet)
      BY DEF NewIn, ListConnected
    <2>3. /\ more \in Seq(Ids) /\ \A j \in DOMAIN more : more[j] \notin Range(request[r].fleet)
          /\ \A i, j \in DOMAIN more : i # j => more[i] # more[j]
      BY <2>2, OrdersAreSequences
    <2>4. /\ request[r].pc = "listing" /\ request[r].vus = 0 /\ UNCHANGED <<assignments, agent, work, results>>
          /\ \A id \in Ids : work[r][id] = "none"
      BY <1>1 DEF ListRegion, IInv, FleetInv, registry
    <2>5. /\ request'[r].fleet = request[r].fleet \o more /\ request'[r].pc = request[r].pc
          /\ request'[r].vus = request[r].vus /\ request'[r].used = request[r].used
          /\ request'[r].load = request[r].load
          /\ \A q \in Runs : q # r => request'[q] = request[q]
      BY <1>0, <2>1 DEF Requests
    <2>6. \A i, j \in DOMAIN (request[r].fleet \o more) :
             i # j => (request[r].fleet \o more)[i] # (request[r].fleet \o more)[j]
      <3>1. \A i, j \in DOMAIN request[r].fleet : i # j => request[r].fleet[i] # request[r].fleet[j]
        BY DEF IInv, FleetInv
      <3> QED
        BY <1>0, <2>3, <3>1, AppendDistinct
    <2>7. /\ Len(request'[r].fleet) \in Nat /\ request[r].load \in LoadConfig
          /\ Len(request'[r].fleet) * request'[r].vus = 0
      BY <1>0, <2>3, <2>4, <2>5, RequestType DEF LoadConfig
    <2>8. Len(request'[r].fleet) * request'[r].vus <=
              IF request'[r].load.vus > Len(request'[r].fleet)
              THEN request'[r].load.vus ELSE Len(request'[r].fleet)
      BY <2>5, <2>7 DEF LoadConfig
    <2>9. FleetInv!(r)'
      BY <1>0, <2>4, <2>5, <2>6, <2>8 DEF IInv, FleetInv
    <2>10. \A i : ~ToCome(r, i)'
      BY <2>4, <2>5 DEF ToCome
    <2> QED
      BY <2>4, <2>5, <2>9, <2>10, OwnStep
  <1>2. CASE SplitLoad(r)
    <2>1. /\ request[r].pc = "listing" /\ request[r].vus = 0 /\ UNCHANGED <<assignments, agent, work, results>>
          /\ \A id \in Ids : work[r][id] = "none"
      BY <1>2 DEF SplitLoad, IInv, FleetInv, registry
    <2>2. /\ request'[r].fleet = request[r].fleet /\ request'[r].used = request[r].used
          /\ request'[r].load = request[r].load
          /\ request'[r].pc \in {"error", "dispatching"}
          /\ \A q \in Runs : q # r => request'[q] = request[q]
      BY <1>0, <1>2 DEF SplitLoad, Requests
    <2>3. Len(request'[r].fleet) * request'[r].vus <=
              IF request'[r].load.vus > Len(request'[r].fleet)
              THEN request'[r].load.vus ELSE Len(request'[r].fleet)
      <3>1. CASE request[r].fleet = <<>>
        <4>1. request'[r].vus = request[r].vus
          BY <1>0, <1>2, <3>1 DEF SplitLoad, Requests
        <4> QED
          BY <2>2, <4>1 DEF IInv, FleetInv
      <3>2. CASE request[r].fleet # <<>>
        <4>1. Len(request[r].fleet) \in Nat \ {0} /\ request[r].load \in LoadConfig
          BY <1>0, <3>2, RequestType
        <4>2. request'[r].vus = PerAgentVUs(request[r].load.vus, Len(request[r].fleet))
          BY <1>0, <1>2, <3>2 DEF SplitLoad, Requests
        <4> QED
          BY <2>2, <4>1, <4>2, PerAgentType DEF LoadConfig
      <3> QED
        BY <3>1, <3>2
    <2>4. \A i \in DOMAIN request[r].fleet : work[r][request[r].fleet[i]] = "none"
      BY <1>0, <2>1
    <2>5. FleetInv!(r)'
      BY <1>0, <2>1, <2>2, <2>3, <2>4 DEF IInv, FleetInv
    <2> QED
      BY <2>1, <2>2, <2>4, <2>5, OwnStep DEF Outcomes
  <1>3. CASE DispatchNext(r)
    <2> DEFINE id == Current(r)
    <2>1. request[r].pc = "dispatching" /\ request[r].at \in DOMAIN request[r].fleet /\ id \in Ids
      BY <1>0, <1>3 DEF DispatchNext, Active
    <2>2. work[r][id] = "none" /\ id = request[r].fleet[request[r].at]
      BY <1>0, <2>1 DEF IInv, FleetInv, Current
    <2>3. CASE ~MayDispatch(id)
      <3>1. /\ request'[r].fleet = request[r].fleet /\ request'[r].used = request[r].used
            /\ request'[r].vus = request[r].vus /\ request'[r].load = request[r].load
            /\ request'[r].pc = "error"
            /\ \A q \in Runs : q # r => request'[q] = request[q]
            /\ UNCHANGED <<assignments, agent, work, results>>
        BY <1>0, <1>3, <2>3 DEF DispatchNext, Requests
      <3>2. FleetInv!(r)'
        BY <3>1 DEF IInv, FleetInv
      <3>3. \A i : ~ToCome(r, i)'
        BY <3>1 DEF ToCome
      <3> QED
        BY <3>1, <3>2, <3>3, OwnStep
    <2>4. CASE MayDispatch(id)
      <3> HIDE DEF id
      <3>1. /\ request'[r].fleet = request[r].fleet /\ request'[r].used = request[r].used
            /\ request'[r].vus = request[r].vus /\ request'[r].load = request[r].load
            /\ \/ request'[r].pc = "awaiting"
               \/ request'[r].pc = "dispatching" /\ request'[r].at = request[r].at + 1
            /\ \A q \in Runs : q # r => request'[q] = request[q]
        BY <1>0, <1>3, <2>4 DEF DispatchNext, Requests, id
      <3>2. /\ work' = [work EXCEPT ![r][id] = "queued"]
            /\ assignments' = [assignments EXCEPT ![id] = r]
            /\ assignments[id] = Nobody
            /\ UNCHANGED <<agent, results>>
        BY <1>3, <2>4 DEF DispatchNext, Dispatch, MayDispatch, id
      <3>3. /\ work'[r][id] = "queued"
            /\ \A q \in Runs, i \in Ids : q # r \/ i # id => work'[q][i] = work[q][i]
            /\ assignments'[id] = r
            /\ \A i \in Ids : i # id => assignments'[i] = assignments[i]
        BY <1>0, <2>1, <3>2 DEF TypeOK, RegistryTypeOK
      <3>4. FleetInv!(r)'
        <4>1. ASSUME request'[r].pc = "dispatching", NEW i \in DOMAIN request'[r].fleet,
                     i >= request'[r].at
              PROVE  work'[r][request'[r].fleet[i]] = "none"
          <5>1. /\ i \in DOMAIN request[r].fleet /\ i >= request[r].at /\ i # request[r].at
                /\ request[r].fleet[i] \in Ids
            BY <1>0, <3>1, <4>1
          <5>2. request[r].fleet[i] # id
            BY <2>1, <2>2, <5>1 DEF IInv, FleetInv
          <5>3. work[r][request[r].fleet[i]] = "none"
            BY <2>1, <5>1 DEF IInv, FleetInv
          <5> QED
            BY <3>1, <3>3, <5>1, <5>2, <5>3
        <4>2. ASSUME NEW i \in Ids, work'[r][i] # "none"
              PROVE  i \in Range(request'[r].fleet)
          <5>1. id \in Range(request[r].fleet)
            BY <2>1, <2>2 DEF Range
          <5> QED
            BY <3>1, <3>3, <4>2, <5>1 DEF IInv, FleetInv
        <4>3. ASSUME NEW i \in request'[r].used
              PROVE  work'[r][i] = "summary"
          <5>1. work[r][i] = "summary" /\ i \in Ids
            BY <1>0, <3>1, <4>3 DEF IInv, FleetInv
          <5> QED
            BY <2>2, <3>3, <5>1
        <4> QED
          BY <3>1, <4>1, <4>2, <4>3 DEF IInv, FleetInv
      <3>5. ASSUME NEW q \in Runs, q # r
            PROVE  FleetInv!(q)'
        <4>1. /\ request'[q] = request[q] /\ \A i \in Ids : work'[q][i] = work[q][i]
              /\ request[q].fleet \in Seq(Ids) /\ request[q].used \subseteq Ids
          BY <1>0, <3>1, <3>3, <3>5, RequestType
        <4> QED
          BY <4>1 DEF IInv, FleetInv
      <3>6. FleetInv'
        BY <3>4, <3>5 DEF FleetInv
      <3>7. HolderInv'
        <4>1. ASSUME NEW i \in Ids, assignments'[i] # Nobody
              PROVE  work'[assignments'[i]][i] = "queued"
          <5>1. CASE i = id
            BY <3>3, <5>1
          <5>2. CASE i # id
            <6>1. assignments[i] \in Runs /\ work[assignments[i]][i] = "queued"
              BY <1>0, <3>3, <4>1, <5>2 DEF IInv, HolderInv, TypeOK, RegistryTypeOK
            <6> QED
              BY <3>3, <5>2, <6>1
          <5> QED
            BY <5>1, <5>2
        <4>2. ASSUME NEW a \in Agents, agent[a].pc = "executing"
              PROVE  agent[a].run \in Runs /\ work'[agent[a].run][IdOf[a]] = "running"
          <5>1. agent[a].run \in Runs /\ work[agent[a].run][IdOf[a]] = "running" /\ IdOf[a] \in Ids
            BY <4>2, FleetFacts DEF IInv, HolderInv
          <5> QED
            BY <2>2, <3>3, <5>1
        <4> QED
          BY <3>2, <4>1, <4>2 DEF IInv, HolderInv
      <3>8. ResultInv'
        <4>1. ASSUME NEW q \in Runs, NEW i \in Ids, results'[<<q, i>>] \in Outcomes
              PROVE  work'[q][i] = results'[<<q, i>>]
          <5>1. work[q][i] = results[<<q, i>>] /\ work[q][i] \in Outcomes
            BY <3>2, <4>1 DEF IInv, ResultInv
          <5>2. work[q][i] # "none"
            BY <5>1 DEF Outcomes
          <5> QED
            BY <2>2, <3>2, <3>3, <5>1, <5>2
        <4>2. ASSUME NEW q \in Runs, NEW i \in DOMAIN request'[q].fleet, ToCome(q, i)',
                     work'[q][request'[q].fleet[i]] \in Outcomes
              PROVE  results'[<<q, request'[q].fleet[i]>>] \in Outcomes
          <5>1. request'[q].fleet = request[q].fleet
            BY <3>1
          <5>2. request[q].fleet[i] \in Ids /\ i \in DOMAIN request[q].fleet
            BY <1>0, <4>2, <5>1, RequestType
          <5>3. work[q][request[q].fleet[i]] \in Outcomes
            <6>1. "queued" \notin Outcomes
              BY DEF Outcomes
            <6> QED
              BY <3>3, <4>2, <5>1, <5>2, <6>1
          <5>4. ToCome(q, i)
            BY <2>1, <3>1, <4>2 DEF ToCome
          <5> QED
            BY <3>2, <5>1, <5>2, <5>3, <5>4 DEF IInv, ResultInv
        <4> QED
          BY <4>1, <4>2 DEF ResultInv
      <3> QED
        BY <3>6, <3>7, <3>8
    <2> QED
      BY <2>3, <2>4
  <1>4. CASE AwaitNext(r)
    <2>1. /\ request'[r].fleet = request[r].fleet /\ request'[r].used = request[r].used
          /\ request'[r].vus = request[r].vus /\ request'[r].load = request[r].load
          /\ request'[r].at = request[r].at
          /\ request[r].pc = "awaiting" /\ request'[r].pc = "waiting"
          /\ \A q \in Runs : q # r => request'[q] = request[q]
          /\ UNCHANGED <<assignments, agent, work>>
      BY <1>0, <1>4 DEF AwaitNext, Requests
    <2>2. FleetInv!(r)'
      BY <2>1 DEF IInv, FleetInv
    <2>3. \A q \in Runs, i \in Ids :
              IF results[<<q, i>>] \in Outcomes THEN results'[<<q, i>>] = results[<<q, i>>]
              ELSE results'[<<q, i>>] \notin Outcomes
      BY <1>0, <1>4 DEF AwaitNext, AwaitResult, resultKey, Outcomes, TypeOK, RegistryTypeOK
    <2>4. \A q \in Runs, i \in Ids : q # r => results'[<<q, i>>] = results[<<q, i>>]
      BY <1>0, <1>4 DEF AwaitNext, AwaitResult, resultKey, TypeOK, RegistryTypeOK
    <2>5. ASSUME NEW i \in DOMAIN request'[r].fleet, ToCome(r, i)',
                 work[r][request'[r].fleet[i]] \in Outcomes
          PROVE  results'[<<r, request'[r].fleet[i]>>] \in Outcomes
      <3>1. ToCome(r, i) /\ request[r].fleet[i] \in Ids /\ i \in DOMAIN request[r].fleet
        BY <1>0, <2>1, <2>5 DEF ToCome
      <3>2. results[<<r, request[r].fleet[i]>>] \in Outcomes
        BY <2>1, <2>5, <3>1 DEF IInv, ResultInv
      <3> QED
        BY <2>1, <2>3, <3>1, <3>2
    <2> QED
      BY <2>1, <2>2, <2>3, <2>4, <2>5, OwnStep
  <1>5. CASE Collect(r)
    <2> DEFINE result == results[<<r, Current(r)>>]
               used == IF result = "summary" THEN request[r].used \cup {Current(r)}
                       ELSE request[r].used
    <2>1. request[r].pc = "waiting" /\ result \in Outcomes /\ Advance(r, used)
      BY <1>5 DEF Collect, resultKey
    <2>2. Current(r) \in Ids
      BY <1>0, <2>1 DEF Active
    <2>3. work[r][Current(r)] = result
      BY <2>1, <2>2 DEF IInv, ResultInv
    <2>4. used \in SUBSET Ids /\ \A id \in used : work[r][id] = "summary"
      BY <1>0, <2>2, <2>3 DEF IInv, FleetInv
    <2>5. /\ UNCHANGED <<assignments, agent, work>>
          /\ results' = [results EXCEPT ![<<r, Current(r)>>] = "absent"]
      BY <1>5 DEF Collect, ReceiveResult, resultKey
    <2> HIDE DEF used, result
    <2> QED
      BY <2>1, <2>4, <2>5, AdvanceInv
  <1>6. CASE AwaitTimeout(r)
    <2>1. /\ request[r].pc = "waiting" /\ Advance(r, request[r].used)
          /\ UNCHANGED <<assignments, agent, work, results>>
          /\ \A id \in request[r].used : work[r][id] = "summary"
      BY <1>6 DEF AwaitTimeout, registry, IInv, FleetInv
    <2> QED
      BY <1>0, <2>1, AdvanceInv
  <1> QED
    BY <1>1, <1>2, <1>3, <1>4, <1>5, <1>6 DEF RequestStep

LEMMA StartInvStep ==
    ASSUME IInv, NEW r \in Runs, NEW wanted \in Wanted[r],
           StartRequest(r, wanted)
    PROVE  FleetInv' /\ HolderInv' /\ ResultInv'
  <1>1. /\ request[r].pc = "absent" /\ UNCHANGED <<assignments, agent, work, results>>
        /\ \A id \in Ids : work[r][id] = "none"
    BY DEF StartRequest, IInv, FleetInv, registry
  <1>2. /\ request'[r].fleet = <<>> /\ request'[r].used = {} /\ request'[r].vus = 0
        /\ request'[r].load \in LoadConfig /\ request'[r].pc = "listing"
        /\ \A q \in Runs : q # r => request'[q] = request[q]
    <2>1. wanted.load \in LoadConfig
      BY FleetFacts DEF MultiRegionRequest
    <2> QED
      BY <2>1 DEF StartRequest, NoRequest, IInv, TypeOK
  <1>3. FleetInv!(r)'
    <2>1. Len(request'[r].fleet) = 0 /\ DOMAIN request'[r].fleet = {}
      BY <1>2
    <2>2. request'[r].load.vus \in Int
      BY <1>2 DEF LoadConfig
    <2>3. Len(request'[r].fleet) * request'[r].vus <=
              IF request'[r].load.vus > Len(request'[r].fleet)
              THEN request'[r].load.vus ELSE Len(request'[r].fleet)
      BY <1>2, <2>1, <2>2
    <2> QED
      BY <1>1, <1>2, <2>1, <2>3
  <1>4. \A i : ~ToCome(r, i)'
    BY <1>2 DEF ToCome
  <1> QED
    BY <1>1, <1>2, <1>3, <1>4, OwnStep

LEMMA InvStep == IInv /\ [Next]_vars => IInv'
  <1> SUFFICES ASSUME IInv, [Next]_vars PROVE IInv'
    OBVIOUS
  <1>1. TypeOK'
    BY TypeStep DEF IInv
  <1>2. CASE UNCHANGED vars
    BY <1>2, IdleStep, <1>1 DEF vars, registry, IInv
  <1>3. CASE Next
    BY <1>1, <1>3, AgentInvStep, RegistryInvStep, RequestInvStep, StartInvStep, RestartInvStep
       DEF Next, IInv
  <1> QED
    BY <1>2, <1>3

THEOREM Invariance == Spec => []IInv
  <1>1. Init => IInv
    BY TypeInit, InvInit DEF IInv
  <1> QED
    BY <1>1, InvStep, PTL DEF Spec

-----------------------------------------------------------------------------
(* The properties                                                          *)

(* The answer to a request merges summaries of this very run alone. *)
THEOREM MergedReported == Spec => []MergedIsReported
  <1>1. IInv => MergedIsReported
    BY DEF IInv, FleetInv, MergedIsReported
  <1> QED
    BY <1>1, Invariance, PTL

(* A request never goes past an agent whose summary has arrived without
   taking it in. *)
THEOREM ReportNotMissed == Spec => NoReportMissed
  <1>1. ASSUME IInv, [Next]_vars, NEW r \in Runs,
               request[r].pc = "waiting", request'[r].pc \in {"awaiting", "done", "error"},
               work[r][Current(r)] = "summary"
        PROVE  Current(r) \in request'[r].used
    <2>0. /\ TypeOK /\ request \in [Runs -> Requests] /\ request[r].at \in DOMAIN request[r].fleet
          /\ Current(r) \in Ids /\ request[r].used \in SUBSET Ids
      BY <1>1, RequestType DEF IInv, TypeOK, Active
    <2>1. results[<<r, Current(r)>>] = "summary"
      <3>1. ToCome(r, request[r].at)
        <4>1. request[r].at \in Nat
          BY <2>0, RequestType
        <4> QED
          BY <1>1, <4>1 DEF ToCome
      <3>2. results[<<r, Current(r)>>] \in Outcomes
        BY <1>1, <2>0, <3>1 DEF IInv, ResultInv, Current, Outcomes
      <3> QED
        BY <1>1, <2>0, <3>2 DEF IInv, ResultInv
    <2>2. request'[r] # request[r]
      BY <1>1
    <2>3. ASSUME NEW q \in Runs, RequestStep(q)
          PROVE  q = r /\ Collect(r)
      <3>1. q # r => request'[r] = request[r]
        BY <2>0, <2>3 DEF RequestStep, ListRegion, SplitLoad, DispatchNext, AwaitNext, Collect,
                          AwaitTimeout, Advance
      <3>2. ~AwaitTimeout(r)
        BY <2>1 DEF AwaitTimeout, resultKey, Outcomes
      <3> QED
        BY <1>1, <2>2, <2>3, <3>1, <3>2 DEF RequestStep, ListRegion, SplitLoad, DispatchNext, AwaitNext
    <2>4. ASSUME NEW q \in Runs, NEW wanted \in Wanted[q],
                 StartRequest(q, wanted)
          PROVE  FALSE
      BY <1>1, <2>0, <2>2, <2>4 DEF StartRequest
    <2>5. ~RestartServer
      <3>1. RestartServer => request'[r] = [request[r] EXCEPT !.pc = "gone"]
        BY <1>1 DEF RestartServer, Active
      <3>2. [request[r] EXCEPT !.pc = "gone"].pc = "gone"
        BY <2>0 DEF Requests
      <3> QED
        BY <1>1, <3>1, <3>2
    <2>6. ASSUME NEW a \in Agents, AgentStep(a) PROVE UNCHANGED request
      BY <2>6 DEF AgentStep, StartAgent, Poll, Receive, PollTimeout, PollBreaks, Report,
                  ReportBreaks, CrashAgent
    <2>7. ASSUME NEW id \in Ids, RegistryStep(id) PROVE UNCHANGED request
      BY <2>7 DEF RegistryStep, HandleHeartbeat, Disconnect, AbandonedTakes, AbandonedTimeout
    <2>8. Collect(r)
      BY <1>1, <2>2, <2>3, <2>4, <2>5, <2>6, <2>7 DEF Next, vars
    <2>9. Advance(r, request[r].used \cup {Current(r)})
      BY <2>1, <2>8 DEF Collect, resultKey
    <2>10. request[r].used \cup {Current(r)} \in SUBSET Ids
      BY <2>0
    <2> QED
      BY <1>1, <2>0, <2>9, <2>10 DEF Advance, Requests
  <1>2. IInv /\ [Next]_vars =>
           [\A r \in Runs :
               /\ request[r].pc = "waiting" /\ request'[r].pc \in {"awaiting", "done", "error"}
               /\ work[r][Current(r)] = "summary"
               => Current(r) \in request'[r].used]_vars
    BY <1>1
  <1> QED
    BY <1>2, Invariance, PTL DEF Spec, NoReportMissed

(* An assignment that was taken is never given to an agent again. *)
THEOREM AssignmentTakenOnce == Spec => TakenOnce
  <1>1. ASSUME IInv, [Next]_vars, NEW r \in Runs, NEW id \in Ids,
               work[r][id] \notin {"none", "queued"}
        PROVE  /\ work'[r][id] # "queued"
               /\ work'[r][id] = "running" => work[r][id] = "running"
    <2>0. /\ TypeOK /\ work \in [Runs -> [Ids -> {"none", "queued", "running", "lost"} \cup Outcomes]]
          /\ assignments \in [Ids -> Runs \cup {Nobody}]
          /\ IdOf \in [Agents -> Ids]
      BY <1>1, FleetFacts DEF IInv, TypeOK, RegistryTypeOK
    <2>1. ASSUME NEW a \in Agents, AgentStep(a)
          PROVE  work'[r][id] = work[r][id] \/ work'[r][id] \in Outcomes \cup {"lost"}
      <3>1. CASE Receive(a)
        <4>1. work[assignments[IdOf[a]]][IdOf[a]] = "queued" /\ assignments[IdOf[a]] \in Runs
          BY <1>1, <2>0, <3>1 DEF Receive, IInv, HolderInv
        <4>2. work' = [work EXCEPT ![assignments[IdOf[a]]][IdOf[a]] = "running"]
          BY <3>1 DEF Receive
        <4>3. r # assignments[IdOf[a]] \/ id # IdOf[a]
          BY <1>1, <4>1
        <4> QED
          BY <2>0, <4>1, <4>2, <4>3
      <3>2. CASE ~Receive(a)
        <4> DEFINE from == agent[a].run
        <4>1. \/ UNCHANGED work
              \/ work' = [work EXCEPT ![from][IdOf[a]] = "lost"]
              \/ \E outcome \in Outcomes : work' = [work EXCEPT ![from][IdOf[a]] = outcome]
          BY <2>1, <3>2 DEF AgentStep, StartAgent, Poll, PollTimeout, PollBreaks, Report,
                            ReportBreaks, CrashAgent
        <4> HIDE DEF from
        <4> QED
          BY <2>0, <4>1
      <3> QED
        BY <3>1, <3>2
    <2>2. ASSUME NEW i \in Ids, RegistryStep(i)
          PROVE  work'[r][id] = work[r][id] \/ work'[r][id] = "lost"
      BY <2>0, <2>2 DEF RegistryStep, HandleHeartbeat, Disconnect, AbandonedTakes, AbandonedTimeout
    <2>3. ASSUME NEW q \in Runs, RequestStep(q)
          PROVE  work'[r][id] = work[r][id]
      <3>1. CASE DispatchNext(q) /\ MayDispatch(Current(q))
        <4>1. work' = [work EXCEPT ![q][Current(q)] = "queued"]
          BY <3>1 DEF DispatchNext
        <4>2. /\ request[q].pc = "dispatching" /\ request[q].at \in DOMAIN request[q].fleet
              /\ request[q].at \in Nat
          BY <2>0, <3>1, RequestType DEF DispatchNext, TypeOK, Active
        <4>3. work[q][Current(q)] = "none"
          BY <1>1, <4>2 DEF IInv, FleetInv, Current
        <4>4. q # r \/ Current(q) # id
          BY <1>1, <4>3
        <4> QED
          BY <2>0, <4>1, <4>4
      <3>2. CASE ~(DispatchNext(q) /\ MayDispatch(Current(q)))
        BY <2>3, <3>2 DEF RequestStep, ListRegion, SplitLoad, DispatchNext, AwaitNext, Collect,
                          AwaitTimeout
      <3> QED
        BY <3>1, <3>2
    <2>4. ASSUME NEW q \in Runs, NEW wanted \in Wanted[q],
                 StartRequest(q, wanted)
          PROVE  UNCHANGED work
      BY <2>4 DEF StartRequest
    <2>5. CASE RestartServer
      BY <1>1, <2>0, <2>5 DEF RestartServer
    <2>6. "running" \notin Outcomes /\ "queued" \notin Outcomes
      BY DEF Outcomes
    <2> QED
      BY <1>1, <2>1, <2>2, <2>3, <2>4, <2>5, <2>6 DEF Next, vars
  <1>2. IInv /\ [Next]_vars =>
           [\A r \in Runs, id \in Ids :
               work[r][id] \notin {"none", "queued"} =>
                   /\ work'[r][id] # "queued"
                   /\ work'[r][id] = "running" => work[r][id] = "running"]_vars
    BY <1>1
  <1> QED
    BY <1>2, Invariance, PTL DEF Spec, TakenOnce

LEMMA ProductMonotone ==
    ASSUME NEW b \in Nat, NEW p \in Nat, NEW q \in Nat, p <= q
    PROVE  p * b <= q * b
  OBVIOUS

(* All the agents that run a request of a flat profile together never put more
   users on the target than it asked for, or one each; a ramp or a rate is put
   on it at most once by each agent of the fleet. *)
THEOREM LoadSplit == Spec => []LoadIsSplit
  <1>1. ASSUME IInv, NEW r \in Runs
        PROVE  LET running == Cardinality({a \in Agents : agent[a] = [pc |-> "executing", run |-> r]})
                   size == Len(request[r].fleet)
                   asked == request[r].load
               IN  running * PutOn(AgentLoad(r)) <=
                       IF asked.profile # "flat_vu" THEN size * asked.rest
                       ELSE IF asked.vus > size THEN asked.vus ELSE size
    <2> DEFINE executing == {a \in Agents : agent[a] = [pc |-> "executing", run |-> r]}
               size == Len(request[r].fleet)
               fleet == Range(request[r].fleet)
               of == [a \in executing |-> IdOf[a]]
    <2>1. /\ request[r].fleet \in Seq(Ids) /\ size \in Nat /\ DOMAIN request[r].fleet = 1..size
          /\ request[r].vus \in Nat /\ request[r].load \in LoadConfig
      BY <1>1, RequestType DEF IInv
    <2>2. IsFiniteSet(fleet) /\ Cardinality(fleet) <= size
      <3>1. request[r].fleet \in Surjection(1..size, fleet)
        <4>1. request[r].fleet \in [1..size -> fleet]
          BY <2>1 DEF Range
        <4>2. \A id \in fleet : \E i \in 1..size : request[r].fleet[i] = id
          BY <2>1 DEF Range
        <4> HIDE DEF fleet, size
        <4> QED
          BY <4>1, <4>2 DEF Surjection
      <3>2. IsFiniteSet(1..size) /\ Cardinality(1..size) = size
        <4> HIDE DEF size
        <4>1. size \in Int /\ size >= 0
          BY <2>1
        <4>2. /\ IsFiniteSet(1..size)
              /\ Cardinality(1..size) = IF 1 > size THEN 0 ELSE size - 1 + 1
          BY ONLY <4>1, FS_Interval
        <4> QED
          BY ONLY <4>1, <4>2
      <3> QED
        BY <3>1, <3>2, FS_Surjection
    <2>3. \A a \in executing : IdOf[a] \in fleet
      <3>1. ASSUME NEW a \in executing PROVE IdOf[a] \in fleet
        <4>1. work[r][IdOf[a]] = "running" /\ IdOf[a] \in Ids
          BY <1>1, FleetFacts DEF IInv, HolderInv
        <4> QED
          BY <1>1, <4>1 DEF IInv, FleetInv
      <3> QED
        BY <3>1
    <2>4. \A a, b \in executing : IdOf[a] = IdOf[b] => a = b
      BY <1>1 DEF IInv, HolderInv
    <2>5. of \in Injection(executing, fleet)
      BY <2>3, <2>4 DEF Injection, IsInjective
    <2>6. IsFiniteSet(executing) /\ Cardinality(executing) <= Cardinality(fleet)
      BY <2>2, <2>5, FS_Injection
    <2>7. Cardinality(executing) \in Nat /\ Cardinality(fleet) \in Nat
      BY <2>2, <2>6, FS_CardinalityType
    <2>8. Cardinality(executing) <= size
      BY <2>1, <2>2, <2>6, <2>7
    <2> DEFINE asked == request[r].load
    <2>9. /\ asked.vus \in Int /\ asked.rest \in Nat
          /\ AgentLoad(r).profile = asked.profile
          /\ AgentLoad(r).vus = request[r].vus /\ AgentLoad(r).rest = asked.rest
      BY <2>1 DEF AgentLoad, LoadConfig
    <2>10. CASE asked.profile # "flat_vu"
      <3>1. PutOn(AgentLoad(r)) = asked.rest
        BY <2>9, <2>10 DEF PutOn
      <3>2. Cardinality(executing) * asked.rest <= size * asked.rest
        BY <2>1, <2>7, <2>8, <2>9, ProductMonotone
      <3> HIDE DEF executing, size, asked
      <3>3. Cardinality(executing) * PutOn(AgentLoad(r)) <= size * asked.rest
        BY <3>1, <3>2
      <3> QED
        BY <3>3, <2>10 DEF executing, size, asked
    <2>11. CASE asked.profile = "flat_vu"
      <3>1. PutOn(AgentLoad(r)) = request[r].vus
        BY <2>9, <2>11 DEF PutOn
      <3>2. Cardinality(executing) * request[r].vus <= size * request[r].vus
        BY <2>1, <2>7, <2>8, ProductMonotone
      <3>3. size * request[r].vus <= IF asked.vus > size THEN asked.vus ELSE size
        BY <1>1 DEF IInv, FleetInv
      <3>4. /\ Cardinality(executing) * request[r].vus \in Nat
            /\ size * request[r].vus \in Nat
        BY <2>1, <2>7, SMTT(30)
      <3> HIDE DEF executing, size, asked
      <3>5. Cardinality(executing) * PutOn(AgentLoad(r)) <=
                IF asked.vus > size THEN asked.vus ELSE size
        BY <2>1, <2>9, <3>1, <3>2, <3>3, <3>4
      <3> QED
        BY <3>5, <2>11 DEF executing, size, asked
    <2> QED
      BY <2>10, <2>11
  <1>2. IInv => LoadIsSplit
    BY <1>1 DEF LoadIsSplit
  <1> QED
    BY <1>2, Invariance, PTL
=============================================================================
