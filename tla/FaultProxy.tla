----------------------------- MODULE FaultProxy -----------------------------
(***************************************************************************)
(* The forward proxy that injects faults into requests                     *)
(* (pkg/chaos/driver_httpproxy.go).  A request reads the fault in force    *)
(* once, when it comes, and then goes through the stages of ServeHTTP,     *)
(* which sleep and wait for the origin, while faults are applied and       *)
(* reverted.                                                               *)
(***************************************************************************)
EXTENDS Integers

CONSTANTS
    ProxyRequests,
    ProxyHosts,    \* the hosts requests go to
    ProxyFaults,   \* the faults that may be applied
    ProxyEffects,  \* per fault: the effects that have a positive setting
    ProxyDomains,  \* per fault: the hosts its TargetDomains match, all if there
                   \* are none
    MaxSwitches    \* bound: calls of Apply and Revert

ASSUME ProxyConstants ==
    /\ ProxyDomains \in [ProxyFaults -> SUBSET ProxyHosts]
    /\ MaxSwitches \in Nat

VARIABLES
    activeFault,  \* HTTPProxyDriver.activeFault
    visit,        \* per request: its host, its stage and the fault it read
    outcome,      \* per request: what its client sees
    touched,      \* history: per request, the faults that had an effect on it
    inForce,      \* history: per request, the fault in force when it came
    switches      \* history: how often Apply and Revert were called

proxyVars == <<activeFault, visit, outcome, touched, inForce, switches>>

NoProxyFault == "none"
Outcomes == {"none", "refused", "dns_failure", "severed", "upstream_error", "corrupted",
             "throttled", "forwarded"}
Stages == {"new", "resolve", "lose", "relay", "answer", "done"}

ProxyInit ==
    /\ activeFault = NoProxyFault
    /\ visit = [r \in ProxyRequests |->
                  [host |-> NoProxyFault, stage |-> "new", fault |-> NoProxyFault]]
    /\ outcome = [r \in ProxyRequests |-> "none"]
    /\ touched = [r \in ProxyRequests |-> {}]
    /\ inForce = [r \in ProxyRequests |-> NoProxyFault]
    /\ switches = 0

Switch(f) ==
    /\ switches < MaxSwitches
    /\ switches' = switches + 1
    /\ activeFault' = f
    /\ UNCHANGED <<visit, outcome, touched, inForce>>

ApplyProxyFault(f) == Switch(f)
RevertProxyFault == Switch(NoProxyFault)

-----------------------------------------------------------------------------
(* Mutant: every stage asks for the fault in force. *)
FaultOf_Latest(r) == activeFault

FaultOf(r) == visit[r].fault

applies(r, effect) ==
    /\ FaultOf(r) # NoProxyFault
    /\ visit[r].host \in ProxyDomains[FaultOf(r)]
    /\ effect \in ProxyEffects[FaultOf(r)]

(* Tunnels and relative addresses are refused before anything else. *)
Receive(r, host, isForward) ==
    /\ visit[r].stage = "new"
    /\ inForce' = [inForce EXCEPT ![r] = activeFault]
    /\ visit' = [visit EXCEPT ![r] = [host |-> host, fault |-> activeFault,
                                      stage |-> IF isForward THEN "resolve" ELSE "done"]]
    /\ outcome' = [outcome EXCEPT ![r] = IF isForward THEN @ ELSE "refused"]
    /\ UNCHANGED <<activeFault, touched, switches>>

Touch(r) == touched' = [touched EXCEPT ![r] = @ \cup {FaultOf(r)}]

EndWith(r, result) ==
    /\ outcome' = [outcome EXCEPT ![r] = result]
    /\ visit' = [visit EXCEPT ![r].stage = "done"]

GoOn(r, next) ==
    /\ visit' = [visit EXCEPT ![r].stage = next]
    /\ UNCHANGED outcome

(* A stage whose effect depends on a roll has both outcomes. *)
Stage(r) ==
    /\ \/ /\ visit[r].stage = "resolve"
          /\ \/ applies(r, "dns_failure") /\ Touch(r) /\ EndWith(r, "dns_failure")
             \/ applies(r, "dns_delay") /\ Touch(r) /\ GoOn(r, "lose")
             \/ ~applies(r, "dns_delay") /\ UNCHANGED touched /\ GoOn(r, "lose")
       \/ /\ visit[r].stage = "lose"
          /\ \/ applies(r, "loss") /\ Touch(r) /\ EndWith(r, "severed")
             \/ applies(r, "latency") /\ Touch(r) /\ GoOn(r, "relay")
             \/ ~applies(r, "latency") /\ UNCHANGED touched /\ GoOn(r, "relay")
       \/ /\ visit[r].stage = "relay"
          /\ IF applies(r, "clock_skew") THEN Touch(r) ELSE UNCHANGED touched
          /\ GoOn(r, "answer") \/ EndWith(r, "upstream_error")
       \/ /\ visit[r].stage = "answer"
          /\ \/ applies(r, "corruption") /\ Touch(r) /\ EndWith(r, "corrupted")
             \/ applies(r, "rate_limit") /\ Touch(r) /\ EndWith(r, "throttled")
             \/ ~applies(r, "rate_limit") /\ UNCHANGED touched /\ EndWith(r, "forwarded")
    /\ UNCHANGED <<activeFault, inForce, switches>>

ProxyNext ==
    \/ \E f \in ProxyFaults : ApplyProxyFault(f)
    \/ RevertProxyFault
    \/ \E r \in ProxyRequests, host \in ProxyHosts, isForward \in BOOLEAN :
          Receive(r, host, isForward)
    \/ \E r \in ProxyRequests : Stage(r)

ProxySpec == ProxyInit /\ [][ProxyNext]_proxyVars

-----------------------------------------------------------------------------
ProxyTypeOK ==
    /\ activeFault \in ProxyFaults \cup {NoProxyFault}
    /\ visit \in [ProxyRequests -> [host : ProxyHosts \cup {NoProxyFault}, stage : Stages,
                                    fault : ProxyFaults \cup {NoProxyFault}]]
    /\ outcome \in [ProxyRequests -> Outcomes]
    /\ touched \in [ProxyRequests -> SUBSET ProxyFaults]
    /\ inForce \in [ProxyRequests -> ProxyFaults \cup {NoProxyFault}]
    /\ switches \in Nat

(* A fault has an effect on the requests to its own domains only, and on none
   that came after it was reverted or replaced, however long that request
   takes; what its client sees is the origin's own answer or failure unless the
   fault explains it. *)
TouchedByItsFault ==
    \A r \in ProxyRequests :
       /\ \A f \in touched[r] : f = inForce[r] /\ visit[r].host \in ProxyDomains[f]
       /\ outcome[r] \in {"dns_failure", "severed", "corrupted", "throttled"} => touched[r] # {}
=============================================================================
