---------------------------- MODULE MCBackground ----------------------------
(***************************************************************************)
(* Small instances of the parts of the server that work with goroutines    *)
(* and channels of their own.  They share no state, so a step of one       *)
(* neither enables nor disables a step of another and nothing is learnt    *)
(* from mixing them: every behaviour has one of them in focus, and leaves  *)
(* the others as they are at the start.                                    *)
(***************************************************************************)
EXTENDS EventBus, SystemLog, ResourceStress, FaultProxy, PodKill

VARIABLE focus

StressIds == [burn |-> "stress", fill |-> "stress"]
Burdens == [burn |-> {"cpu"}, fill |-> {"memory", "disk"}]

Effects == [slow |-> {"dns_delay", "latency", "clock_skew", "rate_limit"},
            broken |-> {"dns_failure", "loss", "corruption"}]
Domains == [slow |-> {"shop", "pay"}, broken |-> {"pay"}]

Init ==
    /\ BusInit /\ LogInit /\ StressInit /\ ProxyInit /\ PodInit
    /\ focus \in {"bus", "log", "stress", "proxy", "pods"}

Bus(A) == focus = "bus" /\ A /\ UNCHANGED <<focus, logVars, stressVars, proxyVars, podVars>>
Log(A) == focus = "log" /\ A /\ UNCHANGED <<focus, busVars, stressVars, proxyVars, podVars>>
Stress(A) == focus = "stress" /\ A /\ UNCHANGED <<focus, busVars, logVars, proxyVars, podVars>>
Proxy(A) == focus = "proxy" /\ A /\ UNCHANGED <<focus, busVars, logVars, stressVars, podVars>>
Kubernetes(A) == focus = "pods" /\ A /\ UNCHANGED <<focus, busVars, logVars, stressVars, proxyVars>>

Next == Bus(BusNext) \/ Log(LogNext) \/ Stress(StressNext) \/ Proxy(ProxyNext)
        \/ Kubernetes(PodNext)

vars == <<focus, busVars, logVars, stressVars, proxyVars, podVars>>

(* Goroutines that can go on do: the loop of Publish, a handler's loop, the
   workers and the watcher of a stress; timers fire. *)
Spec ==
    /\ Init /\ [][Next]_vars
    /\ WF_vars(Bus(\E p \in Publishers, s \in Streams : Send(p, s)))
    /\ \A s \in Streams : WF_vars(Bus(Forward(s) \/ Return(s)))
    /\ \A n \in Stresses :
          /\ WF_vars(Stress(StressExpires(n)))
          /\ WF_vars(Stress(Watch(n)))
          /\ WF_vars(Stress(\E kind \in {"cpu", "memory", "disk"} : WorkerReturns(n, kind)))

(* Every variable of every part has its type, and the one stress that goes on
   is the one its driver holds. *)
TypeOK == BusTypeOK /\ LogTypeOK /\ StressTypeOK /\ ProxyTypeOK /\ PodTypeOK
=============================================================================
