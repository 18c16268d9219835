------------------------------ MODULE PodKill -------------------------------
(***************************************************************************)
(* The driver that deletes pods (pkg/k8schaos/pod_kill_driver.go), the     *)
(* request that runs it, and the monitor that watches whether the          *)
(* autoscaler answers (autoscaler_monitor.go).  The cluster is external:   *)
(* its pods end and begin by themselves, its API refuses calls.            *)
(***************************************************************************)
EXTENDS Integers, FiniteSets, FiniteSetsExt

CONSTANTS
    Pods,
    KillPercents,  \* what a client may ask for; 0 for everything
    MaxReplicas,
    MaxSamples     \* bound: polls of the autoscaler

ASSUME PodConstants ==
    /\ IsFiniteSet(Pods)
    /\ KillPercents \subseteq Int
    /\ MaxReplicas \in Nat /\ MaxSamples \in Nat

VARIABLES
    pods,      \* the pods that match the selector
    podKill,   \* the request: its state, the pods listed, the victims left
    killed,    \* the pods whose deletion the driver has an answer for
    deleted,   \* history: the pods the cluster has deleted for it
    report,    \* AutoscalerReport
    samples    \* history: the replicas of every poll that was answered

podVars == <<pods, podKill, killed, deleted, report, samples>>

PodInit ==
    /\ pods = Pods
    /\ podKill = [state |-> "idle", percent |-> 0, listed |-> {}, victims |-> {}]
    /\ killed = {} /\ deleted = {}
    /\ report = [start |-> 0, peak |-> 0, scaledUp |-> FALSE, verdict |-> "none"]
    /\ samples = {}

-----------------------------------------------------------------------------
Asked(percent) == IF percent <= 0 THEN 100 ELSE percent

(* The share is rounded down, unless nothing would be left of it.  (The comment
   on Apply says that it is rounded up.) *)
KillCount(n, percent) ==
    LET share == (n * Asked(percent)) \div 100
    IN  Min({n, Max({1, share})})

(* Nothing is deleted when no pod matches, or when they cannot be listed. *)
ListPods(percent, allowed) ==
    /\ podKill.state = "idle"
    /\ IF pods = {} \/ ~allowed
       THEN podKill' = [podKill EXCEPT !.state = "refused"]
       ELSE \E victims \in kSubset(KillCount(Cardinality(pods), percent), pods) :
               podKill' = [state |-> "killing", percent |-> percent, listed |-> pods,
                           victims |-> victims]
    /\ UNCHANGED <<pods, killed, deleted, report, samples>>

(* What becomes of the call that deletes one pod. *)
Outcome == {"answered", "refused", "unanswered"}

(* A pod that has ended meanwhile, or may not be deleted, is passed over.  So is
   one whose deletion the cluster has accepted, if the answer never arrives. *)
DeletePod(p, outcome) ==
    /\ podKill.state = "killing" /\ p \in podKill.victims
    /\ podKill' = [podKill EXCEPT !.victims = @ \ {p}]
    /\ LET gone == IF outcome # "refused" /\ p \in pods THEN {p} ELSE {}
       IN  /\ pods' = pods \ gone
           /\ deleted' = deleted \cup gone
           /\ killed' = IF outcome = "answered" THEN killed \cup gone ELSE killed
    /\ UNCHANGED <<report, samples>>

(* Mutant: a kill is injected however many deletions were refused. *)
ReportKill_Always ==
    /\ podKill.state = "killing" /\ podKill.victims = {}
    /\ podKill' = [podKill EXCEPT !.state = "injected"]
    /\ UNCHANGED <<pods, killed, deleted, report, samples>>

ReportKill ==
    /\ podKill.state = "killing" /\ podKill.victims = {}
    /\ podKill' = [podKill EXCEPT !.state = IF killed = {} THEN "failed" ELSE "injected"]
    /\ UNCHANGED <<pods, killed, deleted, report, samples>>

(* No pod comes back by it. *)
RevertKill ==
    /\ podKill.state \in {"injected", "failed"}
    /\ podKill' = [podKill EXCEPT !.state = "reverted"]
    /\ UNCHANGED <<pods, killed, deleted, report, samples>>

(* The cluster: a pod ends, a pod is started again. *)
Cluster(p) ==
    /\ pods' = IF p \in pods THEN pods \ {p} ELSE pods \cup {p}
    /\ UNCHANGED <<podKill, killed, deleted, report, samples>>

-----------------------------------------------------------------------------
Start(replicas) == IF samples = {} THEN replicas ELSE report.start

(* A poll that is refused leaves no sample. *)
Poll(replicas) ==
    /\ report.verdict = "none"
    /\ Cardinality(samples) < MaxSamples
    /\ samples' = samples \cup {<<Cardinality(samples) + 1, replicas>>}
    /\ report' = [report EXCEPT !.start = Start(replicas),
                                !.peak = Max({@, replicas}),
                                !.scaledUp = @ \/ replicas > Start(replicas)]
    /\ UNCHANGED <<pods, podKill, killed, deleted>>

EndMonitor ==
    /\ report.verdict = "none"
    /\ report' = [report EXCEPT !.verdict = IF samples = {} THEN "error"
                                            ELSE IF report.scaledUp THEN "scaled" ELSE "never"]
    /\ UNCHANGED <<pods, podKill, killed, deleted, samples>>

PodNext ==
    \/ \E percent \in KillPercents, allowed \in BOOLEAN : ListPods(percent, allowed)
    \/ \E p \in Pods, outcome \in Outcome : DeletePod(p, outcome)
    \/ \E p \in Pods : Cluster(p)
    \/ ReportKill \/ RevertKill
    \/ \E replicas \in 1..MaxReplicas : Poll(replicas)
    \/ EndMonitor

PodSpec == PodInit /\ [][PodNext]_podVars

-----------------------------------------------------------------------------
PodTypeOK ==
    /\ pods \subseteq Pods /\ killed \subseteq Pods /\ deleted \subseteq Pods
    /\ podKill.state \in {"idle", "refused", "killing", "injected", "failed", "reverted"}
    /\ podKill.listed \subseteq Pods /\ podKill.victims \subseteq podKill.listed
    /\ report.start \in Nat /\ report.peak \in Nat

(* A kill takes no pod but those it listed, and no more of them than the share
   asked for rounded up, however many of its calls are refused or never
   answered and however many pods end by themselves meanwhile.  The pods it
   says it killed are gone, by it; a kill is reported as injected only if some
   are, and as failed only if no deletion was answered: pods may be gone then. *)
KillIsBounded ==
    /\ killed \subseteq deleted /\ deleted \subseteq podKill.listed
    /\ deleted # {} =>
          100 * (Cardinality(deleted) - 1) < Cardinality(podKill.listed) * Asked(podKill.percent)
    /\ podKill.state = "injected" => killed # {}
    /\ podKill.state = "failed" => killed = {}

(* The verdict on the autoscaler: it has scaled up exactly if some poll saw
   more replicas than the first poll that was answered. *)
ScalingIsSeen ==
    report.scaledUp <=> \E s, first \in samples : first[1] = 1 /\ s[2] > first[2]

(* What the two reports of an experiment on Kubernetes say is what happened. *)
KubernetesIsReported == KillIsBounded /\ ScalingIsSeen
=============================================================================
