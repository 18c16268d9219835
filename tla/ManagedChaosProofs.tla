-------------------------- MODULE ManagedChaosProofs --------------------------
(***************************************************************************)
(* TLAPS proofs about ManagedChaos, for every set of faults, contexts and  *)
(* interfaces and every disturbance.                                       *)
(***************************************************************************)
EXTENDS ManagedChaos, TLAPS

(* Whatever Revert finds, the status does not say "injected" afterwards, and
   all it touches keeps its type. *)
LEMMA RevertEffect ==
    ASSUME TypeOK, Revert
    PROVE  /\ state' \in {"idle", "reverted", "failed"}
           /\ watchdogTimer' = NoTimer
           /\ currentFault' \in {currentFault, NoFault}
           /\ appliedFault' \in {appliedFault, NoFault}
           /\ qdisc' \in [Interfaces -> Faults \cup {NoFault}]
<1> USE DEF TypeOK
<1>1. CASE RevertNothing
  BY <1>1 DEF RevertNothing, kernel
<1>2. CASE RevertSucceeds
  BY <1>2 DEF RevertSucceeds, NetemReverts, NetemForgets, SetQdisc
<1>3. CASE RevertFails
  BY <1>3 DEF RevertFails, NetemRevertFails, kernel
<1> QED
  BY <1>1, <1>2, <1>3 DEF Revert

LEMMA InitTypeOK == Init => TypeOK
<1> SUFFICES ASSUME Init PROVE TypeOK
  OBVIOUS
<1>1. 0 \in 0..MaxApplies /\ 1 \in 1..MaxLaunches
  BY ChaosConstants DEF ChaosConstants
<1>2. qdisc \in [Interfaces -> Faults \cup {NoFault}]
  BY DEF Init
<1> QED
  BY <1>1, <1>2 DEF Init, TypeOK, NoTimer

(* Every variable keeps its type. *)
THEOREM TypeCorrect == Spec => []TypeOK
<1>1. TypeOK /\ [Next]_vars => TypeOK'
  <2> SUFFICES ASSUME TypeOK, [Next]_vars PROVE TypeOK'
    OBVIOUS
  <2> USE ChaosConstants DEF ChaosConstants
  <2>1. CASE Apply
    <3>1. PICK ctx \in Contexts, f \in Faults : ApplySucceeds(ctx, f) \/ ApplyFails(ctx, f)
      BY <2>1 DEF Apply
    <3>2. CASE ApplySucceeds(ctx, f)
      <4>1. qdisc' \in [Interfaces -> Faults \cup {NoFault}]
        BY <3>2 DEF ApplySucceeds, NetemApplies, SetQdisc, TypeOK
      <4>2. applies' \in 1..MaxApplies /\ watchdogTimer' = applies'
        BY <3>2 DEF ApplySucceeds, ArmWatchdog, TypeOK
      <4>3. monitors' \subseteq Monitor
        BY <3>2, <4>2 DEF ApplySucceeds, WatchContext, Monitor, TypeOK
      <4> QED
        BY <3>2, <4>1, <4>2, <4>3 DEF ApplySucceeds, NetemApplies, TypeOK, signals
    <3>3. CASE ApplyFails(ctx, f)
      <4>1. qdisc' \in [Interfaces -> Faults \cup {NoFault}]
        BY <3>3 DEF ApplyFails, NetemApplyFails, FailedQdisc, SetQdisc, TypeOK
      <4> QED
        BY <3>3, <4>1 DEF ApplyFails, NetemApplyFails, TypeOK, signals, NoTimer
    <3> QED
      BY <3>1, <3>2, <3>3
  <2>2. CASE CallerReverts
    BY <2>2, RevertEffect DEF CallerReverts, TypeOK, signals, NoTimer
  <2>3. CASE WatchdogExpires
    BY <2>3 DEF WatchdogExpires, TypeOK, managed, signals, kernel, NoTimer
  <2>4. ASSUME NEW n \in expired, WatchdogReverts(n) PROVE TypeOK'
    BY <2>4, RevertEffect DEF WatchdogReverts, TypeOK, signals, NoTimer
  <2>5. ASSUME NEW ctx \in Contexts, CancelContext(ctx) PROVE TypeOK'
    BY <2>5 DEF CancelContext, TypeOK, managed, signals, kernel
  <2>6. ASSUME NEW m \in monitors, MonitorChecks(m) PROVE TypeOK'
    <3>1. [m EXCEPT !.stage = "reverting"] \in Monitor
      BY DEF TypeOK, Monitor
    <3> QED
      BY <2>6, <3>1 DEF MonitorChecks, TypeOK, managed, signals, kernel
  <2>7. ASSUME NEW m \in monitors, MonitorReverts(m) PROVE TypeOK'
    BY <2>7, RevertEffect DEF MonitorReverts, TypeOK, signals, NoTimer
  <2>8. ASSUME NEW m \in monitors, MonitorStops(m) PROVE TypeOK'
    BY <2>8 DEF MonitorStops, TypeOK, managed, signals, kernel
  <2>9. CASE Signal
    BY <2>9 DEF Signal, TypeOK, managed, kernel
  <2>10. CASE TrapReverts
    BY <2>10, RevertEffect DEF TrapReverts, TypeOK, NoTimer
  <2>11. CASE TrapStops
    BY <2>11 DEF TrapStops, TypeOK, managed, kernel
  <2>12. CASE Close
    <3>1. /\ qdisc' \in [Interfaces -> Faults \cup {NoFault}]
          /\ appliedFault' \in {appliedFault, NoFault}
      BY <2>12 DEF Close, NetemReverts, NetemForgets, NetemRevertFails, kernel, SetQdisc, TypeOK
    <3> QED
      BY <2>12, <3>1 DEF Close, TypeOK, NoTimer
  <2>13. CASE Exit \/ Kill
    BY <2>13 DEF Exit, Kill, Stops, TypeOK, managed, signals, kernel
  <2>14. CASE Launch
    <3>1. 0 \in 0..MaxApplies /\ launches' \in 1..MaxLaunches
      BY <2>14 DEF Launch, TypeOK
    <3> QED
      BY <2>14, <3>1 DEF Launch, TypeOK, NoTimer
  <2>15. CASE UNCHANGED vars
    BY <2>15 DEF TypeOK, vars, managed, signals, kernel
  <2> QED
    BY <2>1, <2>2, <2>3, <2>4, <2>5, <2>6, <2>7, <2>8, <2>9, <2>10, <2>11, <2>12,
       <2>13, <2>14, <2>15 DEF Next
<1> QED
  BY InitTypeOK, <1>1, PTL DEF Spec

-----------------------------------------------------------------------------
(* What MonitorChecks relies on: no goroutine belongs to an Apply to come,
   and the one of the latest Apply recognises the fault in force. *)
MonitorsKnow ==
    \A m \in monitors :
        /\ m.apply <= applies
        /\ state = "injected" /\ m.apply = applies => IsCurrent(m)

GuardInv == TypeOK /\ InjectedIsGuarded /\ MonitorsKnow

LEMMA GuardInvStep == GuardInv /\ [Next]_vars /\ TypeOK' => GuardInv'
<1> SUFFICES ASSUME GuardInv, [Next]_vars, TypeOK' PROVE InjectedIsGuarded' /\ MonitorsKnow'
  BY DEF GuardInv
<1> USE DEF GuardInv
<1>1. ASSUME NEW ctx \in Contexts, NEW f \in Faults, ApplySucceeds(ctx, f)
      PROVE  InjectedIsGuarded' /\ MonitorsKnow'
  <2> DEFINE new == [apply |-> applies', ctx |-> ctx, id |-> IdOf[f], stage |-> "watching"]
  <2>1. /\ applies' = applies + 1 /\ watchdogTimer' = applies' /\ applies \in Nat
        /\ currentFault' = f /\ f # NoFault /\ state' = "injected"
        /\ monitors' = monitors \cup {new}
    BY <1>1, ChaosConstants DEF ChaosConstants, ApplySucceeds, ArmWatchdog, WatchContext, TypeOK
  <2>0. watchdogTimer' \in {applies'} \ {NoTimer}
    BY <2>1 DEF NoTimer
  <2>2. new.apply = applies' /\ new.id = IdOf[f] /\ new \in monitors'
    BY <2>1
  <2>3. InjectedIsGuarded'
    BY <2>0, <2>1, <2>2 DEF InjectedIsGuarded, WatchdogGuards, MonitorGuards
  <2>4. ASSUME NEW m \in monitors'
        PROVE  m.apply <= applies' /\ (m.apply = applies' => IsCurrent(m)')
    <3>1. CASE m \in monitors
      <4>1. m.apply \in Nat /\ m.apply <= applies
        BY <3>1 DEF MonitorsKnow, TypeOK, Monitor
      <4> QED
        BY <4>1, <2>1
    <3>2. CASE m = new
      BY <3>2, <2>1, <2>2 DEF IsCurrent
    <3> QED
      BY <2>1, <3>1, <3>2
  <2> QED
    BY <2>3, <2>4 DEF MonitorsKnow
<1>2. ASSUME monitors' \subseteq monitors, applies' = applies, state' # "injected"
      PROVE  InjectedIsGuarded' /\ MonitorsKnow'
  BY <1>2 DEF InjectedIsGuarded, MonitorsKnow
<1>3. ASSUME NEW ctx \in Contexts, NEW f \in Faults, ApplyFails(ctx, f)
      PROVE  InjectedIsGuarded' /\ MonitorsKnow'
  BY <1>2, <1>3 DEF ApplyFails
<1>4. CASE CallerReverts
  BY <1>2, <1>4, RevertEffect DEF CallerReverts
<1>5. CASE WatchdogExpires
  BY <1>5 DEF WatchdogExpires, managed, signals, InjectedIsGuarded, WatchdogGuards,
              MonitorGuards, MonitorsKnow, IsCurrent
<1>6. ASSUME NEW n \in expired, WatchdogReverts(n) PROVE InjectedIsGuarded' /\ MonitorsKnow'
  BY <1>2, <1>6, RevertEffect DEF WatchdogReverts
<1>7. ASSUME NEW ctx \in Contexts, CancelContext(ctx) PROVE InjectedIsGuarded' /\ MonitorsKnow'
  BY <1>7 DEF CancelContext, managed, signals, InjectedIsGuarded, WatchdogGuards,
              MonitorGuards, MonitorsKnow, IsCurrent
<1>8. ASSUME NEW m \in monitors, MonitorChecks(m) PROVE InjectedIsGuarded' /\ MonitorsKnow'
  <2> DEFINE moved == [m EXCEPT !.stage = "reverting"]
  <2>1. /\ UNCHANGED <<state, currentFault, watchdogTimer, expired, closed, applies>>
        /\ monitors' \subseteq (monitors \ {m}) \cup {moved}
        /\ monitors \ {m} \subseteq monitors'
        /\ IsCurrent(m) => moved \in monitors'
    BY <1>8 DEF MonitorChecks, managed, signals
  <2>2. moved.apply = m.apply /\ moved.id = m.id
    BY DEF TypeOK, Monitor
  <2>3. IsCurrent(moved)' <=> IsCurrent(m)
    BY <2>1, <2>2 DEF IsCurrent
  <2>4. \A x \in monitors \ {m} : IsCurrent(x)' <=> IsCurrent(x)
    BY <2>1 DEF IsCurrent
  <2>5. MonitorsKnow'
    BY <2>1, <2>2, <2>3, <2>4 DEF MonitorsKnow
  <2>6. InjectedIsGuarded'
    <3> SUFFICES ASSUME state = "injected", ~closed PROVE WatchdogGuards' /\ MonitorGuards'
      BY <2>1 DEF InjectedIsGuarded
    <3>1. PICK x \in monitors : x.apply = applies
      BY DEF InjectedIsGuarded, MonitorGuards
    <3>2. IsCurrent(x)
      BY <3>1 DEF MonitorsKnow
    <3>3. \E y \in monitors' : y.apply = applies
      BY <2>1, <2>2, <3>1, <3>2
    <3> QED
      BY <2>1, <3>3 DEF InjectedIsGuarded, WatchdogGuards, MonitorGuards
  <2> QED
    BY <2>5, <2>6
<1>9. ASSUME NEW m \in monitors, MonitorReverts(m) PROVE InjectedIsGuarded' /\ MonitorsKnow'
  BY <1>2, <1>9, RevertEffect DEF MonitorReverts
<1>10. ASSUME NEW m \in monitors, MonitorStops(m) PROVE InjectedIsGuarded' /\ MonitorsKnow'
  BY <1>10 DEF MonitorStops, managed, signals, InjectedIsGuarded, MonitorsKnow, IsCurrent
<1>11. CASE Signal
  BY <1>11 DEF Signal, managed, InjectedIsGuarded, WatchdogGuards, MonitorGuards,
               MonitorsKnow, IsCurrent
<1>12. CASE TrapReverts
  BY <1>2, <1>12, RevertEffect DEF TrapReverts
<1>13. CASE TrapStops
  BY <1>13 DEF TrapStops, managed, InjectedIsGuarded, WatchdogGuards, MonitorGuards,
               MonitorsKnow, IsCurrent
<1>14. CASE Close
  BY <1>14 DEF Close, InjectedIsGuarded, MonitorsKnow, IsCurrent
<1>15. CASE Exit \/ Kill
  BY <1>15 DEF Exit, Kill, Stops, managed, signals, InjectedIsGuarded, WatchdogGuards,
               MonitorGuards, MonitorsKnow, IsCurrent
<1>16. CASE Launch
  BY <1>16 DEF Launch, InjectedIsGuarded, MonitorsKnow
<1>17. CASE UNCHANGED vars
  BY <1>17 DEF vars, managed, signals, InjectedIsGuarded, WatchdogGuards, MonitorGuards,
               MonitorsKnow, IsCurrent
<1> QED
  BY <1>1, <1>3, <1>4, <1>5, <1>6, <1>7, <1>8, <1>9, <1>10, <1>11, <1>12, <1>13, <1>14,
     <1>15, <1>16, <1>17 DEF Next, Apply

(* Until Close, an "injected" fault always has a watchdog and a context
   monitor of its own, through every interleaving of timers, goroutines,
   failures, signals and restarts. *)
THEOREM InjectedGuarded == Spec => []InjectedIsGuarded
<1>1. Init => GuardInv
  BY InitTypeOK DEF Init, GuardInv, InjectedIsGuarded, MonitorsKnow
<1>2. GuardInv /\ [Next]_vars /\ TypeOK' => GuardInv'
  BY GuardInvStep
<1>3. GuardInv => InjectedIsGuarded
  BY DEF GuardInv
<1> QED
  BY <1>1, <1>2, <1>3, TypeCorrect, PTL DEF Spec

-----------------------------------------------------------------------------
(* Until Close, an "injected" status names the fault that really sits at the
   root of its interface and that netem will remove. *)
THEOREM InjectedInstalled == Spec => []InjectedIsInstalled
<1> DEFINE Inv == TypeOK /\ InjectedIsInstalled
<1>1. Init => Inv
  BY InitTypeOK DEF Init, InjectedIsInstalled
<1>2. Inv /\ [Next]_vars /\ TypeOK' => Inv'
  <2> SUFFICES ASSUME TypeOK, InjectedIsInstalled, [Next]_vars, TypeOK'
               PROVE  InjectedIsInstalled'
    OBVIOUS
  <2>1. ASSUME NEW ctx \in Contexts, NEW f \in Faults, ApplySucceeds(ctx, f)
        PROVE  InjectedIsInstalled'
    BY <2>1 DEF ApplySucceeds, NetemApplies, SetQdisc, InjectedIsInstalled, TypeOK
  <2>2. ASSUME state' # "injected" PROVE InjectedIsInstalled'
    BY <2>2 DEF InjectedIsInstalled
  <2>3. ASSUME UNCHANGED <<state, currentFault, closed, kernel>> PROVE InjectedIsInstalled'
    BY <2>3 DEF kernel, InjectedIsInstalled
  <2>4. ASSUME NEW ctx \in Contexts, NEW f \in Faults, ApplyFails(ctx, f)
        PROVE  InjectedIsInstalled'
    BY <2>2, <2>4 DEF ApplyFails
  <2>5. ASSUME Revert PROVE InjectedIsInstalled'
    BY <2>2, <2>5, RevertEffect
  <2>6. CASE CallerReverts \/ TrapReverts
    BY <2>5, <2>6 DEF CallerReverts, TrapReverts
  <2>7. ASSUME NEW n \in expired, WatchdogReverts(n) PROVE InjectedIsInstalled'
    BY <2>5, <2>7 DEF WatchdogReverts
  <2>8. CASE WatchdogExpires \/ Signal \/ TrapStops \/ Exit \/ Kill
    BY <2>3, <2>8 DEF WatchdogExpires, Signal, TrapStops, Exit, Kill, Stops, managed, signals
  <2>9. ASSUME NEW ctx \in Contexts, CancelContext(ctx) PROVE InjectedIsInstalled'
    BY <2>3, <2>9 DEF CancelContext, managed, signals
  <2>10. ASSUME NEW m \in monitors, MonitorReverts(m) PROVE InjectedIsInstalled'
    BY <2>5, <2>10 DEF MonitorReverts
  <2>11. ASSUME NEW m \in monitors, MonitorChecks(m) \/ MonitorStops(m)
         PROVE  InjectedIsInstalled'
    BY <2>3, <2>11 DEF MonitorChecks, MonitorStops, managed, signals
  <2>12. CASE Close
    BY <2>12 DEF Close, InjectedIsInstalled
  <2>13. CASE Launch
    BY <2>2, <2>13 DEF Launch
  <2>14. CASE UNCHANGED vars
    BY <2>3, <2>14 DEF vars, managed, signals
  <2> QED
    BY <2>1, <2>4, <2>6, <2>7, <2>8, <2>9, <2>10, <2>11, <2>12, <2>13, <2>14 DEF Next, Apply
<1> QED
  BY <1>1, <1>2, TypeCorrect, PTL DEF Spec

-----------------------------------------------------------------------------
(* The hosts on which a reverted fault is really gone: one interface, no
   filtered faults, every link lookup answered, and a single process life. *)
PlainHost ==
    /\ Filtered = {}
    /\ "link_error" \notin Disturbances
    /\ MaxLaunches = 1
    /\ \E i : Interfaces = {i}

(* What makes Revert complete on such a host: netem remembers whatever is at
   the root, and remembers nothing once the status says so. *)
Remembered == \A i \in Interfaces : qdisc[i] # NoFault =>
                  appliedFault # NoFault /\ InterfaceOf[appliedFault] = i

CleanInv ==
    /\ Remembered
    /\ state \in {"idle", "reverted"} => appliedFault = NoFault

LEMMA PlainRevert ==
    ASSUME PlainHost, TypeOK, CleanInv, Revert
    PROVE  /\ CleanInv'
           /\ state \in {"injected", "failed"} /\ "kernel_error" \notin Disturbances =>
                  \A i \in Interfaces : qdisc'[i] = NoFault
           /\ \A i \in Interfaces : qdisc'[i] \in {qdisc[i], NoFault}
<1>1. CASE RevertNothing
  BY <1>1 DEF RevertNothing, kernel, CleanInv, Remembered
<1>2. CASE RevertSucceeds
  <2>1. NetemReverts
    BY <1>2 DEF RevertSucceeds, PlainHost, NetemForgets
  <2>2. \A i \in Interfaces : qdisc'[i] = NoFault
    BY <2>1 DEF NetemReverts, SetQdisc, TypeOK, CleanInv, Remembered
  <2> QED
    BY <1>2, <2>1, <2>2 DEF RevertSucceeds, NetemReverts, CleanInv, Remembered
<1>3. CASE RevertFails
  BY <1>3 DEF RevertFails, NetemRevertFails, kernel, CleanInv, Remembered
<1> QED
  BY <1>1, <1>2, <1>3 DEF Revert

LEMMA PlainStep ==
    ASSUME PlainHost, TypeOK, CleanInv, [Next]_vars
    PROVE  CleanInv'
<1>1. ASSUME NEW ctx \in Contexts, NEW f \in Faults, ApplySucceeds(ctx, f) PROVE CleanInv'
  <2>1. \A i \in Interfaces : i = InterfaceOf[f]
    BY <1>1 DEF ApplySucceeds, NetemApplies, PlainHost
  <2> QED
    BY <1>1, <2>1, ChaosConstants
    DEF ChaosConstants, ApplySucceeds, NetemApplies, SetQdisc, TypeOK, CleanInv, Remembered
<1>2. ASSUME NEW ctx \in Contexts, NEW f \in Faults, ApplyFails(ctx, f) PROVE CleanInv'
  <2>1. \A i \in Interfaces : qdisc'[i] \in {qdisc[i], NoFault}
    BY <1>2 DEF ApplyFails, NetemApplyFails, FailedQdisc, SetQdisc, TypeOK, PlainHost
  <2> QED
    BY <1>2, <2>1 DEF ApplyFails, NetemApplyFails, CleanInv, Remembered
<1>3. CASE CallerReverts \/ TrapReverts
  BY <1>3, PlainRevert DEF CallerReverts, TrapReverts
<1>4. ASSUME NEW n \in expired, WatchdogReverts(n) PROVE CleanInv'
  BY <1>4, PlainRevert DEF WatchdogReverts
<1>5. ASSUME NEW m \in monitors, MonitorReverts(m) PROVE CleanInv'
  BY <1>5, PlainRevert DEF MonitorReverts
<1>6. ASSUME UNCHANGED <<state, kernel>> PROVE CleanInv'
  BY <1>6 DEF kernel, CleanInv, Remembered
<1>7. CASE WatchdogExpires \/ Signal \/ TrapStops \/ Exit \/ Kill
  BY <1>6, <1>7 DEF WatchdogExpires, Signal, TrapStops, Exit, Kill, Stops, managed
<1>8. ASSUME NEW ctx \in Contexts, CancelContext(ctx) PROVE CleanInv'
  BY <1>6, <1>8 DEF CancelContext, managed
<1>9. ASSUME NEW m \in monitors, MonitorChecks(m) \/ MonitorStops(m) PROVE CleanInv'
  BY <1>6, <1>9 DEF MonitorChecks, MonitorStops, managed
<1>10. CASE Close
  BY <1>10 DEF Close, NetemReverts, NetemForgets, NetemRevertFails, SetQdisc, kernel,
               PlainHost, TypeOK, CleanInv, Remembered
<1>11. CASE Launch
  BY <1>11 DEF Launch, PlainHost, TypeOK
<1>12. CASE UNCHANGED vars
  BY <1>6, <1>12 DEF vars, managed
<1> QED
  BY <1>1, <1>2, <1>3, <1>4, <1>5, <1>7, <1>8, <1>9, <1>10, <1>11, <1>12 DEF Next, Apply

LEMMA PlainInit == Init => CleanInv
  BY DEF Init, CleanInv, Remembered

(* On a plain host no fault is left in the kernel once the status says that
   there is nothing to revert, whatever the kernel refused before. *)
THEOREM RevertedClean == PlainHost => (Spec => []RevertedIsClean)
<1> SUFFICES ASSUME PlainHost PROVE Spec => []RevertedIsClean
  OBVIOUS
<1>1. TypeOK /\ CleanInv /\ [Next]_vars => CleanInv'
  BY PlainStep
<1>2. CleanInv => RevertedIsClean
  BY DEF CleanInv, Remembered, RevertedIsClean
<1> QED
  BY <1>1, <1>2, PlainInit, TypeCorrect, PTL DEF Spec

-----------------------------------------------------------------------------
(* Refinement.                                                             *)

KnownInterfaces == \A f \in Faults : InterfaceOf[f] \in Interfaces

(* Only a signal opens the way to Close. *)
TrapInv == closed \/ trap # "waiting" => "signal" \in Disturbances

LEMMA TrapStep == TrapInv /\ [Next]_vars => TrapInv'
  BY DEF TrapInv, Next, Apply, ApplySucceeds, ApplyFails, CallerReverts, WatchdogExpires,
         WatchdogReverts, CancelContext, MonitorChecks, MonitorReverts, MonitorStops, Signal,
         TrapReverts, TrapStops, Close, Exit, Kill, Stops, Launch, vars, signals

SwitchStep == [Switch!Next]_(Switch!switch)

(* A Revert withdraws the fault, finds none, or loses its guard. *)
LEMMA RevertRefines ==
    ASSUME PlainHost, TypeOK, CleanInv, Revert, UNCHANGED process
    PROVE  SwitchStep
<1> DEFINE q == qdisc[TheInterface]
<1>1. TheInterface \in Interfaces
  BY DEF PlainHost, TheInterface
<1>2. state' # "injected" /\ Guard' = IF q' = NoFault THEN "off" ELSE "lost"
  BY RevertEffect DEF Guard
<1>3. CASE RevertNothing
  <2>1. UNCHANGED <<q, Guard>>
    BY <1>2, <1>3 DEF RevertNothing, kernel, Guard
  <2> QED
    BY <2>1 DEF SwitchStep, Switch!switch
<1>4. CASE RevertSucceeds
  <2>1. q' = NoFault /\ Guard' = "off"
    BY <1>1, <1>2, <1>4, ChaosConstants DEF ChaosConstants, RevertSucceeds, NetemReverts, NetemForgets, SetQdisc,
                            PlainHost, CleanInv, Remembered, TypeOK
  <2>2. CASE q = NoFault
    BY <2>1, <2>2 DEF SwitchStep, Switch!switch, Guard
  <2>3. CASE q # NoFault
    BY <2>1, <2>3 DEF SwitchStep, Switch!Next, Switch!Withdraw
  <2> QED
    BY <2>2, <2>3
<1>5. CASE RevertFails
  <2>1. q' = q /\ Disturbances # {}
    BY <1>5 DEF RevertFails, NetemRevertFails, kernel
  <2>2. Guard' = Guard \/ (Guard = "armed" /\ Guard' = "lost")
    BY <1>2, <2>1 DEF Guard
  <2> QED
    BY <2>1, <2>2 DEF SwitchStep, Switch!Next, Switch!switch, Switch!LoseGuard
<1> QED
  BY <1>3, <1>4, <1>5 DEF Revert

LEMMA StepRefines ==
    ASSUME PlainHost, KnownInterfaces, TypeOK, CleanInv, TrapInv, [Next]_vars
    PROVE  SwitchStep
<1> DEFINE q == qdisc[TheInterface]
<1>1. TheInterface \in Interfaces /\ \A i \in Interfaces : i = TheInterface
  BY DEF PlainHost, TheInterface
<1>2. ASSUME q' = q, Guard' = Guard PROVE SwitchStep
  BY <1>2 DEF SwitchStep, Switch!switch
<1>3. ASSUME q' = q, Disturbances # {}, Guard' \in {"off", "lost"} PROVE SwitchStep
  <2>1. Guard' = Guard \/ (Guard = "armed" /\ Guard' = "lost")
    BY <1>3 DEF Guard
  <2> QED
    BY <1>3, <2>1 DEF SwitchStep, Switch!Next, Switch!switch, Switch!LoseGuard
<1>4. ASSUME q' = NoFault PROVE SwitchStep
  BY <1>4 DEF SwitchStep, Switch!Next, Switch!switch, Switch!Withdraw, Guard
<1>5. ASSUME NEW ctx \in Contexts, NEW f \in Faults, ApplySucceeds(ctx, f) PROVE SwitchStep
  <2>1. q' = f /\ f # NoFault
    BY <1>1, <1>5, ChaosConstants
    DEF ChaosConstants, ApplySucceeds, NetemApplies, SetQdisc, TypeOK
  <2>2. Guard' = "armed"
    BY <1>5, <2>1 DEF ApplySucceeds, ArmWatchdog, Guard, WatchdogGuards, NoTimer, TypeOK
  <2> QED
    BY <2>1, <2>2 DEF SwitchStep, Switch!Next, Switch!Inject
<1>6. ASSUME NEW ctx \in Contexts, NEW f \in Faults, ApplyFails(ctx, f) PROVE SwitchStep
  <2>1. q' = NoFault \/ (q' = q /\ Disturbances # {})
    BY <1>1, <1>6 DEF ApplyFails, NetemApplyFails, FailedQdisc, SetQdisc, TypeOK, PlainHost,
                      KnownInterfaces
  <2>2. Guard' \in {"off", "lost"}
    BY <1>6 DEF ApplyFails, Guard
  <2> QED
    BY <1>3, <1>4, <2>1, <2>2
<1>7. CASE CallerReverts \/ TrapReverts
  BY <1>7, RevertRefines DEF CallerReverts, TrapReverts
<1>8. CASE WatchdogExpires
  BY <1>2, <1>8 DEF WatchdogExpires, managed, kernel, Guard, WatchdogGuards
<1>9. ASSUME NEW n \in expired, WatchdogReverts(n) PROVE SwitchStep
  BY <1>9, RevertRefines DEF WatchdogReverts
<1>10. ASSUME NEW ctx \in Contexts, CancelContext(ctx) PROVE SwitchStep
  BY <1>2, <1>10 DEF CancelContext, managed, kernel, Guard, WatchdogGuards
<1>11. ASSUME NEW m \in monitors, MonitorChecks(m) \/ MonitorStops(m) PROVE SwitchStep
  BY <1>2, <1>11 DEF MonitorChecks, MonitorStops, managed, kernel, Guard, WatchdogGuards
<1>12. ASSUME NEW m \in monitors, MonitorReverts(m) PROVE SwitchStep
  BY <1>12, RevertRefines DEF MonitorReverts
<1>13. CASE Signal \/ TrapStops
  BY <1>2, <1>13 DEF Signal, TrapStops, managed, kernel, Guard, WatchdogGuards
<1>14. CASE Close
  <2>1. q' = NoFault \/ q' = q
    BY <1>1, <1>14 DEF Close, NetemReverts, NetemForgets, NetemRevertFails, kernel, SetQdisc, TypeOK
  <2>2. Disturbances # {}
    BY <1>14 DEF Close, TrapInv
  <2>3. Guard' = Guard \/ Guard' \in {"off", "lost"}
    BY <1>14, <2>1, <1>1 DEF Close, Guard, WatchdogGuards
  <2>4. CASE q' = q
    BY <1>2, <1>3, <2>2, <2>3, <2>4
  <2> QED
    BY <1>4, <2>1, <2>4
<1>15. CASE Exit \/ Kill
  <2>1. Disturbances # {}
    BY <1>15 DEF Exit, Kill, TrapInv
  <2>2. q' = q /\ Guard' \in {"off", "lost"}
    BY <1>15 DEF Exit, Kill, Stops, kernel, Guard
  <2> QED
    BY <1>3, <2>1, <2>2
<1>16. CASE Launch
  BY <1>16 DEF Launch, PlainHost, TypeOK
<1>17. CASE UNCHANGED vars
  BY <1>2, <1>17 DEF vars, managed, kernel, Guard, WatchdogGuards
<1> QED
  BY <1>5, <1>6, <1>7, <1>8, <1>9, <1>10, <1>11, <1>12, <1>13, <1>14, <1>15, <1>16, <1>17
  DEF Next, Apply

(* On a plain host whose faults all name its interface, the driver, the
   kernel and the process implement the dead-man switch: a fault comes into
   force only with its guard, and loses the guard first only when something
   outside the driver goes wrong. *)
THEOREM ImplementsSwitch == PlainHost /\ KnownInterfaces => (Spec => IsDeadManSwitch)
<1> SUFFICES ASSUME PlainHost, KnownInterfaces PROVE Spec => IsDeadManSwitch
  OBVIOUS
<1>1. Init => Switch!Init /\ TrapInv
  BY DEF Init, Switch!Init, Guard, TrapInv, PlainHost, TheInterface
<1>2. TypeOK /\ CleanInv /\ TrapInv /\ [Next]_vars => CleanInv' /\ TrapInv'
  BY PlainStep, TrapStep
<1>3. TypeOK /\ CleanInv /\ TrapInv /\ [Next]_vars => [Switch!Next]_(Switch!switch)
  BY StepRefines DEF SwitchStep
<1> QED
  BY <1>1, <1>2, <1>3, PlainInit, TypeCorrect, PTL DEF Spec, IsDeadManSwitch, Switch!Spec
=============================================================================
