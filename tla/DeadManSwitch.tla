---------------------------- MODULE DeadManSwitch ----------------------------
(***************************************************************************)
(* What pkg/chaos promises about one network interface, whatever happens   *)
(* inside: a fault enters into force together with a guard that will end   *)
(* it, it is replaced only by another guarded fault, and the guard is      *)
(* lost before the fault is only when the kernel refused to remove the     *)
(* fault or the process is on its way out.                                 *)
(***************************************************************************)
CONSTANTS Faults, NoFault, MayLoseGuard

VARIABLES
    inForce,   \* the fault at the root of the interface, or NoFault
    guard      \* "off", "armed" or "lost"

switch == <<inForce, guard>>

Init == inForce = NoFault /\ guard = "off"

Inject(f) == inForce' = f /\ guard' = "armed"

Withdraw ==
    /\ inForce # NoFault
    /\ inForce' = NoFault /\ guard' = "off"

LoseGuard ==
    /\ MayLoseGuard
    /\ guard = "armed"
    /\ guard' = "lost"
    /\ UNCHANGED inForce

Next == (\E f \in Faults : Inject(f)) \/ Withdraw \/ LoseGuard

Spec == Init /\ [][Next]_switch
=============================================================================
