--------------------------- MODULE MCManagedChaos ---------------------------
(***************************************************************************)
(* Small instances of ManagedChaos.  The wide one has two interfaces, a    *)
(* filtered fault that shares the ID of another, and a fault whose         *)
(* interface does not exist; the narrow one has a single interface and     *)
(* unfiltered faults only.                                                 *)
(***************************************************************************)
EXTENDS ManagedChaos

WideFaults == {"slow", "lossy", "typo"}
WideIds == [slow |-> "slow", lossy |-> "slow", typo |-> "typo"]
WideInterfaces == {"eth0", "eth1"}
WideInterfaceOf == [slow |-> "eth0", lossy |-> "eth1", typo |-> "eth9"]

NarrowFaults == {"slow", "slow2"}
NarrowIds == [f \in NarrowFaults |-> "slow"]
NarrowInterfaceOf == [f \in NarrowFaults |-> "eth0"]

TwoFaults == {"slow", "lossy"}
TwoIds == [f \in TwoFaults |-> f]
TwoInterfaceOf == [slow |-> "eth0", lossy |-> "eth1"]
=============================================================================
