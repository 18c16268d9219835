--------------------------- MODULE MCRunLifecycle ---------------------------
(***************************************************************************)
(* Small instances of RunLifecycle.  "prod" is held for approval and has a *)
(* chaos plan, "dev" is not and has one; the two plans share a fault ID in *)
(* some instances.                                                         *)
(***************************************************************************)
EXTENDS RunLifecycle

SameFault == [r \in Runs |-> "net"]
OwnFaults == [r \in Runs |-> r]
=============================================================================
