----------------------- MODULE MCBreakingPointSearch -----------------------
(***************************************************************************)
(* A capacity search from 1 to 10 virtual users in eighths of one, which   *)
(* its tolerance ends after two halvings, and a severity search from 0 to  *)
(* 1 in sixteenths, which the limit of three halvings ends.                *)
(***************************************************************************)
EXTENDS BreakingPointSearch

MinOf == [autopilot |-> 8, autofuzz |-> 0]
MaxOf == [autopilot |-> 80, autofuzz |-> 16]
ToleranceOf == [autopilot |-> 20, autofuzz |-> 1]
WidthOf == [k \in Kinds |-> [i \in 0..3 |-> (MaxOf[k] - MinOf[k]) \div 2^i]]

(* Every application that only gets worse, and every one that is healthy on
   some of the pairs of users, or the quarters of the severities. *)
ApplicationsOf ==
    [autopilot |-> {1..n : n \in 0..10}
                   \cup {{x \in 1..10 : (x + 1) \div 2 \in pairs} : pairs \in SUBSET (1..5)},
     autofuzz |-> {0..n : n \in 0..16}
                  \cup {{x \in 0..16 : x \div 5 \in quarters} : quarters \in SUBSET (0..3)}]
=============================================================================
