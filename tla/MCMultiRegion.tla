--------------------------- MODULE MCMultiRegion ---------------------------
(***************************************************************************)
(* Two agent IDs in two regions.  The first is shared by two processes in  *)
(* different regions.  The first request goes to all agents with three     *)
(* users, or to the regions one by one, the same one twice, with a ramp    *)
(* that goes up to two.                                                    *)
(***************************************************************************)
EXTENDS MultiRegion

IdOfThree == [a \in Agents |-> IF a = "c" THEN "two" ELSE "one"]
RegionOfThree == [a \in Agents |-> IF a = "a" THEN "west" ELSE "east"]

ThreeUsers == [profile |-> "flat_vu", vus |-> 3, rest |-> 0]
RampToTwo == [profile |-> "ramping", vus |-> 0, rest |-> 2]
WantedOf ==
    [r \in Runs |-> IF r = 1 THEN {[regions |-> <<{"west", "east"}>>, load |-> ThreeUsers],
                                   [regions |-> <<{"west"}, {"east"}, {"east"}>>, load |-> RampToTwo]}
                             ELSE {[regions |-> <<{"west"}>>, load |-> ThreeUsers]}]
=============================================================================
