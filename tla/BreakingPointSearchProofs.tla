--------------------- MODULE BreakingPointSearchProofs ---------------------
(***************************************************************************)
(* What the searches of BreakingPointSearch report is right for every      *)
(* range, tolerance and application, whatever disturbs them.               *)
(***************************************************************************)
EXTENDS BreakingPointSearch, TLAPS

-----------------------------------------------------------------------------
(* Arithmetic                                                              *)

LEMMA Division ==
    ASSUME NEW a \in Nat, NEW b \in Nat \ {0}
    PROVE  a \div b \in Nat /\ b * (a \div b) <= a /\ a < b * (a \div b) + b
  OBVIOUS

LEMMA MultiplyMonotone ==
    ASSUME NEW b \in Nat, NEW p \in Int, NEW q \in Int, p <= q
    PROVE  b * p <= b * q
  OBVIOUS

LEMMA DivisionMonotone ==
    ASSUME NEW a \in Nat, NEW c \in Nat, NEW b \in Nat \ {0}
    PROVE  /\ a <= c => a \div b <= c \div b
           /\ a + b <= c => a \div b < c \div b
  <1> DEFINE p == a \div b
             q == c \div b
  <1>1. p \in Nat /\ b * p <= a /\ a < b * p + b
    BY Division
  <1>2. q \in Nat /\ b * q <= c /\ c < b * q + b
    BY Division
  <1>3. ASSUME a <= c PROVE p <= q
    <2>1. SUFFICES ASSUME q + 1 <= p PROVE FALSE
      BY <1>1, <1>2
    <2>2. b * (q + 1) <= b * p
      BY <2>1, <1>1, <1>2, MultiplyMonotone
    <2>3. b * (q + 1) = b * q + b
      BY <1>2
    <2> QED
      BY <2>2, <2>3, <1>1, <1>2, <1>3
  <1>4. ASSUME a + b <= c PROVE p < q
    <2>1. SUFFICES ASSUME q <= p PROVE FALSE
      BY <1>1, <1>2
    <2>2. b * q <= b * p
      BY <2>1, <1>1, <1>2, MultiplyMonotone
    <2> QED
      BY <2>2, <1>1, <1>2, <1>4
  <1> QED
    BY <1>3, <1>4

LEMMA UnitType == Unit \in Nat \ {0} /\ 2 * Unit \in Nat \ {0} /\ MinVUs \in Nat \ {0}
  BY SearchConstants DEF SearchConstants

(* Rounding to whole virtual users keeps the order, and keeps inputs apart
   that lie a user or more apart. *)
LEMMA RoundingMonotone ==
    ASSUME NEW x \in Nat, NEW y \in Nat
    PROVE  /\ VUs(x) \in Nat
           /\ x <= y => VUs(x) <= VUs(y)
           /\ Unit <= x /\ x + Unit <= y => VUs(x) < VUs(y)
  <1> DEFINE a == 2 * x + Unit
             c == 2 * y + Unit
             b == 2 * Unit
             p == a \div b
             q == c \div b
  <1>1. a \in Nat /\ c \in Nat /\ b \in Nat \ {0}
    BY UnitType
  <1>2. /\ p \in Nat /\ q \in Nat
        /\ a <= c => p <= q
        /\ a + b <= c => p < q
    BY <1>1, Division, DivisionMonotone
  <1>3. VUs(x) = (IF p < 1 THEN 1 ELSE p) /\ VUs(y) = (IF q < 1 THEN 1 ELSE q)
    BY DEF VUs
  <1>4. x <= y => a <= c
    BY UnitType
  <1>5. x + Unit <= y => a + b <= c
    BY UnitType
  <1>6. ASSUME Unit <= x PROVE 1 <= p
    <2>1. a < b * p + b
      BY <1>1, Division
    <2>2. SUFFICES ASSUME p = 0 PROVE FALSE
      BY <1>2
    <2>3. b * p = 0
      BY <2>2, <1>1
    <2>4. a < b
      BY <2>1, <2>3, <1>1
    <2> QED
      BY <2>4, <1>6, UnitType
  <1> HIDE DEF p, q, a, b, c
  <1> QED
    BY <1>2, <1>3, <1>4, <1>5, <1>6

(* The capacity search starts from a whole number of users. *)
LEMMA MinIsWhole == VUs(Min["autopilot"]) = MinVUs
  <1> DEFINE a == 2 * Min["autopilot"] + Unit
             b == 2 * Unit
             p == a \div b
  <1>1. Min["autopilot"] = MinVUs * Unit
    BY SearchConstants DEF SearchConstants
  <1>2. MinVUs * Unit \in Nat
    BY UnitType
  <1>3. a \in Nat /\ b \in Nat \ {0}
    BY <1>1, <1>2, UnitType
  <1>4. p \in Nat /\ b * p <= a /\ a < b * p + b
    BY <1>3, Division
  <1>5. a = b * MinVUs + Unit
    BY <1>1, UnitType
  <1>6. b * MinVUs \in Nat
    BY <1>3, UnitType
  <1>7. p <= MinVUs
    <2>1. SUFFICES ASSUME MinVUs + 1 <= p PROVE FALSE
      BY <1>4, UnitType
    <2>2. b * (MinVUs + 1) <= b * p
      BY <2>1, <1>3, <1>4, UnitType, MultiplyMonotone
    <2>3. b * (MinVUs + 1) = b * MinVUs + b
      BY <1>3, UnitType
    <2> QED
      BY <2>2, <2>3, <1>4, <1>5, <1>6, UnitType
  <1>8. MinVUs <= p
    <2>1. SUFFICES ASSUME p + 1 <= MinVUs PROVE FALSE
      BY <1>4, UnitType
    <2>2. b * (p + 1) <= b * MinVUs
      BY <2>1, <1>3, <1>4, UnitType, MultiplyMonotone
    <2>3. b * (p + 1) = b * p + b
      BY <1>3, <1>4
    <2> QED
      BY <2>2, <2>3, <1>4, <1>5, <1>6, UnitType
  <1>9. p = MinVUs
    BY <1>7, <1>8, <1>4, UnitType
  <1>10. VUs(Min["autopilot"]) = IF p < 1 THEN 1 ELSE p
    BY DEF VUs
  <1> HIDE DEF p
  <1> QED
    BY <1>9, <1>10, UnitType

-----------------------------------------------------------------------------
(* The inductive invariant                                                 *)

Edges == phase \in {"max", "min"} => lo = Min[kind] /\ hi = Max[kind] /\ iteration = 0

Range == phase \in Probing => hi = lo + Width[kind][iteration]

Shape ==
    /\ TypeOK /\ Edges /\ Range
    /\ running => MayProbe

(* A fault of a trial that is in force is that of the running one, or one that
   was refused to go; its name is the driver's unless somebody else's Apply has
   failed since, and until it is tried a monitor will. *)
Accounted ==
    inForce = "trial" =>
        /\ kind = "autofuzz"
        /\ running \/ "trial" \in refused
        /\ monitors > 0 \/ "monitor" \in refused \/ "other" \in refused
        /\ current = "trial" \/ "other" \in refused

(* No trial leaves the searched range. *)
Reached ==
    /\ Min[kind] <= lo /\ hi <= Max[kind]
    /\ \A t \in trials : t.x \in Inputs

(* Trials that ran undisturbed tell the truth about the application. *)
Truthful == \A t \in trials : t.intact => t.pass = Healthy(t.x)

Evidence ==
    /\ phase = "min" => Tried(Max[kind], FALSE)
    /\ phase = "loop" => Tried(lo, TRUE) /\ Tried(hi, FALSE)
    /\ ReportIsMeasured
    /\ Truthful

(* The last passing capacity is that of the low end of the range, and the
   range never gets narrower than a user. *)
Capacity ==
    /\ kind = "autopilot" =>
           /\ phase \in {"max", "min"} => lastPassingVUs = MinVUs
           /\ phase = "loop" => lastPassingVUs = VUs(lo)
           /\ phase \in Probing => Unit <= lo /\ lo + Unit <= hi
    /\ SafeBelowBreaking

LEMMA Widths ==
    ASSUME NEW k \in Kinds
    PROVE  /\ Min[k] \in Nat /\ Max[k] \in Nat /\ Tolerance[k] \in Nat \ {0}
           /\ MaxIterations \in Nat \ {0}
           /\ Max[k] = Min[k] + Width[k][0]
           /\ \A i \in 0..MaxIterations : Width[k][i] \in Nat \ {0}
           /\ \A i \in 0..(MaxIterations - 1) : Width[k][i] = 2 * Width[k][i + 1]
  BY SearchConstants DEF SearchConstants

(* What a probe looks at lies in the range; in the loop, in its middle. *)
LEMMA ProbeType ==
    ASSUME Shape, MayProbe
    PROVE  /\ Probe \in Nat
           /\ phase = "max" => Probe = Max[kind]
           /\ phase = "min" => Probe = Min[kind]
           /\ phase = "loop" =>
                  /\ iteration < MaxIterations
                  /\ Width[kind][iteration] = 2 * Width[kind][iteration + 1]
                  /\ Width[kind][iteration + 1] \in Nat \ {0}
                  /\ Probe = lo + Width[kind][iteration + 1]
                  /\ hi = Probe + Width[kind][iteration + 1]
  <1>1. kind \in Kinds /\ lo \in Nat /\ hi \in Nat /\ iteration \in 0..MaxIterations
    BY DEF Shape, TypeOK
  <1>2. /\ Min[kind] \in Nat /\ Max[kind] \in Nat /\ MaxIterations \in Nat
        /\ \A i \in 0..MaxIterations : Width[kind][i] \in Nat \ {0}
        /\ \A i \in 0..(MaxIterations - 1) : Width[kind][i] = 2 * Width[kind][i + 1]
    BY <1>1, Widths
  <1>3. CASE phase = "max"
    BY <1>2, <1>3 DEF Probe
  <1>4. CASE phase = "min"
    BY <1>2, <1>4 DEF Probe
  <1>5. CASE phase = "loop"
    <2> DEFINE w == Width[kind][iteration + 1]
    <2>1. iteration < MaxIterations
      BY <1>5 DEF MayProbe, Continues
    <2>2. iteration \in 0..(MaxIterations - 1) /\ iteration + 1 \in 0..MaxIterations
      BY <2>1, <1>1, <1>2
    <2>3. Width[kind][iteration] = 2 * w /\ w \in Nat \ {0}
      BY <2>2, <1>2
    <2>4. hi = lo + 2 * w
      BY <2>3, <1>5 DEF Shape, Range, Probing
    <2>5. Probe = lo + (hi - lo) \div 2
      BY <1>5 DEF Probe
    <2> HIDE DEF w
    <2>6. Probe = lo + w
      BY <2>3, <2>4, <2>5, <1>1
    <2> QED
      BY <2>1, <2>3, <2>4, <2>6, <1>1, <1>5 DEF w
  <1> QED
    BY <1>3, <1>4, <1>5 DEF MayProbe

-----------------------------------------------------------------------------
(* Shape                                                                   *)

LEMMA ShapeInit == Init => Shape
  <1> SUFFICES ASSUME Init PROVE Shape
    OBVIOUS
  <1>1. kind \in Kinds
    BY DEF Init
  <1>2. /\ Min[kind] \in Nat /\ Max[kind] \in Nat /\ MaxIterations \in Nat
        /\ Max[kind] = Min[kind] + Width[kind][0]
        /\ MinVUs \in Nat
        /\ Applications[kind] \in SUBSET SUBSET Nat
    BY <1>1, Widths, SearchConstants DEF SearchConstants
  <1>3. healthy \subseteq Nat
    BY <1>2 DEF Init
  <1>4. report \in [found : BOOLEAN, breaking : Nat, safeVUs : Nat]
    BY DEF Init, NoReport
  <1>5. 0 \in 0..MaxIterations
    BY <1>2
  <1>6. /\ trials \subseteq Trial /\ phase \in Probing \cup {"done", "error"}
        /\ monitors \in Nat
    BY DEF Init, Probing
  <1>7. TypeOK
    BY <1>1, <1>2, <1>3, <1>4, <1>5, <1>6 DEF Init, TypeOK
  <1> QED
    BY <1>2, <1>7 DEF Init, Shape, Edges, Range

(* What every measured trial leaves behind, whatever probe it was for. *)
LEMMA MeasuredType ==
    ASSUME Shape, NEW pass \in BOOLEAN, Measured(pass)
    PROVE  /\ Probe \in Nat /\ MayProbe
           /\ trials' \subseteq Trial
           /\ lastPassingVUs' \in Nat
           /\ running' = FALSE
           /\ inForce' \in {"nobody", "trial", "run"}
          /\ current' \in {"nobody", "trial", "run"}
          /\ monitors' \in Nat
          /\ refused' \subseteq {"trial", "monitor", "other"}
           /\ UNCHANGED <<kind, healthy, intact, cancelled>>
  <1>1. MayProbe
    BY DEF Shape, Measured
  <1>2. Probe \in Nat
    BY <1>1, ProbeType
  <1>3. VUs(Probe) \in Nat
    BY <1>2, RoundingMonotone
  <1>4. [x |-> Probe, pass |-> pass, intact |-> intact] \in Trial
    BY <1>2 DEF Shape, TypeOK, Trial
  <1>5. trials' \subseteq Trial
    BY <1>4 DEF Measured, Shape, TypeOK
  <1>6. lastPassingVUs' \in Nat
    BY <1>3 DEF Measured, Shape, TypeOK
  <1>7. /\ inForce' \in {"nobody", "trial", "run"}
        /\ current' \in {"nobody", "trial", "run"}
        /\ monitors' \in Nat
        /\ refused' \subseteq {"trial", "monitor", "other"}
    <2>1. /\ inForce \in {"nobody", "trial", "run"}
          /\ current \in {"nobody", "trial", "run"}
          /\ monitors \in Nat
          /\ refused \subseteq {"trial", "monitor", "other"}
      BY DEF Shape, TypeOK
    <2>2. RevertTrial
      BY DEF Measured
    <2> QED
      BY <2>1, <2>2 DEF RevertTrial, RevertSucceeds, RevertFails
  <1> QED
    BY <1>1, <1>2, <1>5, <1>6, <1>7 DEF Measured

LEMMA ShapeNext == Shape /\ [Next]_vars => Shape'
  <1> SUFFICES ASSUME Shape, [Next]_vars PROVE Shape'
    OBVIOUS
  <1> USE DEF bisection, driver
  <1>0. /\ kind \in Kinds /\ lo \in Nat /\ hi \in Nat /\ iteration \in 0..MaxIterations
        /\ Min[kind] \in Nat /\ Max[kind] \in Nat /\ MaxIterations \in Nat
        /\ MinVUs \in Nat /\ MaxVUs \in Nat
    BY Widths, SearchConstants DEF Shape, TypeOK, SearchConstants
  <1>1. CASE StartTrial
    <2>1. TypeOK'
      <3>1. monitors' \in Nat
        BY <1>1 DEF StartTrial, Shape, TypeOK
      <3> QED
        BY <1>1, <3>1 DEF StartTrial, Shape, TypeOK
    <2>2. Edges' /\ Range' /\ MayProbe'
      BY <1>1 DEF StartTrial, Shape, Edges, Range, MayProbe, Continues
    <2> QED
      BY <2>1, <2>2, <1>1 DEF StartTrial, Shape
  <1>2. ASSUME NEW pass \in BOOLEAN, MaxProbe(pass) PROVE Shape'
    <2>1. Measured(pass)
      BY <1>2 DEF MaxProbe
    <2>2. Survived \in [found : BOOLEAN, breaking : Nat, safeVUs : Nat]
      BY <1>0 DEF Survived
    <2>3. report' \in [found : BOOLEAN, breaking : Nat, safeVUs : Nat]
      BY <1>2, <2>2 DEF MaxProbe, Shape, TypeOK
    <2>4. phase' \in {"done", "min"} /\ UNCHANGED <<lo, hi, iteration>>
      BY <1>2 DEF MaxProbe
    <2>5. TypeOK'
      BY <2>1, <2>3, <2>4, MeasuredType DEF Shape, TypeOK, Probing
    <2>6. Edges' /\ Range'
      BY <1>2, <2>1, <2>4, MeasuredType DEF MaxProbe, Shape, Edges, Range, Probing
    <2> QED
      BY <2>1, <2>5, <2>6, MeasuredType DEF Shape
  <1>3. ASSUME NEW pass \in BOOLEAN, MinProbe(pass) PROVE Shape'
    <2>1. Measured(pass)
      BY <1>3 DEF MinProbe
    <2>2. Broken(Min[kind]) \in [found : BOOLEAN, breaking : Nat, safeVUs : Nat]
      BY <1>0 DEF Broken, Shape, TypeOK
    <2>3. report' \in [found : BOOLEAN, breaking : Nat, safeVUs : Nat]
      BY <1>3, <2>2 DEF MinProbe, Shape, TypeOK
    <2>4. phase' \in {"done", "loop"} /\ UNCHANGED <<lo, hi, iteration>>
      BY <1>3 DEF MinProbe
    <2>5. TypeOK'
      BY <2>1, <2>3, <2>4, MeasuredType DEF Shape, TypeOK, Probing
    <2>6. Edges' /\ Range'
      BY <1>3, <2>1, <2>4, MeasuredType DEF MinProbe, Shape, Edges, Range, Probing
    <2> QED
      BY <2>1, <2>5, <2>6, MeasuredType DEF Shape
  <1>4. ASSUME NEW pass \in BOOLEAN, Halve(pass) PROVE Shape'
    <2>1. Measured(pass) /\ phase = "loop" /\ phase' = "loop"
      BY <1>4 DEF Halve
    <2> DEFINE w == Width[kind][iteration + 1]
    <2>2. /\ iteration < MaxIterations /\ w \in Nat \ {0}
          /\ Probe \in Nat /\ Probe = lo + w /\ hi = Probe + w
      BY <2>1, MeasuredType, ProbeType
    <2>3. iteration' = iteration + 1 /\ iteration' \in 0..MaxIterations
      BY <1>4, <2>2, <1>0 DEF Halve
    <2>4. Width'[kind'][iteration'] = w
      BY <2>1, <2>3, MeasuredType
    <2>5. lo' \in Nat /\ hi' \in Nat /\ hi' = lo' + w
      BY <1>4, <2>2, <1>0 DEF Halve
    <2>6. TypeOK'
      BY <1>4, <2>1, <2>3, <2>5, MeasuredType DEF Halve, Shape, TypeOK
    <2>7. Edges' /\ Range'
      BY <2>1, <2>4, <2>5 DEF Edges, Range
    <2> QED
      BY <2>1, <2>6, <2>7, MeasuredType DEF Shape
  <1>5. CASE Conclude
    <2>1. Broken(hi) \in [found : BOOLEAN, breaking : Nat, safeVUs : Nat]
      BY <1>0 DEF Broken, Shape, TypeOK
    <2>2. TypeOK'
      BY <1>5, <2>1 DEF Conclude, Shape, TypeOK
    <2>3. Edges' /\ Range' /\ ~running
      BY <1>5 DEF Conclude, Shape, Edges, Range, Probing, MayProbe
    <2> QED
      BY <1>5, <2>2, <2>3 DEF Conclude, Shape
  <1>6. CASE Cancelled
    <2>1. TypeOK' /\ Edges' /\ Range'
      BY <1>6 DEF Cancelled, Shape, TypeOK, Edges, Range, Probing
    <2> QED
      BY <1>6, <2>1 DEF Cancelled, Shape
  <1>7. CASE TrialRefused
    <2>1. TypeOK' /\ Edges' /\ Range'
      BY <1>7 DEF TrialRefused, ApplyFails, Shape, TypeOK, Edges, Range, Probing
    <2> QED
      BY <1>7, <2>1 DEF TrialRefused, Shape
  <1>8. CASE CancelRequest
    <2>1. TypeOK'
      BY <1>8 DEF CancelRequest, Shape, TypeOK
    <2> QED
      BY <1>8, <2>1 DEF CancelRequest, Shape, Edges, Range, MayProbe, Continues
  <1>9. CASE OthersRevert
    <2>1. TypeOK'
      BY <1>9 DEF OthersRevert, RevertSucceeds, RevertFails, Touch, Shape, TypeOK
    <2> QED
      BY <1>9, <2>1 DEF OthersRevert, Touch, Shape, Edges, Range, MayProbe, Continues
  <1>11. CASE OthersApply
    <2>1. TypeOK'
      BY <1>11 DEF OthersApply, ApplyFails, Touch, Shape, TypeOK
    <2> QED
      BY <1>11, <2>1 DEF OthersApply, Touch, Shape, Edges, Range, MayProbe, Continues
  <1>12. CASE MonitorFires
    <2>1. monitors \in Nat /\ monitors > 0 /\ monitors' = monitors - 1
      BY <1>12 DEF MonitorFires, Shape, TypeOK
    <2>2. /\ inForce' \in {"nobody", "trial", "run"}
          /\ current' \in {"nobody", "trial", "run"}
          /\ refused' \subseteq {"trial", "monitor", "other"}
      <3>1. CASE current = "trial"
        BY <1>12, <3>1 DEF MonitorFires, RevertSucceeds, RevertFails, Shape, TypeOK
      <3>2. CASE current # "trial"
        BY <1>12, <3>2 DEF MonitorFires, Shape, TypeOK
      <3> QED
        BY <3>1, <3>2
    <2>3. TypeOK'
      BY <1>12, <2>1, <2>2 DEF MonitorFires, Shape, TypeOK
    <2> QED
      BY <1>12, <2>3 DEF MonitorFires, Shape, Edges, Range, MayProbe, Continues
  <1>10. CASE UNCHANGED vars
    BY <1>10 DEF vars, Shape, TypeOK, Edges, Range, MayProbe, Continues
  <1> QED
    BY <1>1, <1>2, <1>3, <1>4, <1>5, <1>6, <1>7, <1>8, <1>9, <1>10,
       <1>11, <1>12
       DEF Next, Search

LEMMA AccountedNext == Shape /\ Accounted /\ [Next]_vars => Accounted'
  <1> SUFFICES ASSUME Shape, Accounted, [Next]_vars PROVE Accounted'
    OBVIOUS
  <1> USE DEF bisection, driver
  <1>0. monitors \in Nat
    BY DEF Shape, TypeOK
  <1>1. CASE StartTrial
    <2>1. CASE kind = "autofuzz"
      BY <1>0, <1>1, <2>1 DEF StartTrial, Accounted
    <2>2. CASE kind # "autofuzz"
      BY <1>1, <2>2 DEF StartTrial, Accounted
    <2> QED
      BY <2>1, <2>2
  <1>2. ASSUME NEW pass \in BOOLEAN, Measured(pass) PROVE Accounted'
    <2>1. RevertTrial /\ UNCHANGED <<kind, monitors>>
      BY <1>2 DEF Measured, RevertTrial
    <2>2. CASE kind # "autofuzz"
      BY <2>1, <2>2 DEF RevertTrial, Accounted
    <2>3. CASE kind = "autofuzz"
      BY <2>1, <2>3 DEF RevertTrial, RevertSucceeds, RevertFails, Accounted
    <2> QED
      BY <2>2, <2>3
  <1>3. CASE Conclude \/ Cancelled \/ CancelRequest \/ UNCHANGED vars
    <2>1. UNCHANGED <<kind, driver>> /\ (running' = running)
      BY <1>3 DEF Conclude, Cancelled, CancelRequest, vars
    <2> QED
      BY <2>1 DEF Accounted
  <1>4. CASE TrialRefused
    BY <1>4 DEF TrialRefused, ApplyFails, Accounted
  <1>5. CASE OthersRevert
    BY <1>5 DEF OthersRevert, RevertSucceeds, RevertFails, Touch, Accounted
  <1>6. CASE OthersApply
    BY <1>6 DEF OthersApply, ApplyFails, Touch, Accounted
  <1>7. CASE MonitorFires
    <2>1. CASE current = "trial"
      BY <1>7, <2>1 DEF MonitorFires, RevertSucceeds, RevertFails, Accounted
    <2>2. CASE current # "trial"
      BY <1>7, <2>2 DEF MonitorFires, Accounted
    <2> QED
      BY <2>1, <2>2
  <1> QED
    BY <1>1, <1>2, <1>3, <1>4, <1>5, <1>6, <1>7
       DEF Next, Search, MaxProbe, MinProbe, Halve

LEMMA ReachedInit == Init => Reached
  <1> SUFFICES ASSUME Init PROVE Reached
    OBVIOUS
  <1>1. Min[kind] \in Nat /\ Max[kind] \in Nat
    BY Widths DEF Init
  <1> QED
    BY <1>1 DEF Init, Reached

LEMMA ReachedNext == Shape /\ Reached /\ [Next]_vars => Reached'
  <1> SUFFICES ASSUME Shape, Reached, [Next]_vars PROVE Reached'
    OBVIOUS
  <1> USE DEF bisection, driver
  <1>0. /\ kind \in Kinds /\ lo \in Nat /\ hi \in Nat
        /\ Min[kind] \in Nat /\ Max[kind] \in Nat
        /\ Width[kind][0] \in Nat \ {0} /\ Max[kind] = Min[kind] + Width[kind][0]
    <2>1. kind \in Kinds /\ lo \in Nat /\ hi \in Nat
      BY DEF Shape, TypeOK
    <2>2. 0 \in 0..MaxIterations
      BY <2>1, Widths
    <2> QED
      BY <2>1, <2>2, Widths
  <1>1. ASSUME UNCHANGED <<kind, lo, hi, trials>> PROVE Reached'
    BY <1>1 DEF Reached, Inputs
  <1>2. ASSUME NEW pass \in BOOLEAN, Measured(pass) PROVE Probe \in Inputs
    <2>1. MayProbe /\ Probe \in Nat
      BY <1>2, MeasuredType
    <2>2. Min[kind] <= Probe /\ Probe <= Max[kind]
      <3>1. CASE phase = "max"
        BY <3>1, <2>1, <1>0, ProbeType
      <3>2. CASE phase = "min"
        BY <3>2, <2>1, <1>0, ProbeType
      <3>3. CASE phase = "loop"
        <4> DEFINE w == Width[kind][iteration + 1]
        <4>1. w \in Nat /\ Probe = lo + w /\ hi = Probe + w
          BY <3>3, <2>1, ProbeType
        <4> HIDE DEF w
        <4> QED
          BY <4>1, <2>1, <1>0 DEF Reached
      <3> QED
        BY <3>1, <3>2, <3>3, <2>1 DEF MayProbe
    <2> QED
      BY <2>1, <2>2, <1>0 DEF Inputs
  <1>3. ASSUME NEW pass \in BOOLEAN, Measured(pass),
               lo' \in {lo, Probe}, hi' \in {hi, Probe}
        PROVE  Reached'
    <2>1. UNCHANGED kind /\ Inputs' = Inputs /\ Probe \in Inputs
      BY <1>2, <1>3 DEF Measured, Inputs
    <2>2. Min[kind] <= lo' /\ hi' <= Max[kind]
      BY <2>1, <1>0, <1>3 DEF Reached, Inputs
    <2>3. \A t \in trials' : t.x \in Inputs
      BY <2>1, <1>3 DEF Measured, Reached
    <2> QED
      BY <2>1, <2>2, <2>3 DEF Reached
  <1> QED
    BY <1>1, <1>3
       DEF Next, Search, MaxProbe, MinProbe, Halve, StartTrial, Conclude, Cancelled,
           TrialRefused, CancelRequest, OthersRevert, OthersApply, Touch, MonitorFires, vars

-----------------------------------------------------------------------------
(* Evidence                                                                *)

LEMMA EvidenceInit == Init => Evidence
  BY DEF Init, Evidence, ReportIsMeasured, Truthful

(* A measured trial adds its verdict and takes none away. *)
LEMMA MeasuredEvidence ==
    ASSUME Shape, Truthful, NEW pass \in BOOLEAN, Measured(pass)
    PROVE  /\ \A x, p : Tried(x, p) => \E t \in trials' : t.x = x /\ t.pass = p
           /\ \E t \in trials' : t.x = Probe /\ t.pass = pass
           /\ Truthful'
  <1> DEFINE new == [x |-> Probe, pass |-> pass, intact |-> intact]
  <1>1. trials' = trials \cup {new}
    BY DEF Measured
  <1>2. UNCHANGED <<kind, healthy>>
    BY DEF Measured
  <1>3. \E t \in trials' : t.x = Probe /\ t.pass = pass
    <2>1. new \in trials'
      BY <1>1
    <2>2. new.x = Probe /\ new.pass = pass
      OBVIOUS
    <2> QED
      BY <2>1, <2>2
  <1>4. ASSUME NEW t \in trials', t.intact PROVE (t.pass = Healthy(t.x))'
    <2>1. CASE t \in trials
      BY <2>1, <1>2, <1>4 DEF Truthful, Healthy, Load, VUs
    <2>2. CASE t = new
      <3>1. intact /\ t.x = Probe /\ t.pass = pass
        BY <2>2, <1>4
      <3>2. pass = Healthy(Probe)
        BY <3>1 DEF Measured, Passes
      <3>3. Healthy(Probe) = Healthy(t.x)'
        BY <3>1, <1>2 DEF Healthy, Load, VUs
      <3> QED
        BY <3>1, <3>2, <3>3
    <2> QED
      BY <2>1, <2>2, <1>1
  <1>5. Truthful'
    BY <1>4 DEF Truthful
  <1>6. \A x, p : Tried(x, p) => \E t \in trials' : t.x = x /\ t.pass = p
    BY <1>1 DEF Tried
  <1> QED
    BY <1>3, <1>5, <1>6

LEMMA EvidenceNext == Shape /\ Shape' /\ Evidence /\ [Next]_vars => Evidence'
  <1> SUFFICES ASSUME Shape, Shape', Evidence, [Next]_vars PROVE Evidence'
    OBVIOUS
  <1> USE DEF bisection, driver
  <1>0. /\ kind \in Kinds /\ lo \in Nat /\ hi \in Nat /\ iteration \in 0..MaxIterations
        /\ Min[kind] \in Nat /\ Max[kind] \in Nat /\ MaxIterations \in Nat
        /\ Tolerance[kind] \in Nat \ {0}
        /\ \A i \in 0..MaxIterations : Width[kind][i] \in Nat \ {0}
    BY Widths DEF Shape, TypeOK
  <1>1. ASSUME UNCHANGED <<kind, healthy, phase, lo, hi, trials, report>> PROVE Evidence'
    BY <1>1 DEF Evidence, ReportIsMeasured, Truthful, Tried, Healthy, Load, VUs
  <1>2. ASSUME NEW pass \in BOOLEAN, MaxProbe(pass) PROVE Evidence'
    <2>1. Measured(pass) /\ Probe = Max[kind]
      BY <1>2 DEF MaxProbe, Probe
    <2>2. Tried(Max[kind], pass)' /\ Truthful' /\ UNCHANGED kind
      BY <2>1, MeasuredEvidence, MeasuredType DEF Evidence, Tried
    <2>3. CASE pass = TRUE
      <3>1. phase' = "done" /\ ~report'.found
        BY <1>2, <2>3 DEF MaxProbe, Survived
      <3> QED
        BY <3>1, <2>2, <2>3 DEF Evidence, ReportIsMeasured
    <2>4. CASE pass = FALSE
      <3>1. phase' = "min"
        BY <1>2, <2>4 DEF MaxProbe
      <3> QED
        BY <3>1, <2>2, <2>4 DEF Evidence, ReportIsMeasured
    <2> QED
      BY <2>3, <2>4
  <1>3. ASSUME NEW pass \in BOOLEAN, MinProbe(pass) PROVE Evidence'
    <2>1. Measured(pass) /\ Probe = Min[kind]
      BY <1>3 DEF MinProbe, Probe
    <2>2. /\ Tried(Min[kind], pass)' /\ Tried(Max[kind], FALSE)'
          /\ Truthful' /\ UNCHANGED kind
      <3>1. Truthful' /\ UNCHANGED kind
        BY <2>1, MeasuredEvidence, MeasuredType DEF Evidence
      <3>2. \E t \in trials' : t.x = Min[kind] /\ t.pass = pass
        BY <2>1, MeasuredEvidence DEF Evidence
      <3>3. \E t \in trials' : t.x = Max[kind] /\ t.pass = FALSE
        BY <1>3, <2>1, MeasuredEvidence, ZenonT(30) DEF Evidence, MinProbe
      <3> QED
        BY <3>1, <3>2, <3>3 DEF Tried
    <2>3. CASE pass = TRUE
      <3>1. phase' = "loop" /\ lo' = Min[kind] /\ hi' = Max[kind]
        BY <1>3, <2>3 DEF MinProbe, Shape, Edges
      <3> QED
        BY <3>1, <2>2, <2>3 DEF Evidence, ReportIsMeasured
    <2>4. CASE pass = FALSE
      <3>1. phase' = "done" /\ report'.found /\ report'.breaking = Min[kind]
        BY <1>3, <2>4 DEF MinProbe, Broken
      <3> QED
        BY <3>1, <2>2, <2>4 DEF Evidence, ReportIsMeasured
    <2> QED
      BY <2>3, <2>4
  <1>4. ASSUME NEW pass \in BOOLEAN, Halve(pass) PROVE Evidence'
    <2>1. Measured(pass) /\ phase = "loop" /\ phase' = "loop"
      BY <1>4 DEF Halve
    <2>2. /\ \A x, p : Tried(x, p) => \E t \in trials' : t.x = x /\ t.pass = p
          /\ \E t \in trials' : t.x = Probe /\ t.pass = pass
          /\ Truthful'
      BY <2>1, MeasuredEvidence DEF Evidence
    <2>3. Tried(lo, TRUE)' /\ Tried(hi, FALSE)'
      <3>1. CASE pass = TRUE
        <4>1. lo' = Probe /\ hi' = hi
          BY <1>4, <3>1 DEF Halve
        <4>2. \E t \in trials' : t.x = Probe /\ t.pass = TRUE
          BY <2>2, <3>1
        <4>3. \E t \in trials' : t.x = hi /\ t.pass = FALSE
          BY <2>1, <2>2 DEF Evidence, Tried
        <4> QED
          BY <4>1, <4>2, <4>3 DEF Tried
      <3>2. CASE pass = FALSE
        <4>1. lo' = lo /\ hi' = Probe
          BY <1>4, <3>2 DEF Halve
        <4>2. \E t \in trials' : t.x = Probe /\ t.pass = FALSE
          BY <2>2, <3>2
        <4>3. \E t \in trials' : t.x = lo /\ t.pass = TRUE
          BY <2>1, <2>2 DEF Evidence, Tried
        <4> QED
          BY <4>1, <4>2, <4>3 DEF Tried
      <3> QED
        BY <3>1, <3>2
    <2> QED
      BY <2>1, <2>2, <2>3 DEF Evidence, ReportIsMeasured
  <1>5. CASE Conclude
    <2>1. /\ phase = "loop" /\ ~Continues /\ phase' = "done"
          /\ report'.found /\ report'.breaking = hi
          /\ UNCHANGED <<kind, healthy, lo, hi, iteration, trials>>
      BY <1>5 DEF Conclude, Broken
    <2>2. PICK t \in trials : t.x = lo /\ t.pass = TRUE
      BY <2>1 DEF Evidence, Tried
    <2>3. hi = lo + Width[kind][iteration] /\ Width[kind][iteration] \in Nat \ {0}
      BY <2>1, <1>0 DEF Shape, Range, Probing
    <2>4. hi - lo = Width[kind][iteration] /\ lo < hi
      BY <2>3, <1>0
    <2>5. hi - lo <= Tolerance[kind] \/ iteration = MaxIterations
      BY <2>1, <1>0 DEF Continues
    <2>6. Tried(report.breaking, FALSE)'
      BY <2>1 DEF Evidence, Tried
    <2>7. (\E u \in trials : /\ u.pass /\ u.x < report.breaking
                             /\ \/ report.breaking - u.x <= Tolerance[kind]
                                \/ report.breaking - u.x = Width[kind][MaxIterations])'
      BY <2>1, <2>2, <2>4, <2>5
    <2>8. ReportIsMeasured'
      BY <2>1, <2>6, <2>7 DEF ReportIsMeasured
    <2>9. Truthful'
      BY <2>1 DEF Evidence, Truthful, Healthy, Load, VUs
    <2> QED
      BY <2>1, <2>8, <2>9 DEF Evidence
  <1>6. ASSUME phase' = "error", UNCHANGED <<kind, healthy, trials>> PROVE Evidence'
    BY <1>6 DEF Evidence, ReportIsMeasured, Truthful, Tried, Healthy, Load, VUs
  <1> QED
    BY <1>1, <1>2, <1>3, <1>4, <1>5, <1>6
       DEF Next, Search, StartTrial, Cancelled, TrialRefused, CancelRequest,
           OthersRevert, OthersApply, Touch, MonitorFires, vars

-----------------------------------------------------------------------------
(* Capacity                                                                *)

LEMMA ToleranceType ==
    /\ Tolerance["autopilot"] \in Nat /\ Tolerance["autopilot"] >= 2 * Unit
    /\ Min["autopilot"] = MinVUs * Unit
    /\ Unit <= Min["autopilot"]
  <1>1. Min["autopilot"] = MinVUs * Unit /\ Tolerance["autopilot"] >= 2 * Unit
    BY SearchConstants DEF SearchConstants
  <1>2. Tolerance["autopilot"] \in Nat
    BY SearchConstants DEF SearchConstants, Kinds
  <1>3. Unit * 1 <= Unit * MinVUs
    BY UnitType, MultiplyMonotone
  <1> QED
    BY <1>1, <1>2, <1>3, UnitType

LEMMA RangeIsWide == Min["autopilot"] + Unit <= Max["autopilot"]
  <1>1. /\ Max["autopilot"] = MaxVUs * Unit /\ Min["autopilot"] = MinVUs * Unit
        /\ MaxVUs \in Nat
    BY SearchConstants DEF SearchConstants
  <1>2. "autopilot" \in Kinds /\ 0 \in 0..MaxIterations
    BY Widths DEF Kinds
  <1>3. Min["autopilot"] < Max["autopilot"]
    BY <1>2, Widths
  <1>4. MinVUs + 1 <= MaxVUs
    <2>1. SUFFICES ASSUME MaxVUs <= MinVUs PROVE FALSE
      BY <1>1, UnitType
    <2>2. Unit * MaxVUs <= Unit * MinVUs
      BY <2>1, <1>1, UnitType, MultiplyMonotone
    <2> QED
      BY <2>2, <1>1, <1>3, UnitType
  <1>5. Unit * (MinVUs + 1) <= Unit * MaxVUs
    BY <1>4, <1>1, UnitType, MultiplyMonotone
  <1>6. Unit * (MinVUs + 1) = MinVUs * Unit + Unit
    BY UnitType
  <1> QED
    BY <1>5, <1>6, <1>1, UnitType

LEMMA CapacityInit == Init => Capacity
  <1> SUFFICES ASSUME Init PROVE Capacity
    OBVIOUS
  <1>1. ASSUME kind = "autopilot" PROVE Unit <= lo /\ lo + Unit <= hi
    BY <1>1, ToleranceType, RangeIsWide DEF Init
  <1> QED
    BY <1>1 DEF Init, Capacity, SafeBelowBreaking

LEMMA CapacityNext == Shape /\ Shape' /\ Evidence /\ Capacity /\ [Next]_vars => Capacity'
  <1> SUFFICES ASSUME Shape, Shape', Evidence, Capacity, [Next]_vars PROVE Capacity'
    OBVIOUS
  <1> USE DEF bisection, driver
  <1>0. /\ kind \in Kinds /\ lo \in Nat /\ hi \in Nat /\ Unit \in Nat \ {0}
        /\ lastPassingVUs \in Nat
    BY UnitType DEF Shape, TypeOK
  <1>1. ASSUME UNCHANGED <<kind, phase, lo, hi, trials, report, lastPassingVUs>>
        PROVE Capacity'
    BY <1>1 DEF Capacity, SafeBelowBreaking, VUs
  <1>2. ASSUME NEW pass \in BOOLEAN, MaxProbe(pass) PROVE Capacity'
    <2>1. /\ Measured(pass) /\ Probe = Max[kind] /\ phase = "max"
          /\ UNCHANGED <<kind, lo, hi>>
      BY <1>2 DEF MaxProbe, Probe, Measured
    <2>2. CASE pass = TRUE
      <3>1. phase' = "done" /\ ~report'.found
        BY <1>2, <2>2 DEF MaxProbe, Survived
      <3> QED
        BY <3>1 DEF Capacity, SafeBelowBreaking, Probing
    <2>3. CASE pass = FALSE
      <3>1. phase' = "min"
        BY <1>2, <2>3 DEF MaxProbe
      <3>2. lastPassingVUs' = lastPassingVUs
        BY <2>1, <2>3 DEF Measured
      <3> QED
        BY <2>1, <3>1, <3>2 DEF Capacity, SafeBelowBreaking, Probing
    <2> QED
      BY <2>2, <2>3
  <1>3. ASSUME NEW pass \in BOOLEAN, MinProbe(pass) PROVE Capacity'
    <2>1. /\ Measured(pass) /\ Probe = Min[kind] /\ phase = "min"
          /\ UNCHANGED <<kind, lo, hi>> /\ lo = Min[kind]
      BY <1>3 DEF MinProbe, Probe, Measured, Shape, Edges
    <2>2. CASE pass = TRUE
      <3>1. phase' = "loop"
        BY <1>3, <2>2 DEF MinProbe
      <3>2. ASSUME kind = "autopilot" PROVE lastPassingVUs' = VUs(lo)
        <4>1. VUs(lo) = MinVUs /\ VUs(Probe) = MinVUs /\ lastPassingVUs = MinVUs
          BY <2>1, <3>2, MinIsWhole DEF Capacity
        <4> QED
          BY <4>1, <2>1, UnitType DEF Measured
      <3>3. VUs(lo)' = VUs(lo)
        BY <2>1 DEF VUs
      <3> QED
        BY <2>1, <3>1, <3>2, <3>3 DEF Capacity, SafeBelowBreaking, Probing
    <2>3. CASE pass = FALSE
      <3>1. phase' = "done" /\ report'.breaking = Min[kind]
        BY <1>3, <2>3 DEF MinProbe, Broken
      <3> QED
        BY <2>1, <3>1 DEF Capacity, SafeBelowBreaking, Probing
    <2> QED
      BY <2>2, <2>3
  <1>4. ASSUME NEW pass \in BOOLEAN, Halve(pass) PROVE Capacity'
    <2>1. Measured(pass) /\ phase = "loop" /\ phase' = "loop" /\ UNCHANGED kind
      BY <1>4 DEF Halve, Measured
    <2>2. SUFFICES ASSUME kind = "autopilot"
                   PROVE  /\ lastPassingVUs' = VUs(lo)'
                          /\ Unit <= lo' /\ lo' + Unit <= hi'
      BY <2>1 DEF Capacity, SafeBelowBreaking, Probing
    <2> DEFINE w == Width[kind][iteration + 1]
    <2>3. w \in Nat \ {0} /\ Probe \in Nat /\ Probe = lo + w /\ hi = Probe + w
      BY <2>1, MeasuredType, ProbeType
    <2>4. hi - lo > Tolerance["autopilot"]
      BY <2>1, <2>2, MeasuredType DEF MayProbe, Continues
    <2> HIDE DEF w
    <2>5. Unit <= w
      BY <2>3, <2>4, <1>0, ToleranceType
    <2>6. Unit <= lo /\ lastPassingVUs = VUs(lo)
      BY <2>1, <2>2 DEF Capacity, Probing
    <2>7. VUs(lo) \in Nat /\ VUs(Probe) \in Nat /\ VUs(lo) < VUs(Probe)
      BY <2>3, <2>5, <2>6, <1>0, RoundingMonotone
    <2>8. CASE pass = TRUE
      <3>1. lo' = Probe /\ hi' = hi
        BY <1>4, <2>8 DEF Halve
      <3>2. lastPassingVUs' = VUs(Probe)
        BY <2>1, <2>2, <2>6, <2>7, <2>8 DEF Measured
      <3>3. VUs(lo)' = VUs(Probe)
        BY <3>1 DEF VUs
      <3>4. Unit <= lo' /\ lo' + Unit <= hi'
        BY <3>1, <2>3, <2>5, <2>6, <1>0
      <3> QED
        BY <3>2, <3>3, <3>4
    <2>9. CASE pass = FALSE
      <3>1. lo' = lo /\ hi' = Probe
        BY <1>4, <2>9 DEF Halve
      <3>2. lastPassingVUs' = lastPassingVUs
        BY <2>1, <2>9 DEF Measured
      <3>3. VUs(lo)' = VUs(lo)
        BY <3>1 DEF VUs
      <3>4. Unit <= lo' /\ lo' + Unit <= hi'
        BY <3>1, <2>3, <2>5, <2>6, <1>0
      <3> QED
        BY <3>2, <3>3, <3>4, <2>6
    <2> QED
      BY <2>8, <2>9
  <1>5. CASE Conclude
    <2>1. /\ phase = "loop" /\ phase' = "done"
          /\ report'.breaking = hi /\ report'.safeVUs = lastPassingVUs
          /\ UNCHANGED <<kind, trials>>
      BY <1>5 DEF Conclude, Broken
    <2>2. ASSUME kind = "autopilot" PROVE SafeBelowBreaking'
      <3>1. lastPassingVUs = VUs(lo) /\ Unit <= lo /\ lo + Unit <= hi
        BY <2>1, <2>2 DEF Capacity, Probing
      <3>2. VUs(lo) < VUs(hi)
        BY <3>1, <1>0, RoundingMonotone
      <3>3. PICK t \in trials : t.x = lo /\ t.pass = TRUE
        BY <2>1 DEF Evidence, Tried
      <3>4. PICK u \in trials : u.x = hi /\ u.pass = FALSE
        BY <2>1 DEF Evidence, Tried
      <3>5. VUs(t.x) = report'.safeVUs /\ VUs(u.x) = VUs(report'.breaking)
        BY <2>1, <3>1, <3>3, <3>4
      <3>6. report'.safeVUs < VUs(report'.breaking)
        BY <2>1, <3>1, <3>2
      <3> QED
        BY <2>1, <3>3, <3>4, <3>5, <3>6 DEF SafeBelowBreaking, VUs
    <2> QED
      BY <2>1, <2>2 DEF Capacity, SafeBelowBreaking, Probing
  <1>6. ASSUME phase' = "error" PROVE Capacity'
    BY <1>6 DEF Capacity, SafeBelowBreaking, Probing
  <1> QED
    BY <1>1, <1>2, <1>3, <1>4, <1>5, <1>6
       DEF Next, Search, StartTrial, Cancelled, TrialRefused, CancelRequest,
           OthersRevert, OthersApply, Touch, MonitorFires, vars

-----------------------------------------------------------------------------
(* Theorems                                                                *)

IInv == Shape /\ Accounted /\ Reached /\ Evidence /\ Capacity

LEMMA Invariance == Spec => []IInv
  <1>1. Init => IInv
    <2>1. Init => Accounted
      BY DEF Init, Accounted
    <2> QED
      BY <2>1, ShapeInit, ReachedInit, EvidenceInit, CapacityInit DEF IInv
  <1>2. IInv /\ [Next]_vars => IInv'
    <2> SUFFICES ASSUME IInv, [Next]_vars PROVE IInv'
      OBVIOUS
    <2>1. Shape /\ Accounted /\ Reached /\ Evidence /\ Capacity
      BY DEF IInv
    <2>2. Shape'
      BY <2>1, ShapeNext
    <2>3. Evidence'
      BY <2>1, <2>2, EvidenceNext
    <2>4. Capacity'
      BY <2>1, <2>2, CapacityNext
    <2>5. Reached'
      BY <2>1, ReachedNext
    <2>6. Accounted'
      BY <2>1, AccountedNext
    <2> QED
      BY <2>2, <2>3, <2>4, <2>5, <2>6 DEF IInv
  <1> QED
    BY <1>1, <1>2, PTL DEF Spec

(* Every variable keeps its type: no search takes more than its iterations. *)
THEOREM TypeCorrect == Spec => []TypeOK
  <1>1. IInv => TypeOK
    BY DEF IInv, Shape
  <1> QED
    BY <1>1, Invariance, PTL

(* A reported breaking point failed when it was tried, and an input just
   below it passed, for every range and tolerance and every application. *)
THEOREM ReportMeasured == Spec => []ReportIsMeasured
  <1>1. IInv => ReportIsMeasured
    BY DEF IInv, Evidence
  <1> QED
    BY <1>1, Invariance, PTL

(* The capacity called safe was run and passed, the one called breaking was
   run and failed, and rounding to whole users never makes them meet. *)
THEOREM SafeIsBelow == Spec => []SafeBelowBreaking
  <1>1. IInv => SafeBelowBreaking
    BY DEF IInv, Capacity
  <1> QED
    BY <1>1, Invariance, PTL

(* Undisturbed, the search finds the threshold of every application that
   only gets worse. *)
THEOREM ThresholdFound == Spec => []ThresholdIsFound
  <1>1. IInv => ThresholdIsFound
    <2> SUFFICES ASSUME IInv, phase = "done", report.found, Monotone,
                        \A t \in trials : t.intact,
                        NEW x \in Inputs
                 PROVE  /\ x >= report.breaking => ~Healthy(x)
                        /\ x <= report.breaking - Gap => Healthy(x)
      BY DEF ThresholdIsFound
    <2> DEFINE bp == report.breaking
               g == Gap
    <2>1. /\ kind \in Kinds /\ bp \in Nat /\ trials \subseteq Trial
          /\ Min[kind] \in Nat /\ Max[kind] \in Nat /\ MaxIterations \in Nat
          /\ Tolerance[kind] \in Nat \ {0} /\ Width[kind][MaxIterations] \in Nat \ {0}
      BY Widths DEF IInv, Shape, TypeOK
    <2>2. g \in Nat \ {0} /\ Tolerance[kind] <= g /\ Width[kind][MaxIterations] <= g
      BY <2>1 DEF Gap
    <2>3. x \in Nat /\ Min[kind] <= x /\ x <= Max[kind]
      BY <2>1 DEF Inputs
    <2>4. \A y, z \in Inputs : y < z /\ Healthy(z) => Healthy(y)
      BY DEF Monotone
    <2>5. \A t \in trials : t.x \in Nat /\ t.pass = Healthy(t.x)
      BY <2>1 DEF IInv, Evidence, Truthful, Trial
    <2>6. ReportIsMeasured /\ Reached
      BY DEF IInv, Evidence
    <2>7. ASSUME x >= bp PROVE ~Healthy(x)
      <3>1. PICK t \in trials : t.x = bp /\ t.pass = FALSE
        BY <2>6 DEF ReportIsMeasured, Tried
      <3>2. ~Healthy(bp)
        BY <3>1, <2>5
      <3>3. bp \in Inputs
        BY <3>1, <2>6, <2>1 DEF Reached
      <3> QED
        BY <3>2, <3>3, <2>1, <2>3, <2>4, <2>7
    <2>8. ASSUME x <= bp - g PROVE Healthy(x)
      <3>1. bp # Min[kind]
        BY <2>1, <2>2, <2>3, <2>8
      <3>2. PICK t \in trials :
                /\ t.pass
                /\ t.x < bp
                /\ bp - t.x <= Tolerance[kind] \/ bp - t.x = Width[kind][MaxIterations]
        BY <3>1, <2>6 DEF ReportIsMeasured
      <3>3. x <= t.x
        BY <3>2, <2>1, <2>2, <2>3, <2>5, <2>8
      <3>4. Healthy(t.x) /\ t.x \in Inputs
        BY <3>2, <2>5, <2>6 DEF Reached
      <3> QED
        BY <3>3, <3>4, <2>3, <2>4, <2>5
    <2> QED
      BY <2>7, <2>8
  <1> QED
    BY <1>1, Invariance, PTL

(* The two ends of the bisected range were tried, one with success, and the
   range is what so many halvings leave of it. *)
THEOREM Bracketed == Spec => []BracketHolds
  <1>1. IInv => BracketHolds
    BY DEF IInv, Shape, Range, Evidence, BracketHolds, Probing
  <1> QED
    BY <1>1, Invariance, PTL

(* However a search ends and whoever else uses the driver, a fault that
   outlives its trial is one whose Revert was refused, and a monitor is still
   to try again unless it was refused or misled as well. *)
THEOREM NoFaultLeft == Spec => []TrialFaultEnds
  <1>1. IInv => TrialFaultEnds
    BY DEF IInv, Accounted, TrialFaultEnds
  <1> QED
    BY <1>1, Invariance, PTL
=============================================================================
