------------------------- MODULE LoadEngineProofs -------------------------
(***************************************************************************)
(* What LoadEngine promises of its workers, of the sliding window and of   *)
(* the status it reports holds for every scenario, profile, number of      *)
(* workers and size of the window.                                         *)
(***************************************************************************)
EXTENDS LoadEngine, FiniteSums, FiniteSetTheorems, TLAPS

-----------------------------------------------------------------------------
(* The constants                                                           *)

LEMMA BreakerFacts ==
    /\ NumBuckets \in Nat \ {0} /\ MinRequests \in Nat \ {0}
    /\ ConsecutiveBreaches \in Nat \ {0}
  BY BreakerConstants DEF BreakerConstants

LEMMA SessionFacts ==
    /\ InitialStep \in Steps /\ "END" \in Names
    /\ Steps \subseteq Names /\ \A s \in Steps : Targets[s] \subseteq Names
    /\ OnFailure \in [Steps -> [action : {"abort", "retry", "transition"},
                                retries : Nat, fallback : Steps]]
    /\ Outcomes \subseteq Results
    /\ MaxSteps \in Nat \ {0}
  BY SessionConstants DEF SessionConstants, Results, Names

LEMMA EngineFacts ==
    /\ Profiles \subseteq {"flat_vu", "target_rps", "ramping"}
    /\ IsFiniteSet(Workers) /\ Cardinality(Workers) \in Nat
    /\ VUs \in 1..Cardinality(Workers) /\ MaxInflight \in 1..Cardinality(Workers)
    /\ Stages \in Seq(0..Cardinality(Workers)) /\ Stages # <<>>
    /\ MaxDelay \in Nat /\ MaxSessions \in Nat /\ MaxSlices \in Nat \ {0}
  BY EngineConstants, FS_CardinalityType DEF EngineConstants

-----------------------------------------------------------------------------
(* The sliding window.  Two slices share a slot only when they are a whole *)
(* round of the ring apart.                                                *)

LEMMA Division ==
    ASSUME NEW a \in Int, NEW b \in Nat, b > 0
    PROVE  a \div b \in Int /\ b * (a \div b) <= a /\ a < b * (a \div b) + b
  OBVIOUS

LEMMA SlotType == \A s \in Int : Slot(s) \in 0..(NumBuckets - 1)
  <1> TAKE s \in Int
  <1> DEFINE q == s \div NumBuckets
  <1>1. q \in Int /\ NumBuckets * q <= s /\ s < NumBuckets * q + NumBuckets
    BY BreakerFacts, Division
  <1>2. Slot(s) = s - NumBuckets * q
    BY DEF Slot
  <1> HIDE DEF q
  <1>3. NumBuckets * q \in Int
    BY <1>1, BreakerFacts
  <1> QED
    BY <1>1, <1>2, <1>3, BreakerFacts

LEMMA SlotsDiffer ==
    ASSUME NEW s \in Int, NEW t \in Int, Slot(s) = Slot(t),
           s < t + NumBuckets, t < s + NumBuckets
    PROVE  s = t
  <1> DEFINE a == s \div NumBuckets
             b == t \div NumBuckets
  <1>1. a \in Int /\ b \in Int
    BY BreakerFacts, Division
  <1>2. s - NumBuckets * a = t - NumBuckets * b
    BY DEF Slot
  <1> HIDE DEF a, b
  <1>3. s - t = NumBuckets * (a - b)
    BY <1>1, <1>2, BreakerFacts
  <1>4. \A k \in Int : k >= 1 => NumBuckets * k >= NumBuckets
    BY BreakerFacts
  <1>5. \A k \in Int : k <= -1 => NumBuckets * k <= -NumBuckets
    BY BreakerFacts
  <1>6. ~(a - b >= 1)
    BY <1>1, <1>3, <1>4, BreakerFacts
  <1>7. ~(a - b <= -1)
    BY <1>1, <1>3, <1>5, BreakerFacts
  <1>8. a - b = 0
    BY <1>1, <1>6, <1>7
  <1> QED
    BY <1>3, <1>8, BreakerFacts

LEMMA AddResultType ==
    ASSUME NEW c \in Counts, NEW result
    PROVE  AddResult(c, result) \in Counts
  BY DEF AddResult, Counts

Buckets == [slice : Nat \cup {Never}, counts : Counts]

(* The ring and its history: a bucket holds a slice of its own slot, none  *)
(* from the future.                                                        *)
WindowTypeOK ==
    /\ now \in Nat
    /\ buckets \in [0..(NumBuckets - 1) -> Buckets]
    /\ measured \in Seq(Counts) /\ Len(measured) = now + 1

WindowShape ==
    \A i \in 0..(NumBuckets - 1) :
        buckets[i].slice # Never => Slot(buckets[i].slice) = i /\ buckets[i].slice <= now

LEMMA WindowInit == BreakerInit => WindowTypeOK /\ WindowShape /\ WindowIsExact
  <1> SUFFICES ASSUME BreakerInit PROVE WindowTypeOK /\ WindowShape /\ WindowIsExact
    OBVIOUS
  <1>1. NoCounts \in Counts /\ Never \in Int /\ Never < 0
    BY BreakerFacts DEF NoCounts, Counts, Never
  <1>2. WindowTypeOK
    BY <1>1 DEF BreakerInit, WindowTypeOK, Buckets
  <1>3. WindowShape
    BY DEF BreakerInit, WindowShape
  <1>4. WindowIsExact
    BY <1>1, SlotType DEF BreakerInit, WindowIsExact, BucketOf, Measured
  <1> QED
    BY <1>2, <1>3, <1>4

LEMMA BucketOfType ==
    ASSUME WindowTypeOK, NEW s \in Nat
    PROVE  BucketOf(s) \in Counts
  <1>1. Slot(s) \in 0..(NumBuckets - 1) /\ NoCounts \in Counts
    BY SlotType DEF NoCounts, Counts
  <1> QED
    BY <1>1 DEF WindowTypeOK, BucketOf, Buckets

LEMMA RecordType ==
    ASSUME WindowTypeOK, WindowShape, NEW slice \in 0..now, NEW result,
           WindowRecord(slice, result), UNCHANGED now
    PROVE  WindowTypeOK' /\ WindowShape'
  <1> DEFINE new == [slice |-> slice, counts |-> AddResult(BucketOf(slice), result)]
  <1>1. slice \in Nat /\ Slot(slice) \in 0..(NumBuckets - 1)
    BY SlotType DEF WindowTypeOK
  <1>2. new \in Buckets /\ new.slice = slice
    BY <1>1, BucketOfType, AddResultType DEF Buckets
  <1>3. buckets' = [buckets EXCEPT ![Slot(slice)] = new]
    BY DEF WindowRecord
  <1> HIDE DEF new
  <1>4. buckets' \in [0..(NumBuckets - 1) -> Buckets]
    BY <1>2, <1>3 DEF WindowTypeOK
  <1>5. /\ measured' = [measured EXCEPT ![slice + 1] = AddResult(measured[slice + 1], result)]
        /\ slice + 1 \in DOMAIN measured
    BY <1>1 DEF WindowRecord, WindowTypeOK
  <1>6. AddResult(measured[slice + 1], result) \in Counts
    BY <1>5, AddResultType DEF WindowTypeOK
  <1>7. measured' \in Seq(Counts) /\ Len(measured') = now' + 1
    BY <1>5, <1>6 DEF WindowTypeOK
  <1>8. WindowShape'
    BY <1>1, <1>2, <1>3 DEF WindowShape, WindowTypeOK
  <1> QED
    BY <1>4, <1>7, <1>8 DEF WindowTypeOK

(* A recorder that is less than a whole round late disturbs no slice but   *)
(* its own.                                                                *)
LEMMA RecordExact ==
    ASSUME WindowTypeOK, WindowShape, WindowIsExact, NEW slice \in 0..now, NEW result,
           InWindow(slice), WindowRecord(slice, result), UNCHANGED now
    PROVE  WindowIsExact'
  <1> DEFINE new == [slice |-> slice, counts |-> AddResult(BucketOf(slice), result)]
  <1>1. now \in Nat /\ slice \in Nat
    BY DEF WindowTypeOK
  <1>2. buckets' = [buckets EXCEPT ![Slot(slice)] = new]
    BY DEF WindowRecord
  <1>3. new.slice = slice /\ new.counts = AddResult(Measured(slice), result)
    BY DEF WindowIsExact
  <1>4. /\ measured' = [measured EXCEPT ![slice + 1] = AddResult(measured[slice + 1], result)]
        /\ DOMAIN measured = 1..(now + 1)
    BY DEF WindowRecord, WindowTypeOK
  <1> HIDE DEF new
  <1> SUFFICES ASSUME NEW s \in 0..now, InWindow(s)
               PROVE  BucketOf(s)' = Measured(s)'
    BY DEF WindowIsExact, InWindow
  <1>5. s \in Nat /\ Slot(s) \in 0..(NumBuckets - 1) /\ Slot(slice) \in 0..(NumBuckets - 1)
    BY <1>1, SlotType
  <1>6. DOMAIN buckets = 0..(NumBuckets - 1)
    BY DEF WindowTypeOK
  <1>7. CASE s = slice
    <2>1. buckets'[Slot(s)] = new
      BY <1>2, <1>5, <1>6, <1>7
    <2>2. Measured(s)' = AddResult(Measured(slice), result)
      BY <1>1, <1>4, <1>7 DEF Measured
    <2> QED
      BY <1>3, <1>7, <2>1, <2>2 DEF BucketOf
  <1>8. CASE s # slice
    <2>1. Slot(s) # Slot(slice)
      BY <1>1, <1>8, SlotsDiffer, BreakerFacts DEF InWindow
    <2>2. buckets'[Slot(s)] = buckets[Slot(s)]
      BY <1>2, <1>5, <1>6, <2>1
    <2>3. Measured(s)' = Measured(s)
      BY <1>1, <1>4, <1>8 DEF Measured
    <2> QED
      BY <2>2, <2>3 DEF BucketOf, WindowIsExact
  <1> QED
    BY <1>7, <1>8

LEMMA TickWindow ==
    ASSUME WindowTypeOK, WindowShape, now' = now + 1,
           measured' = Append(measured, NoCounts), UNCHANGED buckets
    PROVE  /\ WindowTypeOK' /\ WindowShape'
           /\ WindowIsExact => WindowIsExact'
  <1>1. now \in Nat /\ NoCounts \in Counts
    BY DEF WindowTypeOK, NoCounts, Counts
  <1>2. WindowTypeOK'
    BY <1>1 DEF WindowTypeOK
  <1>3. WindowShape'
    <2> SUFFICES ASSUME NEW i \in 0..(NumBuckets - 1), buckets[i].slice # Never
                 PROVE  Slot(buckets[i].slice) = i /\ buckets[i].slice <= now + 1
      BY DEF WindowShape
    <2>1. buckets[i].slice \in Nat
      BY DEF WindowTypeOK, Buckets
    <2> QED
      BY <1>1, <2>1 DEF WindowShape
  <1>4. ASSUME WindowIsExact PROVE WindowIsExact'
    <2> SUFFICES ASSUME NEW s \in 0..(now + 1), InWindow(s)'
                 PROVE  BucketOf(s)' = Measured(s)'
      BY <1>1 DEF WindowIsExact
    <2>1. s \in Nat /\ Slot(s) \in 0..(NumBuckets - 1)
      BY <1>1, SlotType
    <2>2. CASE s = now + 1
      <3>1. Measured(s)' = NoCounts
        BY <1>1, <2>2 DEF Measured, WindowTypeOK
      <3>2. buckets[Slot(s)].slice # s
        <4>1. buckets[Slot(s)].slice # Never => buckets[Slot(s)].slice <= now /\ buckets[Slot(s)].slice \in Nat
          BY <2>1 DEF WindowShape, WindowTypeOK, Buckets
        <4>2. Never # s
          BY <2>1, BreakerFacts DEF Never
        <4> QED
          BY <1>1, <2>2, <4>1, <4>2
      <3> QED
        BY <3>1, <3>2 DEF BucketOf
    <2>3. CASE s # now + 1
      <3>1. s \in 0..now /\ InWindow(s)
        BY <1>1, <2>1, <2>3, BreakerFacts DEF InWindow
      <3>2. Measured(s)' = Measured(s)
        BY <1>1, <3>1 DEF Measured, WindowTypeOK
      <3> QED
        BY <1>4, <3>1, <3>2 DEF WindowIsExact, BucketOf
    <2> QED
      BY <2>2, <2>3
  <1> QED
    BY <1>2, <1>3, <1>4

-----------------------------------------------------------------------------
(* The sessions of the workers                                             *)

(* What a session is like at each of its places. *)
Good(s) ==
    /\ s \in Session /\ Len(s.history) <= MaxSteps
    /\ s.pc \in {"attempt", "retry"} => s.step \in Steps /\ Len(s.history) < MaxSteps
    /\ s.pc = "stamped" => s.history # <<>> /\ s.stamp <= now /\ now - s.stamp <= MaxDelay

SessionInv == \A w \in Workers : Good(session[w])

(* Good looks at the clock, which no worker moves. *)
LEMMA FreshSessions == Good(Gone) /\ Good(Ready) /\ Good(NewSession)
  <1>1. InitialStep \in Names /\ <<>> \in Seq(Outcomes) /\ Len(<<>>) = 0 /\ MaxSteps \in Nat \ {0}
    BY SessionFacts
  <1>2. Gone \in Session /\ Gone.pc = "gone" /\ Gone.history = <<>>
    BY <1>1 DEF Gone, Session
  <1>3. Ready \in Session /\ Ready.pc = "ready" /\ Ready.history = <<>>
    BY <1>1 DEF Gone, Ready, Session
  <1>4. NewSession \in Session /\ NewSession.pc = "head" /\ NewSession.history = <<>>
    BY <1>1 DEF Gone, NewSession, Session
  <1> QED
    BY <1>1, <1>2, <1>3, <1>4 DEF Good

LEMMA RecordedGood ==
    ASSUME NEW s, Good(s), s.pc = "attempt", NEW outcome \in Outcomes, NEW next \in Names
    PROVE  /\ Good(Recorded(s, outcome, next)) /\ Recorded(s, outcome, next).pc # "gone"
           /\ Len(Recorded(s, outcome, next).history) = Len(s.history) + 1
  <1> DEFINE new == Recorded(s, outcome, next)
  <1>1. s \in Session /\ Len(s.history) \in Nat /\ Len(s.history) + 1 <= MaxSteps
    BY SessionFacts DEF Good, Session
  <1>2. /\ Append(s.history, outcome) \in Seq(Outcomes)
        /\ Len(Append(s.history, outcome)) = Len(s.history) + 1
    BY <1>1 DEF Session
  <1>3. /\ new \in Session /\ new.history = Append(s.history, outcome)
        /\ new.pc \in {"reporting", "head"}
    BY <1>1, <1>2 DEF Recorded, Session
  <1> HIDE DEF new
  <1>4. Good(new) /\ new.pc # "gone" /\ Len(new.history) = Len(s.history) + 1
    BY <1>1, <1>2, <1>3 DEF Good
  <1> QED
    BY <1>4 DEF new

(* A step of Execute. *)
LEMMA ExecuteGood ==
    ASSUME NEW w \in Workers, Good(session[w]),
           \/ LoopHead(w, Stopped)
           \/ \E outcome \in Outcomes : StepSucceeds(w, outcome) \/ StepFails(w, outcome)
           \/ RetryStep(w)
    PROVE  \E new : /\ session' = [session EXCEPT ![w] = new]
                    /\ Good(new) /\ new.pc # "gone" /\ session[w].pc # "gone"
                    /\ Len(new.history) \in {Len(session[w].history), Len(session[w].history) + 1}
  <1> DEFINE s == session[w]
  <1>1. s \in Session /\ Len(s.history) \in Nat /\ Len(s.history) <= MaxSteps /\ MaxSteps \in Nat
    BY SessionFacts DEF Good, Session
  <1>2. CASE LoopHead(w, Stopped)
    <2> DEFINE new == [s EXCEPT !.pc = IF Ends(s, Stopped) THEN "reporting" ELSE "attempt"]
    <2>1. s.pc = "head" /\ session' = [session EXCEPT ![w] = new]
      BY <1>2 DEF LoopHead, Is, Become
    <2>2. /\ new \in Session /\ new.history = s.history /\ new.step = s.step
          /\ new.pc \in {"reporting", "attempt"} /\ (new.pc = "attempt" => ~Ends(s, Stopped))
      BY <1>1 DEF Session
    <2> HIDE DEF new
    <2>3. Good(new)
      BY <1>1, <2>2 DEF Good, Ends
    <2> QED
      BY <2>1, <2>2, <2>3
  <1>3. ASSUME NEW outcome \in Outcomes, StepSucceeds(w, outcome)
        PROVE  \E next \in Names : session' = [session EXCEPT ![w] = Recorded(s, outcome, next)]
    <2>1. s.pc = "attempt" /\ s.step \in Steps
      BY <1>3 DEF StepSucceeds, Is, Good
    <2>2. Targets[s.step] \subseteq Names
      BY <2>1, SessionFacts
    <2> QED
      BY <1>3, <2>2 DEF StepSucceeds, Become
  <1>4. ASSUME NEW outcome \in Outcomes, StepFails(w, outcome), s.attempt < Retries(s.step)
        PROVE  \E new : /\ session' = [session EXCEPT ![w] = new]
                        /\ Good(new) /\ new.pc # "gone" /\ s.pc # "gone"
                        /\ Len(new.history) = Len(s.history)
    <2> DEFINE new == [s EXCEPT !.pc = "retry", !.attempt = @ + 1]
    <2>1. s.pc = "attempt" /\ session' = [session EXCEPT ![w] = new]
      BY <1>4 DEF StepFails, Is, Become
    <2>2. s.attempt + 1 \in Nat
      BY <1>1 DEF Session
    <2>3. /\ new \in Session
          /\ new.history = s.history /\ new.step = s.step /\ new.pc = "retry"
      BY <1>1, <2>2 DEF Session
    <2> HIDE DEF new
    <2>4. Good(new)
      BY <1>1, <2>1, <2>3 DEF Good
    <2> QED
      BY <2>1, <2>3, <2>4
  <1>5. ASSUME NEW outcome \in Outcomes, StepFails(w, outcome), ~(s.attempt < Retries(s.step))
        PROVE  \E next \in Names : session' = [session EXCEPT ![w] = Recorded(s, outcome, next)]
    <2>1. s.pc = "attempt" /\ s.step \in Steps
      BY <1>5 DEF StepFails, Is, Good
    <2>2. AfterFailure(s.step) \in Names
      <3>1. OnFailure[s.step].fallback \in Names
        BY <2>1, SessionFacts
      <3>2. AfterFailure(s.step) = OnFailure[s.step].fallback \/ AfterFailure(s.step) = "END"
        BY DEF AfterFailure
      <3> QED
        BY <3>1, <3>2, SessionFacts
    <2>3. session' = [session EXCEPT ![w] = Recorded(s, outcome, AfterFailure(s.step))]
      BY <1>5 DEF StepFails, Become
    <2> QED
      BY <2>2, <2>3
  <1>6. CASE RetryStep(w)
    <2> DEFINE new == [s EXCEPT !.pc = "attempt"]
    <2>1. s.pc = "retry" /\ session' = [session EXCEPT ![w] = new]
      BY <1>6 DEF RetryStep, Is, Become
    <2>2. new \in Session /\ new.history = s.history /\ new.step = s.step /\ new.pc = "attempt"
      BY <1>1 DEF Session
    <2> HIDE DEF new
    <2>3. Good(new)
      BY <1>1, <2>1, <2>2 DEF Good
    <2> QED
      BY <2>1, <2>2, <2>3
  <1>7. ASSUME NEW outcome \in Outcomes, NEW next \in Names, s.pc = "attempt",
               session' = [session EXCEPT ![w] = Recorded(s, outcome, next)]
        PROVE  \E new : /\ session' = [session EXCEPT ![w] = new]
                        /\ Good(new) /\ new.pc # "gone" /\ s.pc # "gone"
                        /\ Len(new.history) = Len(s.history) + 1
    BY <1>7, RecordedGood
  <1>8. ASSUME NEW outcome \in Outcomes, StepSucceeds(w, outcome) \/ StepFails(w, outcome)
        PROVE  s.pc = "attempt"
    BY <1>8 DEF StepSucceeds, StepFails, Is
  <1> HIDE DEF s
  <1>9. ASSUME NEW outcome \in Outcomes, StepSucceeds(w, outcome) \/ StepFails(w, outcome)
        PROVE  \E new : /\ session' = [session EXCEPT ![w] = new]
                        /\ Good(new) /\ new.pc # "gone" /\ s.pc # "gone"
                        /\ Len(new.history) \in {Len(s.history), Len(s.history) + 1}
    BY <1>3, <1>4, <1>5, <1>7, <1>8, <1>9
  <1> QED
    BY <1>2, <1>6, <1>9 DEF s

(* A step of a worker, by what it does to its session and to the group. *)
Leaves(w, new) ==
    /\ new.pc = "gone" /\ active' = active - 1
    /\ Stopped \/ profile = "target_rps"

Stays(w, new) == new.pc # "gone" /\ active' = active

LEMMA WorkerEffect ==
    ASSUME now \in Nat, NEW w \in Workers, Good(session[w]), WorkerStep(w), ~Panic(w)
    PROVE  \E new : /\ session' = [session EXCEPT ![w] = new]
                    /\ Good(new) /\ session[w].pc # "gone"
                    /\ Leaves(w, new) \/ Stays(w, new)
  <1>1. session[w] \in Session /\ session[w].history \in Seq(Outcomes)
    BY DEF Good, Session
  <1>2. Gone.pc = "gone" /\ Ready.pc = "ready" /\ NewSession.pc = "head"
    BY DEF Gone, Ready, NewSession
  <1>3. CASE TakeSession(w)
    BY <1>2, <1>3, FreshSessions DEF TakeSession, Leave, Become, Is, Leaves, Stays
  <1>4. CASE ExecuteStep(w)
    <2>1. PICK new : /\ session' = [session EXCEPT ![w] = new]
                     /\ Good(new) /\ new.pc # "gone" /\ session[w].pc # "gone"
      BY <1>4, ExecuteGood DEF ExecuteStep
    <2>2. active' = active
      BY <1>4 DEF ExecuteStep, pool
    <2> QED
      BY <2>1, <2>2 DEF Stays
  <1>5. CASE RecordStep(w)
    <2> DEFINE new == [session[w] EXCEPT !.pc = "stamped", !.stamp = now]
    <2>1. /\ session[w].pc = "reporting" /\ session[w].history # <<>>
          /\ session' = [session EXCEPT ![w] = new] /\ active' = active
      BY <1>5 DEF RecordStep, Is, Become, pool
    <2>2. /\ new \in Session /\ new.history = session[w].history
          /\ new.pc = "stamped" /\ new.stamp = now
      BY <1>1 DEF Session
    <2> HIDE DEF new
    <2>3. Good(new)
      BY <2>1, <2>2, EngineFacts DEF Good
    <2> QED
      BY <2>1, <2>2, <2>3 DEF Stays
  <1>6. CASE RecordInWindow(w)
    <2> DEFINE new == [session[w] EXCEPT !.pc = "reporting", !.stamp = 0, !.history = Tail(@)]
    <2>1. /\ session[w].pc = "stamped" /\ session[w].history # <<>>
          /\ session' = [session EXCEPT ![w] = new] /\ active' = active
      BY <1>6 DEF RecordInWindow, Is, Become, pool, Good
    <2>2. /\ Tail(session[w].history) \in Seq(Outcomes)
          /\ Len(Tail(session[w].history)) <= MaxSteps
      BY <1>1, <2>1, SessionFacts DEF Good
    <2>3. /\ new \in Session /\ new.history = Tail(session[w].history)
          /\ new.pc = "reporting"
      BY <1>1, <2>2 DEF Session
    <2> HIDE DEF new
    <2>4. Good(new)
      BY <2>2, <2>3 DEF Good
    <2> QED
      BY <2>1, <2>3, <2>4 DEF Stays
  <1>7. CASE FinishSession(w)
    BY <1>2, <1>7, FreshSessions DEF FinishSession, Leave, Become, Is, Leaves, Stays
  <1> QED
    BY <1>3, <1>4, <1>5, <1>6, <1>7 DEF WorkerStep

-----------------------------------------------------------------------------
(* The number of workers                                                   *)

LEMMA LiveFinite == IsFiniteSet(Live) /\ Cardinality(Live) \in Nat /\ Cardinality(Live) <= Cardinality(Workers)
  BY EngineFacts, FS_Subset, FS_CardinalityType DEF Live

LEMMA LiveAfterStep ==
    ASSUME DOMAIN session = Workers, NEW w \in Workers, session[w].pc # "gone", NEW new,
           session' = [session EXCEPT ![w] = new]
    PROVE  /\ new.pc # "gone" => Live' = Live
           /\ new.pc = "gone" => /\ Live' = Live \ {w}
                                 /\ Cardinality(Live') = Cardinality(Live) - 1
                                 /\ Cardinality(Live) >= 1
  <1>1. w \in Live
    BY DEF Live
  <1>2. new.pc # "gone" => Live' = Live
    BY DEF Live
  <1>3. new.pc = "gone" => Live' = Live \ {w}
    BY DEF Live
  <1>4. /\ Cardinality(Live \ {w}) = Cardinality(Live) - 1
        /\ IsFiniteSet(Live \ {w})
    BY <1>1, LiveFinite, FS_RemoveElement
  <1>5. Cardinality(Live \ {w}) \in Nat
    BY <1>4, FS_CardinalityType
  <1>6. Cardinality(Live) >= 1
    BY ONLY <1>4, <1>5, LiveFinite, SMT
  <1>7. new.pc = "gone" => Cardinality(Live') = Cardinality(Live) - 1
    BY ONLY <1>3, <1>4
  <1> QED
    BY ONLY <1>2, <1>3, <1>6, <1>7

LEMMA LiveAfterStart ==
    ASSUME DOMAIN session = Workers, NEW n \in Nat, NEW at, at.pc # "gone", Good(at),
           SessionInv, StartWorkers(n, at)
    PROVE  /\ Cardinality(Live') = Cardinality(Live) + n
           /\ active' = active + n
           /\ session' \in [Workers -> Session]
           /\ \A w \in Workers : Good(session'[w])
  <1> DEFINE new == CHOOSE set \in SUBSET Idle : Cardinality(set) = n
  <1>1. /\ new \in SUBSET Idle /\ Cardinality(new) = n
        /\ session' = [w \in Workers |-> IF w \in new THEN at ELSE session[w]]
        /\ active' = active + n
    BY DEF StartWorkers
  <1> HIDE DEF new
  <1>2. new \subseteq Workers /\ new \cap Live = {} /\ IsFiniteSet(new)
    BY <1>1, EngineFacts, FS_Subset DEF Idle, Live
  <1>3. Live' = Live \cup new
    BY <1>1, <1>2 DEF Live
  <1>4. Live \cap new = {} /\ Cardinality(Live \cap new) = 0
    BY <1>2, FS_EmptySet
  <1>5. Cardinality(Live \cup new) = Cardinality(Live) + Cardinality(new) - Cardinality(Live \cap new)
    BY <1>2, LiveFinite, FS_Union
  <1>8. Cardinality(Live \cup new) = Cardinality(Live) + n
    BY <1>1, <1>4, <1>5, LiveFinite
  <1>6. \A w \in Workers : Good(session'[w])
    BY <1>1 DEF SessionInv
  <1>7. session' \in [Workers -> Session]
    BY <1>1, <1>6 DEF Good
  <1> QED
    BY <1>1, <1>3, <1>6, <1>7, <1>8

-----------------------------------------------------------------------------
(* The invariant                                                           *)

(* How many workers there are, by where the engine is. *)
LoadInv ==
    /\ active = Cardinality(Live)
    /\ engine = "start" => active = 0
    /\ engine = "loop" => profile # "flat_vu"
    /\ engine \in {"returning", "untripped", "done"} => active = 0
    /\ profile = "flat_vu" => active <= VUs
    /\ profile = "target_rps" => active <= MaxInflight
    /\ profile = "ramping" => \E i \in 1..stage : active <= Stages[i]

(* While nothing has stopped the run, the flat profile keeps its workers and
   target_rps its loop: only ramping comes to an end by itself. *)
EndInv ==
    ~Stopped =>
        /\ engine = "waiting" =>
               profile = "ramping" \/ (profile = "flat_vu" /\ active = VUs)
        /\ engine \in {"returning", "untripped"} => profile = "ramping"

(* Who has stopped the run. *)
StopInv ==
    /\ breaker.tripped => Stopped
    /\ parentDone => Stopped
    /\ cause = "parent" => parentDone
    /\ cause = "returned" => engine = "done"

(* An untripped breaker has no full streak. *)
StreakInv ==
    ~breaker.tripped => \A limit \in Limits : breaker.streaks[limit] < ConsecutiveBreaches

IInv ==
    /\ TypeOK /\ WindowShape /\ SessionInv
    /\ LoadInv /\ EndInv /\ StopInv /\ StreakInv
    /\ StatusIsEarned

(* TypeOK in parts. *)
BreakerType ==
    /\ breaker \in [streaks : [Limits -> 0..ConsecutiveBreaches], tripped : BOOLEAN]
    /\ evidence \in Seq(SUBSET Limits) /\ Len(evidence) <= ConsecutiveBreaches

SessionType ==
    /\ session \in [Workers -> Session]
    /\ \A w \in Workers : Len(session[w].history) <= MaxSteps

EngineType ==
    /\ profile \in Profiles
    /\ engine \in {"start", "loop", "waiting", "returning", "untripped", "done", "crashed"}
    /\ stage \in DOMAIN Stages /\ active \in 0..Cardinality(Workers)
    /\ sessions \in 0..MaxSessions

StopType ==
    /\ cause \in {"none", "elapsed", "parent", "tripped", "returned"}
    /\ parentDone \in BOOLEAN /\ tick \in BOOLEAN

MetricsType ==
    /\ metrics \in [requests : Nat, errors : Nat] /\ performed \in Nat
    /\ summary \in [status : {"none", "completed", "aborted_by_circuit_breaker",
                              "context_cancelled"}, requests : Nat, errors : Nat]

LEMMA TypeParts ==
    TypeOK <=> /\ WindowTypeOK /\ now < MaxSlices
               /\ BreakerType /\ SessionType /\ EngineType /\ StopType /\ MetricsType
  <1>1. now \in 0..(MaxSlices - 1) <=> now \in Nat /\ now < MaxSlices
    BY EngineFacts
  <1> QED
    BY <1>1 DEF TypeOK, WindowTypeOK, Buckets, BreakerType, SessionType, EngineType,
                StopType, MetricsType

LEMMA TypeNext ==
    ASSUME WindowTypeOK', (now < MaxSlices)', BreakerType', SessionType', EngineType',
           StopType', MetricsType'
    PROVE  TypeOK'
  <1>1. (now \in 0..(MaxSlices - 1))'
    BY EngineFacts DEF WindowTypeOK
  <1> QED
    BY <1>1 DEF TypeOK, WindowTypeOK, Buckets, BreakerType, SessionType, EngineType,
                StopType, MetricsType

LEMMA TypeWindow == TypeOK => WindowTypeOK
  BY TypeParts

LEMMA StageFacts ==
    ASSUME TypeOK
    PROVE  /\ stage \in Nat /\ stage >= 1 /\ stage <= Len(Stages) /\ Len(Stages) \in Nat
           /\ DOMAIN Stages = 1..Len(Stages)
           /\ \A i \in 1..Len(Stages) : Stages[i] \in Nat /\ Stages[i] <= Cardinality(Workers)
  <1>1. Len(Stages) \in Nat /\ DOMAIN Stages = 1..Len(Stages)
    BY EngineFacts
  <1>2. stage \in DOMAIN Stages
    BY TypeParts DEF EngineType
  <1>3. \A i \in DOMAIN Stages : Stages[i] \in 0..Cardinality(Workers)
    BY EngineFacts
  <1> QED
    BY <1>1, <1>2, <1>3, EngineFacts

LEMMA NoLive == ASSUME \A w \in Workers : session[w].pc = "gone" PROVE Cardinality(Live) = 0
  <1>1. Live = {}
    BY DEF Live
  <1> QED
    BY <1>1, FS_EmptySet

LEMMA InvInit == Init => IInv
  <1> SUFFICES ASSUME Init PROVE IInv
    OBVIOUS
  <1>1. WindowTypeOK /\ WindowShape
    BY WindowInit DEF Init
  <1>2. \A w \in Workers : session[w] = Gone
    BY DEF Init
  <1>3. SessionInv /\ session \in [Workers -> Session]
    BY <1>2, FreshSessions DEF SessionInv, Good, Init
  <1>4. Cardinality(Live) = 0
    BY <1>2, NoLive DEF Gone
  <1>5. Stages[1] \in Nat /\ 1 \in DOMAIN Stages
    BY EngineFacts
  <1>6. breaker = [streaks |-> [limit \in Limits |-> 0], tripped |-> FALSE] /\ evidence = <<>> /\ now = 0
    BY DEF Init, BreakerInit
  <1>7. TypeOK
    <2>1. now < MaxSlices
      BY <1>6, EngineFacts
    <2>2. BreakerType
      BY <1>6, BreakerFacts DEF BreakerType
    <2>3. SessionType
      BY <1>3 DEF SessionInv, Good, SessionType
    <2>4. EngineType
      <3>1. 0 \in 0..Cardinality(Workers) /\ 0 \in 0..MaxSessions
        BY EngineFacts
      <3> QED
        BY <1>5, <3>1 DEF Init, EngineType
    <2>6. StopType
      BY DEF Init, StopType
    <2>5. MetricsType
      BY DEF Init, MetricsType, NoSummary
    <2> QED
      BY <1>1, <2>1, <2>2, <2>3, <2>4, <2>5, <2>6, TypeParts
  <1>8. LoadInv
    BY <1>4, <1>5, EngineFacts DEF Init, LoadInv
  <1>9. EndInv /\ StopInv /\ StatusIsEarned
    BY <1>6 DEF Init, EndInv, StopInv, StatusIsEarned, Stopped
  <1>10. StreakInv
    BY <1>6, BreakerFacts DEF StreakInv
  <1> QED
    BY <1>1, <1>3, <1>7, <1>8, <1>9, <1>10 DEF IInv

-----------------------------------------------------------------------------
(* The steps of a worker                                                   *)

LEMMA AddMetricsType ==
    ASSUME metrics \in [requests : Nat, errors : Nat], NEW result, AddMetrics(result)
    PROVE  metrics' \in [requests : Nat, errors : Nat]
  BY DEF AddMetrics

LEMMA WorkerFrame ==
    ASSUME NEW w \in Workers, WorkerStep(w), ~Panic(w)
    PROVE  /\ UNCHANGED <<now, breaker, evidence, tick, profile, engine, stage>>
           /\ UNCHANGED <<cause, parentDone, summary>>
  <1>1. CASE TakeSession(w)
    BY <1>1 DEF TakeSession, watch, stop
  <1>2. CASE ExecuteStep(w)
    BY <1>2 DEF ExecuteStep, watch, stop, pool
  <1>3. CASE RecordStep(w)
    BY <1>3 DEF RecordStep, watch, stop, pool
  <1>4. CASE RecordInWindow(w)
    BY <1>4 DEF RecordInWindow, watch, stop, pool
  <1>5. CASE FinishSession(w)
    BY <1>5 DEF FinishSession, watch, stop
  <1> QED
    BY <1>1, <1>2, <1>3, <1>4, <1>5 DEF WorkerStep

LEMMA WorkerWindow ==
    ASSUME IInv, NEW w \in Workers, WorkerStep(w), ~Panic(w)
    PROVE  WindowTypeOK' /\ WindowShape'
  <1>1. WindowTypeOK /\ WindowShape /\ UNCHANGED now
    BY TypeWindow, WorkerFrame DEF IInv
  <1>2. CASE RecordInWindow(w)
    <2>1. Good(session[w]) /\ session[w].pc = "stamped"
      BY <1>2 DEF RecordInWindow, Is, IInv, SessionInv
    <2>2. session[w].stamp \in 0..now
      BY <1>1, <2>1 DEF Good, Session, WindowTypeOK
    <2> QED
      BY <1>1, <1>2, <2>2, RecordType DEF RecordInWindow
  <1>3. CASE ~RecordInWindow(w)
    <2>1. UNCHANGED <<buckets, measured>>
      BY <1>3 DEF WorkerStep, TakeSession, ExecuteStep, RecordStep, FinishSession,
                  telemetry, window
    <2> QED
      BY <1>1, <2>1 DEF WindowTypeOK, WindowShape
  <1> QED
    BY <1>2, <1>3

LEMMA WorkerMetrics ==
    ASSUME IInv, NEW w \in Workers, WorkerStep(w), ~Panic(w)
    PROVE  MetricsType' /\ sessions' \in 0..MaxSessions
  <1>1. MetricsType /\ sessions \in 0..MaxSessions /\ MaxSessions \in Nat
    BY TypeParts, EngineFacts DEF IInv, EngineType
  <1>2. summary' = summary
    BY WorkerFrame
  <1>3. CASE TakeSession(w)
    BY <1>1, <1>2, <1>3 DEF TakeSession, telemetry, MetricsType
  <1>4. CASE ExecuteStep(w)
    <2>1. PICK new : /\ session' = [session EXCEPT ![w] = new]
                     /\ Len(new.history) \in {Len(session[w].history), Len(session[w].history) + 1}
      BY <1>4, ExecuteGood DEF ExecuteStep, IInv, SessionInv
    <2>2. session'[w] = new /\ Len(session[w].history) \in Nat
      BY <2>1 DEF IInv, SessionInv, Good, TypeOK, Session
    <2>3. performed' = performed + Len(new.history) - Len(session[w].history)
      BY <1>4, <2>2 DEF ExecuteStep
    <2>4. performed' \in Nat
      BY <1>1, <2>1, <2>2, <2>3 DEF MetricsType
    <2> QED
      BY <1>1, <1>2, <1>4, <2>4 DEF ExecuteStep, pool, MetricsType
  <1>5. CASE RecordStep(w)
    <2>1. metrics' \in [requests : Nat, errors : Nat]
      BY <1>1, <1>5, AddMetricsType DEF RecordStep, MetricsType
    <2> QED
      BY <1>1, <1>2, <1>5, <2>1 DEF RecordStep, pool, MetricsType
  <1>6. CASE RecordInWindow(w)
    BY <1>1, <1>2, <1>6 DEF RecordInWindow, pool, MetricsType
  <1>7. CASE FinishSession(w)
    BY <1>1, <1>2, <1>7 DEF FinishSession, telemetry, MetricsType
  <1> QED
    BY <1>3, <1>4, <1>5, <1>6, <1>7 DEF WorkerStep

LEMMA PanicKeeps ==
    ASSUME IInv, NEW w \in Workers, Panic(w)
    PROVE  IInv'
  <1>1. /\ engine' = "crashed"
        /\ UNCHANGED <<now, breaker, evidence, tick, buckets, measured, metrics, performed>>
        /\ UNCHANGED <<session, profile, stage, active, sessions, cause, parentDone, summary>>
    BY DEF Panic, watch, telemetry, window, pool, stop
  <1>2. TypeOK'
    BY <1>1 DEF IInv, TypeOK
  <1>3. WindowShape' /\ SessionInv' /\ StreakInv'
    BY <1>1 DEF IInv, WindowShape, SessionInv, Good, StreakInv
  <1>4. LoadInv' /\ EndInv' /\ StatusIsEarned'
    BY <1>1 DEF IInv, LoadInv, EndInv, StatusIsEarned, Live, Stopped
  <1>5. StopInv'
    <2>1. w \in Live
      BY DEF Panic, Is, Live
    <2>2. cause # "returned"
      BY <2>1, LiveFinite, FS_EmptySet DEF IInv, StopInv, LoadInv
    <2> QED
      BY <1>1, <2>2 DEF IInv, StopInv, Stopped
  <1> QED
    BY <1>2, <1>3, <1>4, <1>5 DEF IInv

LEMMA WorkerKeeps ==
    ASSUME IInv, NEW w \in Workers, WorkerStep(w), ~Panic(w)
    PROVE  IInv'
  <1>1. /\ UNCHANGED <<now, breaker, evidence, tick, profile, engine, stage>>
        /\ UNCHANGED <<cause, parentDone, summary>>
    BY WorkerFrame
  <1>2. WindowTypeOK' /\ WindowShape'
    BY WorkerWindow
  <1>3. MetricsType' /\ sessions' \in 0..MaxSessions
    BY WorkerMetrics
  <1>4. now \in Nat /\ Good(session[w]) /\ session \in [Workers -> Session]
    BY DEF IInv, SessionInv, TypeOK
  <1>5. PICK new : /\ session' = [session EXCEPT ![w] = new]
                   /\ Good(new) /\ session[w].pc # "gone"
                   /\ Leaves(w, new) \/ Stays(w, new)
    BY <1>4, WorkerEffect
  <1>6. SessionInv' /\ SessionType'
    <2>1. \A v \in Workers : Good(session'[v])
      BY <1>4, <1>5 DEF IInv, SessionInv
    <2>2. SessionInv'
      BY <1>1, <2>1 DEF SessionInv, Good
    <2>3. session' \in [Workers -> Session]
      BY <1>4, <1>5 DEF Good
    <2> QED
      BY <2>1, <2>2, <2>3 DEF SessionType, Good
  <1>7. /\ active' = Cardinality(Live')
        /\ active' = active \/ (active' = active - 1 /\ active >= 1 /\ (Stopped \/ profile = "target_rps"))
    BY <1>4, <1>5, LiveAfterStep DEF IInv, LoadInv, Leaves, Stays
  <1>8. active \in Nat /\ active' \in Nat /\ active' <= Cardinality(Workers) /\ active' <= active
    <2>1. active \in Nat /\ active <= Cardinality(Workers)
      BY LiveFinite DEF IInv, LoadInv
    <2> QED
      BY <1>7, <2>1, EngineFacts
  <1>9. TypeOK'
    <2>1. WindowTypeOK' /\ now' < MaxSlices /\ BreakerType' /\ StopType'
      BY <1>1, <1>2, TypeParts DEF IInv, BreakerType, StopType
    <2>2. EngineType'
      BY <1>1, <1>3, <1>8, TypeParts, EngineFacts DEF IInv, EngineType
    <2> QED
      BY <1>3, <1>6, <2>1, <2>2, TypeNext
  <1>10. LoadInv'
    <2>1. profile = "ramping" => \E i \in 1..stage : active' <= Stages[i]
      BY <1>8, StageFacts DEF IInv, LoadInv
    <2> QED
      BY <1>1, <1>7, <1>8, <2>1, EngineFacts DEF IInv, LoadInv
  <1>11. EndInv'
    BY <1>1, <1>7 DEF IInv, EndInv, Stopped
  <1>12. StopInv' /\ StreakInv' /\ StatusIsEarned'
    BY <1>1 DEF IInv, StopInv, StreakInv, StatusIsEarned, Stopped
  <1> QED
    BY <1>2, <1>6, <1>9, <1>10, <1>11, <1>12 DEF IInv

-----------------------------------------------------------------------------
(* The steps of the engine                                                 *)

(* Steps that start, end and record nothing: they move the engine, or stop
   it. *)
LEMMA ControlKeeps ==
    ASSUME IInv, UNCHANGED <<now, breaker, evidence, buckets, measured, metrics, performed>>,
           UNCHANGED <<session, profile, active, sessions>>,
           EngineType', StopType', MetricsType', LoadInv', EndInv', StopInv', StatusIsEarned'
    PROVE  IInv'
  <1>1. WindowTypeOK' /\ (now < MaxSlices)' /\ BreakerType' /\ SessionType'
    BY TypeParts DEF IInv, WindowTypeOK, BreakerType, SessionType
  <1>2. TypeOK'
    BY <1>1, TypeNext
  <1>3. WindowShape' /\ SessionInv' /\ StreakInv'
    BY DEF IInv, WindowShape, SessionInv, Good, StreakInv
  <1> QED
    BY <1>2, <1>3 DEF IInv

LEMMA ProfileTypes == TypeOK => profile \in {"flat_vu", "target_rps", "ramping"}
  BY EngineFacts DEF TypeOK

LEMMA LoopKeeps ==
    ASSUME IInv, StartLoop \/ StopLoop
    PROVE  IInv'
  <1>1. /\ UNCHANGED <<now, breaker, evidence, buckets, measured, metrics, performed>>
        /\ UNCHANGED <<session, profile, active, sessions, stage, tick, cause, parentDone, summary>>
    BY DEF StartLoop, StopLoop, watch, telemetry, window, pool, stop
  <1>2. /\ engine \in {"start", "loop"} /\ engine' \in {"loop", "waiting"}
        /\ engine' = "loop" => profile # "flat_vu"
        /\ engine' = "waiting" => Stopped
    BY DEF StartLoop, StopLoop
  <1>3. EngineType' /\ StopType' /\ MetricsType'
    BY <1>1, <1>2, TypeParts DEF IInv, EngineType, StopType, MetricsType
  <1>4. LoadInv'
    BY <1>1, <1>2 DEF IInv, LoadInv, Live
  <1>5. EndInv' /\ StatusIsEarned'
    BY <1>1, <1>2 DEF IInv, EndInv, StatusIsEarned, Stopped
  <1>6. StopInv'
    BY <1>1, <1>2 DEF IInv, StopInv, Stopped
  <1> QED
    BY <1>1, <1>3, <1>4, <1>5, <1>6, ControlKeeps

LEMMA NextStageKeeps ==
    ASSUME IInv, NextStage
    PROVE  IInv'
  <1>1. /\ UNCHANGED <<now, breaker, evidence, buckets, measured, metrics, performed>>
        /\ UNCHANGED <<session, profile, active, sessions, tick, cause, parentDone, summary>>
    BY DEF NextStage, watch, telemetry, window, stop
  <1>2. /\ engine = "loop" /\ profile = "ramping"
        /\ engine' \in {"loop", "waiting"}
        /\ stage' \in 1..Len(Stages) /\ stage <= stage'
    BY StageFacts DEF NextStage, IInv
  <1>3. EngineType'
    BY <1>1, <1>2, TypeParts, StageFacts DEF IInv, EngineType
  <1>4. StopType' /\ MetricsType'
    BY <1>1, TypeParts DEF IInv, StopType, MetricsType
  <1>5. LoadInv'
    <2>1. PICK i \in 1..stage : active <= Stages[i]
      BY <1>2 DEF IInv, LoadInv
    <2>2. i \in 1..stage'
      BY <1>2, StageFacts DEF IInv
    <2> QED
      BY <1>1, <1>2, <2>1, <2>2 DEF IInv, LoadInv, Live
  <1>6. EndInv' /\ StatusIsEarned' /\ StopInv'
    BY <1>1, <1>2 DEF IInv, EndInv, StatusIsEarned, Stopped, StopInv
  <1> QED
    BY <1>1, <1>3, <1>4, <1>5, <1>6, ControlKeeps

(* The flat profile is waited for until something stops it: only then are
   its workers gone. *)
LEMMA PoolReturnsKeeps ==
    ASSUME IInv, PoolReturns
    PROVE  IInv'
  <1>1. /\ UNCHANGED <<now, breaker, evidence, buckets, measured, metrics, performed>>
        /\ UNCHANGED <<session, profile, active, sessions, stage, tick, cause, parentDone, summary>>
    BY DEF PoolReturns, watch, telemetry, window, pool, stop
  <1>2. engine = "waiting" /\ engine' = "returning" /\ active = 0
    BY DEF PoolReturns
  <1>3. EngineType' /\ StopType' /\ MetricsType'
    BY <1>1, <1>2, TypeParts DEF IInv, EngineType, StopType, MetricsType
  <1>4. LoadInv'
    BY <1>1, <1>2 DEF IInv, LoadInv, Live
  <1>5. EndInv'
    BY <1>1, <1>2, EngineFacts DEF IInv, EndInv, Stopped
  <1>6. StatusIsEarned' /\ StopInv'
    BY <1>1, <1>2 DEF IInv, StatusIsEarned, Stopped, StopInv
  <1> QED
    BY <1>1, <1>3, <1>4, <1>5, <1>6, ControlKeeps

LEMMA StoppedKeeps ==
    ASSUME IInv, DurationElapses \/ CallerCancels
    PROVE  IInv'
  <1>1. /\ UNCHANGED <<now, breaker, evidence, buckets, measured, metrics, performed>>
        /\ UNCHANGED <<session, profile, active, sessions, stage, tick, engine, summary>>
    BY DEF DurationElapses, CallerCancels, watch, telemetry, window, pool
  <1>2. /\ engine # "done" /\ Stopped' /\ (parentDone' = parentDone \/ parentDone' = TRUE)
        /\ cause' = cause \/ cause' = "elapsed" \/ (cause' = "parent" /\ parentDone')
    <2>1. CASE DurationElapses
      <3>1. engine # "done" /\ cause' = "elapsed"
        BY <2>1 DEF DurationElapses, Cancel, Stopped
      <3>2. parentDone' = parentDone
        BY <2>1 DEF DurationElapses
      <3>3. Stopped'
        BY <3>1 DEF Stopped
      <3> QED
        BY <3>1, <3>2, <3>3
    <2>2. CASE CallerCancels
      BY <2>2 DEF CallerCancels, Cancel, Stopped
    <2> QED
      BY <2>1, <2>2
  <1>3. EngineType' /\ MetricsType'
    BY <1>1, TypeParts DEF IInv, EngineType, MetricsType
  <1>4. StopType'
    BY <1>1, <1>2, TypeParts DEF IInv, StopType
  <1>5. LoadInv'
    BY <1>1 DEF IInv, LoadInv, Live
  <1>6. EndInv' /\ StatusIsEarned'
    BY <1>1, <1>2 DEF EndInv, StatusIsEarned
  <1>7. StopInv'
    BY <1>1, <1>2 DEF IInv, StopInv
  <1> QED
    BY <1>1, <1>3, <1>4, <1>5, <1>6, <1>7, ControlKeeps

(* What is returned, and why. *)
LEMMA ReturnKeeps ==
    ASSUME IInv, ReadTripped \/ ReadCause
    PROVE  IInv'
  <1>1. /\ UNCHANGED <<now, breaker, evidence, buckets, measured, metrics, performed>>
        /\ UNCHANGED <<session, profile, active, sessions, stage, tick, parentDone>>
    BY DEF ReadTripped, ReadCause, Return, watch, telemetry, window, pool, stop
  <1>2. /\ engine \in {"returning", "untripped"} /\ engine' \in {"untripped", "done"}
        /\ engine' = "untripped" => UNCHANGED <<cause, summary>>
    BY DEF ReadTripped, ReadCause, Return, stop
  <1>3. ASSUME engine' = "done"
        PROVE  /\ Stopped' /\ cause' = IF Stopped THEN cause ELSE "returned"
               /\ summary'.requests = metrics.requests /\ summary'.errors = metrics.errors
               /\ \/ summary'.status = "aborted_by_circuit_breaker"
                  \/ summary'.status = StatusOf
               /\ summary' = [status |-> summary'.status, requests |-> metrics.requests,
                              errors |-> metrics.errors]
    BY <1>3 DEF ReadTripped, ReadCause, Return, Cancel, Stopped
  <1>4. EngineType'
    BY <1>1, <1>2, TypeParts DEF IInv, EngineType
  <1>5. StopType'
    BY <1>1, <1>2, <1>3, TypeParts DEF IInv, StopType
  <1>6. MetricsType'
    BY <1>1, <1>2, <1>3, TypeParts DEF IInv, MetricsType, StatusOf
  <1>7. LoadInv'
    BY <1>1, <1>2 DEF IInv, LoadInv, Live
  <1>8. EndInv'
    BY <1>1, <1>2, <1>3 DEF IInv, EndInv, Stopped
  <1>9. StopInv'
    BY <1>1, <1>2, <1>3 DEF IInv, StopInv, Stopped
  <1>10. StatusIsEarned'
    <2> SUFFICES ASSUME engine' = "done" PROVE StatusIsEarned'
      BY DEF StatusIsEarned
    <2>1. cause \in {"none", "elapsed", "parent", "tripped"}
      BY <1>2, TypeParts DEF IInv, StopType, StopInv
    <2>2. /\ parentDone => Stopped
          /\ cause = "parent" => parentDone
          /\ ~Stopped => profile = "ramping"
      BY <1>2 DEF IInv, StopInv, EndInv
    <2> QED
      BY <1>1, <1>3, <2>1, <2>2 DEF StatusIsEarned, StatusOf, Stopped
  <1> QED
    BY <1>1, <1>4, <1>5, <1>6, <1>7, <1>8, <1>9, <1>10, ControlKeeps

-----------------------------------------------------------------------------
(* Steps that start workers, record without one, or are time               *)

LEMMA StartKeeps ==
    ASSUME IInv, NEW n \in Nat, NEW at, at \in {Ready, NewSession}, StartWorkers(n, at),
           UNCHANGED <<now, breaker, evidence, buckets, measured, metrics, performed>>,
           UNCHANGED <<profile, stage, tick, cause, parentDone, summary>>,
           sessions' \in 0..MaxSessions, engine' \in {"loop", "waiting"},
           engine' = "loop" => profile # "flat_vu",
           engine' = "waiting" => profile = "flat_vu" /\ active + n = VUs,
           engine \in {"start", "loop"},
           profile = "flat_vu" => active + n <= VUs,
           profile = "target_rps" => active + n <= MaxInflight,
           profile = "ramping" => \E i \in 1..stage : active + n <= Stages[i]
    PROVE  IInv'
  <1>1. Good(at) /\ at.pc # "gone"
    BY FreshSessions DEF Gone, Ready, NewSession
  <1>2. DOMAIN session = Workers /\ SessionInv
    BY DEF IInv, TypeOK
  <1>3. /\ Cardinality(Live') = Cardinality(Live) + n /\ active' = active + n
        /\ session' \in [Workers -> Session] /\ \A w \in Workers : Good(session'[w])
    BY <1>1, <1>2, LiveAfterStart
  <1>4. active' = Cardinality(Live') /\ active' \in 0..Cardinality(Workers)
    <2>1. Live' \in SUBSET Workers
      BY DEF Live
    <2>2. /\ Cardinality(Live') \in Nat /\ Cardinality(Live') <= Cardinality(Workers)
      BY <2>1, EngineFacts, FS_Subset, FS_CardinalityType
    <2> QED
      BY <1>3, <2>2, EngineFacts DEF IInv, LoadInv
  <1>5. SessionInv'
    BY <1>3 DEF SessionInv, Good
  <1>6. SessionType'
    BY <1>3 DEF SessionType, Good
  <1>7. EngineType'
    BY <1>4, TypeParts DEF IInv, EngineType
  <1>8. /\ WindowTypeOK' /\ (now < MaxSlices)' /\ BreakerType' /\ StopType' /\ MetricsType'
        /\ WindowShape'
    BY TypeParts DEF IInv, WindowTypeOK, BreakerType, StopType, MetricsType, WindowShape
  <1>9. LoadInv'
    BY <1>3, <1>4 DEF LoadInv
  <1>10. EndInv'
    BY <1>3 DEF EndInv, Stopped
  <1>11. StopInv' /\ StreakInv' /\ StatusIsEarned'
    BY DEF IInv, StopInv, StreakInv, StatusIsEarned, Stopped
  <1>12. TypeOK'
    BY <1>6, <1>7, <1>8, TypeNext
  <1> QED
    BY <1>5, <1>8, <1>9, <1>10, <1>11, <1>12 DEF IInv

LEMMA RunFlatKeeps == ASSUME IInv, RunFlatVU PROVE IInv'
  <1>1. /\ StartWorkers(VUs, Ready) /\ engine = "start" /\ engine' = "waiting"
        /\ profile = "flat_vu"
        /\ UNCHANGED <<now, breaker, evidence, buckets, measured, metrics, performed>>
        /\ UNCHANGED <<profile, stage, tick, cause, parentDone, summary, sessions>>
    BY DEF RunFlatVU, watch, telemetry, window, stop
  <1>2. active = 0 /\ VUs \in Nat /\ sessions \in 0..MaxSessions
    BY <1>1, EngineFacts, TypeParts DEF IInv, LoadInv, EngineType
  <1> QED
    BY <1>1, <1>2, StartKeeps

LEMMA LaunchKeeps == ASSUME IInv, LaunchSession PROVE IInv'
  <1>1. /\ StartWorkers(1, NewSession) /\ engine = "loop" /\ engine' = "loop"
        /\ profile = "target_rps" /\ active < MaxInflight
        /\ sessions < MaxSessions /\ sessions' = sessions + 1
        /\ UNCHANGED <<now, breaker, evidence, buckets, measured, metrics, performed>>
        /\ UNCHANGED <<profile, stage, tick, cause, parentDone, summary>>
    BY DEF LaunchSession, watch, telemetry, window, stop
  <1>2. active \in Nat /\ sessions \in 0..MaxSessions
    BY LiveFinite, TypeParts DEF IInv, LoadInv, EngineType
  <1>3. active + 1 <= MaxInflight /\ sessions' \in 0..MaxSessions
    BY <1>1, <1>2, EngineFacts
  <1> QED
    BY <1>1, <1>3, StartKeeps

(* The interpolation stays between the targets of two stages. *)
LEMMA RampTarget ==
    ASSUME TypeOK, NEW target \in RampTargets
    PROVE  target \in Nat /\ (target = 0 \/ \E i \in 1..stage : target <= Stages[i])
  <1> DEFINE from == IF stage = 1 THEN 0 ELSE Stages[stage - 1]
             to == Stages[stage]
  <1>1. to \in Nat /\ stage \in 1..stage /\ to <= Stages[stage]
    BY StageFacts
  <1>2. from \in Nat /\ (from = 0 \/ \E i \in 1..stage : from <= Stages[i])
    <2>1. CASE stage = 1
      BY <2>1
    <2>2. CASE stage # 1
      <3>1. stage - 1 \in 1..stage /\ stage - 1 \in 1..Len(Stages)
        BY <2>2, StageFacts
      <3> QED
        BY <2>2, <3>1, StageFacts
    <2> QED
      BY <2>1, <2>2
  <1>3. target \in IF from <= to THEN {from} \cup from..(to - 1) ELSE to..from
    BY DEF RampTargets
  <1> HIDE DEF from, to
  <1>4. target \in Nat /\ (target <= to \/ target <= from)
    BY <1>1, <1>2, <1>3
  <1>5. CASE target <= to
    BY <1>1, <1>4, <1>5, StageFacts DEF to
  <1>6. CASE target <= from
    BY <1>2, <1>4, <1>6, StageFacts
  <1> QED
    BY <1>4, <1>5, <1>6

LEMMA RampUpKeeps == ASSUME IInv, RampUp PROVE IInv'
  <1>1. PICK target \in RampTargets :
            WorkersWanted(target) > 0 /\ StartWorkers(WorkersWanted(target), Ready)
    BY DEF RampUp
  <1>2. /\ engine = "loop" /\ engine' = "loop" /\ profile = "ramping"
        /\ UNCHANGED <<now, breaker, evidence, buckets, measured, metrics, performed>>
        /\ UNCHANGED <<profile, stage, tick, cause, parentDone, summary, sessions>>
    BY DEF RampUp, watch, telemetry, window, stop
  <1>3. /\ active \in Nat /\ sessions \in 0..MaxSessions
        /\ target \in Nat /\ (target = 0 \/ \E i \in 1..stage : target <= Stages[i])
    BY LiveFinite, TypeParts, RampTarget DEF IInv, LoadInv, EngineType
  <1>4. target > active /\ WorkersWanted(target) \in Nat /\ active + WorkersWanted(target) = target
    BY <1>1, <1>3 DEF WorkersWanted
  <1>5. \E i \in 1..stage : active + WorkersWanted(target) <= Stages[i]
    BY <1>3, <1>4
  <1> QED
    BY <1>1, <1>2, <1>3, <1>4, <1>5, StartKeeps

LEMMA DropKeeps == ASSUME IInv, DropSession PROVE IInv'
  <1>1. /\ WindowRecord(now, "error") /\ AddMetrics("error")
        /\ performed' = performed + 1
        /\ sessions < MaxSessions /\ sessions' = sessions + 1
        /\ UNCHANGED <<now, breaker, evidence, session, profile, engine, stage, active, tick>>
        /\ UNCHANGED <<cause, parentDone, summary>>
    BY DEF DropSession, watch, stop
  <1>2. WindowTypeOK' /\ WindowShape'
    <2>1. WindowTypeOK /\ WindowShape /\ now \in 0..now
      BY TypeWindow DEF IInv, WindowTypeOK
    <2> QED
      BY <1>1, <2>1, RecordType
  <1>3. MetricsType'
    BY <1>1, AddMetricsType, TypeParts DEF IInv, MetricsType
  <1>4. EngineType'
    <2>1. sessions' \in 0..MaxSessions
      BY <1>1, TypeParts, EngineFacts DEF IInv, EngineType
    <2> QED
      BY <1>1, <2>1, TypeParts DEF IInv, EngineType
  <1>5. (now < MaxSlices)' /\ BreakerType' /\ SessionType' /\ StopType'
    BY <1>1, TypeParts DEF IInv, BreakerType, SessionType, StopType
  <1>6. TypeOK'
    BY <1>2, <1>3, <1>4, <1>5, TypeNext
  <1>7. SessionInv' /\ StreakInv' /\ StopInv' /\ StatusIsEarned'
    BY <1>1 DEF IInv, SessionInv, Good, StreakInv, StopInv, StatusIsEarned, Stopped
  <1>8. LoadInv' /\ EndInv'
    BY <1>1 DEF IInv, LoadInv, EndInv, Live, Stopped
  <1> QED
    BY <1>2, <1>6, <1>7, <1>8 DEF IInv

LEMMA TickKeeps == ASSUME IInv, Tick PROVE IInv'
  <1>1. /\ now' = now + 1 /\ now + 1 < MaxSlices /\ tick' = TRUE
        /\ measured' = Append(measured, NoCounts)
        /\ \A w \in Workers : Is(w, "stamped") => now + 1 - session[w].stamp <= MaxDelay
        /\ UNCHANGED <<buckets, breaker, evidence, metrics, performed, session, profile, engine>>
        /\ UNCHANGED <<stage, active, sessions, cause, parentDone, summary>>
    BY DEF Tick, pool, stop
  <1>2. WindowTypeOK' /\ WindowShape'
    <2>1. WindowTypeOK /\ WindowShape
      BY TypeWindow DEF IInv
    <2> QED
      BY <1>1, <2>1, TickWindow
  <1>3. SessionInv'
    <2> SUFFICES ASSUME NEW w \in Workers PROVE Good(session[w])'
      BY <1>1 DEF SessionInv
    <2>1. Good(session[w]) /\ now \in Nat /\ session[w].stamp \in Nat
      BY DEF IInv, SessionInv, TypeOK, Good, Session
    <2> QED
      BY <1>1, <2>1 DEF Good, Is
  <1>4. /\ BreakerType' /\ SessionType' /\ EngineType' /\ StopType' /\ MetricsType'
        /\ (now < MaxSlices)'
    BY <1>1, TypeParts DEF IInv, BreakerType, SessionType, EngineType, StopType, MetricsType
  <1>5. TypeOK'
    BY <1>2, <1>4, TypeNext
  <1>6. StreakInv' /\ StopInv' /\ StatusIsEarned'
    BY <1>1 DEF IInv, StreakInv, StopInv, StatusIsEarned, Stopped
  <1>7. LoadInv' /\ EndInv'
    BY <1>1 DEF IInv, LoadInv, EndInv, Live, Stopped
  <1> QED
    BY <1>2, <1>3, <1>5, <1>6, <1>7 DEF IInv

LEMMA EvaluateType ==
    ASSUME BreakerType, StreakInv, Evaluate
    PROVE  BreakerType' /\ StreakInv'
  <1> DEFINE streaks == Streaks(Breached(Stats))
             true == Breached(TrueStats)
             all == Append(evidence, true)
  <1>1. /\ ~breaker.tripped
        /\ breaker' = [streaks |-> streaks, tripped |-> Trips(streaks)]
        /\ evidence' = IF Len(all) > ConsecutiveBreaches THEN Tail(all) ELSE all
    BY DEF Evaluate
  <1>2. streaks \in [Limits -> 0..ConsecutiveBreaches]
    <2>1. \A limit \in Limits : /\ breaker.streaks[limit] \in Nat
                                /\ breaker.streaks[limit] + 1 \in 0..ConsecutiveBreaches
      BY <1>1, BreakerFacts DEF BreakerType, StreakInv
    <2>2. 0 \in 0..ConsecutiveBreaches
      BY BreakerFacts
    <2> QED
      BY <2>1, <2>2 DEF Streaks
  <1>3. true \in SUBSET Limits
    BY DEF Breached
  <1> HIDE DEF streaks, true
  <1>4. Trips(streaks) \in BOOLEAN
    BY DEF Trips
  <1>5. breaker' \in [streaks : [Limits -> 0..ConsecutiveBreaches], tripped : BOOLEAN]
    BY <1>1, <1>2, <1>4
  <1>6. evidence' \in Seq(SUBSET Limits) /\ Len(evidence') <= ConsecutiveBreaches
    <2>1. all \in Seq(SUBSET Limits) /\ Len(all) = Len(evidence) + 1 /\ Len(evidence) \in Nat
      BY <1>3 DEF BreakerType
    <2> HIDE DEF all
    <2> QED
      BY <1>1, <2>1, BreakerFacts DEF BreakerType
  <1>7. StreakInv'
    <2>1. ~Trips(streaks) => \A limit \in Limits : streaks[limit] < ConsecutiveBreaches
      BY <1>2, BreakerFacts DEF Trips
    <2> QED
      BY <1>1, <2>1 DEF StreakInv
  <1> QED
    BY <1>5, <1>6, <1>7 DEF BreakerType

LEMMA MonitorKeeps == ASSUME IInv, MonitorEvaluates PROVE IInv'
  <1>1. /\ engine # "done" /\ tick' = FALSE
        /\ UNCHANGED <<now, buckets, measured, metrics, performed, session, profile, engine>>
        /\ UNCHANGED <<stage, active, sessions, parentDone, summary>>
        /\ IF breaker.tripped THEN UNCHANGED <<breaker, evidence>> ELSE Evaluate
        /\ IF breaker'.tripped THEN cause' = (IF Stopped THEN cause ELSE "tripped")
                               ELSE cause' = cause
    BY DEF MonitorEvaluates, Cancel, telemetry, window, pool
  <1>2. BreakerType' /\ StreakInv'
    <2>1. BreakerType /\ StreakInv
      BY TypeParts DEF IInv
    <2>2. CASE breaker.tripped
      BY <1>1, <2>1, <2>2 DEF BreakerType, StreakInv
    <2>3. CASE ~breaker.tripped
      BY <1>1, <2>1, <2>3, EvaluateType
    <2> QED
      BY <2>2, <2>3
  <1>3. /\ WindowTypeOK' /\ WindowShape' /\ (now < MaxSlices)'
        /\ SessionType' /\ EngineType' /\ MetricsType'
    BY <1>1, TypeParts
       DEF IInv, WindowTypeOK, WindowShape, SessionType, EngineType, MetricsType
  <1>4. StopType'
    BY <1>1, TypeParts DEF IInv, StopType
  <1>5. TypeOK'
    BY <1>2, <1>3, <1>4, TypeNext
  <1>6. SessionInv' /\ LoadInv' /\ StatusIsEarned'
    BY <1>1 DEF IInv, SessionInv, Good, LoadInv, Live, StatusIsEarned
  <1>7. EndInv' /\ StopInv'
    BY <1>1 DEF IInv, EndInv, StopInv, Stopped
  <1> QED
    BY <1>2, <1>3, <1>5, <1>6, <1>7 DEF IInv

-----------------------------------------------------------------------------
(* The accounts of a run: every step that was carried out is in a session  *)
(* that has yet to report it, or in the metrics; and every result in the   *)
(* metrics is in its slice, or with a worker that is halfway.              *)

Owed(s) == IF s.pc = "stamped" THEN Len(s.history) - 1 ELSE Len(s.history)
Halfway(s) == IF s.pc = "stamped" THEN 1 ELSE 0
HalfwayError(s) == IF s.pc = "stamped" /\ IsError(Head(s.history)) THEN 1 ELSE 0

Outstanding == SumFunctionOnSet([w \in Workers |-> Owed(session[w])], Workers)
HalfwayResults == SumFunctionOnSet([w \in Workers |-> Halfway(session[w])], Workers)
HalfwayErrors == SumFunctionOnSet([w \in Workers |-> HalfwayError(session[w])], Workers)

SliceRequests == SumFunctionOnSet([s \in 0..now |-> measured[s + 1].requests], 0..now)
SliceErrors == SumFunctionOnSet([s \in 0..now |-> measured[s + 1].errors], 0..now)

AccountInv ==
    /\ \A w \in Workers : session[w].pc \in {"gone", "ready"} => session[w].history = <<>>
    /\ performed = metrics.requests + Outstanding
    /\ metrics.requests = SliceRequests + HalfwayResults
    /\ metrics.errors = SliceErrors + HalfwayErrors
    /\ engine = "done" => summary.requests = metrics.requests /\ summary.errors = metrics.errors

LEMMA Weights ==
    ASSUME NEW s, Good(s)
    PROVE  /\ Owed(s) \in Nat /\ Halfway(s) \in Nat /\ HalfwayError(s) \in Nat
           /\ s.history = <<>> => Owed(s) = 0 /\ Halfway(s) = 0 /\ HalfwayError(s) = 0
  <1>1. s.history \in Seq(Outcomes)
    BY DEF Good, Session
  <1>2. Len(s.history) \in Nat /\ (s.history # <<>> => Len(s.history) >= 1)
    BY <1>1
  <1>3. s.pc = "stamped" => s.history # <<>>
    BY DEF Good
  <1>4. s.history = <<>> => Len(s.history) = 0
    OBVIOUS
  <1> QED
    BY <1>2, <1>3, <1>4 DEF Owed, Halfway, HalfwayError

LEMMA AccountTypes ==
    ASSUME SessionInv
    PROVE  Outstanding \in Nat /\ HalfwayResults \in Nat /\ HalfwayErrors \in Nat
  <1>1. \A w \in Workers : /\ Owed(session[w]) \in Nat /\ Halfway(session[w]) \in Nat
                           /\ HalfwayError(session[w]) \in Nat
    BY Weights DEF SessionInv
  <1> QED
    BY <1>1, EngineFacts, SumType DEF Outstanding, HalfwayResults, HalfwayErrors

(* A worker's step changes the sums by what it changes of its session. *)
LEMMA AccountStep ==
    ASSUME SessionInv, DOMAIN session = Workers, NEW w \in Workers, NEW new, Good(new),
           session' = [session EXCEPT ![w] = new]
    PROVE  /\ Outstanding' = Outstanding - Owed(session[w]) + Owed(new)
           /\ HalfwayResults' = HalfwayResults - Halfway(session[w]) + Halfway(new)
           /\ HalfwayErrors' = HalfwayErrors - HalfwayError(session[w]) + HalfwayError(new)
  <1>0. IsFiniteSet(Workers)
    BY EngineFacts
  <1>1. \A v \in Workers : session'[v] = IF v = w THEN new ELSE session[v]
    OBVIOUS
  <1>2. \A v \in Workers : Good(session[v]) /\ Good(session'[v])
    BY <1>1 DEF SessionInv
  <1>3. \A v \in Workers : /\ Owed(session[v]) \in Nat /\ Owed(session'[v]) \in Nat
                           /\ Halfway(session[v]) \in Nat /\ Halfway(session'[v]) \in Nat
                           /\ HalfwayError(session[v]) \in Nat /\ HalfwayError(session'[v]) \in Nat
    BY <1>2, Weights
  <1>4. Outstanding' = Outstanding - Owed(session[w]) + Owed(new)
    <2> DEFINE f == [v \in Workers |-> Owed(session[v])]
               g == [v \in Workers |-> Owed(session'[v])]
    <2>1. \A v \in Workers : f[v] \in Nat /\ g[v] \in Nat
      BY <1>3
    <2>2. \A v \in Workers \ {w} : g[v] = f[v]
      BY <1>1
    <2>3. f[w] = Owed(session[w]) /\ g[w] = Owed(new)
      BY <1>1
    <2>4. Outstanding = SumFunctionOnSet(f, Workers) /\ Outstanding' = SumFunctionOnSet(g, Workers)
      BY DEF Outstanding
    <2> HIDE DEF f, g
    <2>5. SumFunctionOnSet(g, Workers) = SumFunctionOnSet(f, Workers) - f[w] + g[w]
      BY ONLY <2>1, <2>2, <1>0, SumChanged, w \in Workers
    <2> QED
      BY <2>3, <2>4, <2>5
  <1>5. HalfwayResults' = HalfwayResults - Halfway(session[w]) + Halfway(new)
    <2> DEFINE f == [v \in Workers |-> Halfway(session[v])]
               g == [v \in Workers |-> Halfway(session'[v])]
    <2>1. \A v \in Workers : f[v] \in Nat /\ g[v] \in Nat
      BY <1>3
    <2>2. \A v \in Workers \ {w} : g[v] = f[v]
      BY <1>1
    <2>3. f[w] = Halfway(session[w]) /\ g[w] = Halfway(new)
      BY <1>1
    <2>4. HalfwayResults = SumFunctionOnSet(f, Workers) /\ HalfwayResults' = SumFunctionOnSet(g, Workers)
      BY DEF HalfwayResults
    <2> HIDE DEF f, g
    <2>5. SumFunctionOnSet(g, Workers) = SumFunctionOnSet(f, Workers) - f[w] + g[w]
      BY ONLY <2>1, <2>2, <1>0, SumChanged, w \in Workers
    <2> QED
      BY <2>3, <2>4, <2>5
  <1>6. HalfwayErrors' = HalfwayErrors - HalfwayError(session[w]) + HalfwayError(new)
    <2> DEFINE f == [v \in Workers |-> HalfwayError(session[v])]
               g == [v \in Workers |-> HalfwayError(session'[v])]
    <2>1. \A v \in Workers : f[v] \in Nat /\ g[v] \in Nat
      BY <1>3
    <2>2. \A v \in Workers \ {w} : g[v] = f[v]
      BY <1>1
    <2>3. f[w] = HalfwayError(session[w]) /\ g[w] = HalfwayError(new)
      BY <1>1
    <2>4. HalfwayErrors = SumFunctionOnSet(f, Workers) /\ HalfwayErrors' = SumFunctionOnSet(g, Workers)
      BY DEF HalfwayErrors
    <2> HIDE DEF f, g
    <2>5. SumFunctionOnSet(g, Workers) = SumFunctionOnSet(f, Workers) - f[w] + g[w]
      BY ONLY <2>1, <2>2, <1>0, SumChanged, w \in Workers
    <2> QED
      BY <2>3, <2>4, <2>5
  <1> QED
    BY <1>4, <1>5, <1>6

(* A worker that is started owes nothing, like the idle one it takes the   *)
(* place of.                                                               *)
LEMMA AccountStart ==
    ASSUME AccountInv, SessionInv, NEW n \in Nat, NEW at, at.pc # "stamped", at.history = <<>>,
           StartWorkers(n, at)
    PROVE  /\ Outstanding' = Outstanding /\ HalfwayResults' = HalfwayResults
           /\ HalfwayErrors' = HalfwayErrors
           /\ \A w \in Workers : session'[w].pc \in {"gone", "ready"} => session'[w].history = <<>>
  <1>1. PICK new : /\ new \subseteq Idle
                   /\ session' = [w \in Workers |-> IF w \in new THEN at ELSE session[w]]
    BY DEF StartWorkers
  <1>2. \A w \in new : session[w].pc = "gone" /\ session[w].history = <<>> /\ w \in Workers
    BY <1>1 DEF Idle, AccountInv
  <1>3. \A w \in Workers : /\ Owed(session'[w]) = Owed(session[w])
                           /\ Halfway(session'[w]) = Halfway(session[w])
                           /\ HalfwayError(session'[w]) = HalfwayError(session[w])
    BY <1>1, <1>2 DEF Owed, Halfway, HalfwayError
  <1>4. \A w \in Workers : session'[w].pc \in {"gone", "ready"} => session'[w].history = <<>>
    BY <1>1 DEF AccountInv
  <1>5. /\ [w \in Workers |-> Owed(session'[w])] = [w \in Workers |-> Owed(session[w])]
        /\ [w \in Workers |-> Halfway(session'[w])] = [w \in Workers |-> Halfway(session[w])]
        /\ [w \in Workers |-> HalfwayError(session'[w])] = [w \in Workers |-> HalfwayError(session[w])]
    BY <1>3
  <1> QED
    BY <1>4, <1>5 DEF Outstanding, HalfwayResults, HalfwayErrors

LEMMA SliceTypes ==
    ASSUME WindowTypeOK
    PROVE  /\ IsFiniteSet(0..now) /\ SliceRequests \in Nat /\ SliceErrors \in Nat
           /\ \A s \in 0..now : /\ measured[s + 1] \in Counts
                                /\ measured[s + 1].requests \in Nat /\ measured[s + 1].errors \in Nat
  <1>1. \A s \in 0..now : measured[s + 1] \in Counts
    BY DEF WindowTypeOK
  <1>2. \A s \in 0..now : measured[s + 1].requests \in Nat /\ measured[s + 1].errors \in Nat
    BY <1>1 DEF Counts
  <1>3. IsFiniteSet(0..now)
    BY FS_Interval DEF WindowTypeOK
  <1> QED
    BY <1>1, <1>2, <1>3, SumType DEF SliceRequests, SliceErrors

(* A result adds one to its slice. *)
LEMMA SliceRecord ==
    ASSUME WindowTypeOK, NEW slice \in 0..now, NEW result, WindowRecord(slice, result), UNCHANGED now
    PROVE  /\ SliceRequests' = SliceRequests + 1
           /\ SliceErrors' = SliceErrors + (IF IsError(result) THEN 1 ELSE 0)
  <1> DEFINE c == measured[slice + 1]
             one == IF IsError(result) THEN 1 ELSE 0
  <1>1. /\ c \in Counts /\ c.requests \in Nat /\ c.errors \in Nat /\ IsFiniteSet(0..now)
        /\ slice + 1 \in DOMAIN measured
    BY SliceTypes DEF WindowTypeOK
  <1>2. /\ measured'[slice + 1] = AddResult(c, result)
        /\ \A s \in (0..now) \ {slice} : measured'[s + 1] = measured[s + 1]
    BY <1>1 DEF WindowRecord, WindowTypeOK
  <1>3. /\ AddResult(c, result).requests = c.requests + 1
        /\ AddResult(c, result).errors = c.errors + one /\ one \in Nat
    BY DEF AddResult
  <1> HIDE DEF one
  <1>4. SliceRequests' = SliceRequests + 1
    <2> DEFINE f == [s \in 0..now |-> measured[s + 1].requests]
               g == [s \in 0..now |-> measured'[s + 1].requests]
    <2>1. \A s \in (0..now) \ {slice} : g[s] = f[s]
      BY <1>2
    <2>2. f[slice] = c.requests /\ g[slice] = c.requests + 1
      BY <1>2, <1>3
    <2>3. \A s \in 0..now : f[s] \in Nat /\ g[s] \in Nat
      <3>1. \A s \in 0..now : f[s] \in Nat
        BY SliceTypes
      <3> HIDE DEF f, g, c
      <3> QED
        BY <1>1, <2>1, <2>2, <3>1
    <2>4. SliceRequests = SumFunctionOnSet(f, 0..now) /\ SliceRequests' = SumFunctionOnSet(g, 0..now)
      BY DEF SliceRequests
    <2> HIDE DEF f, g, c
    <2>6. SumFunctionOnSet(g, 0..now) = SumFunctionOnSet(f, 0..now) - f[slice] + g[slice]
      <3> DEFINE S == 0..now
      <3> DEFINE x == slice
      <3>1. IsFiniteSet(S) /\ x \in S
        BY <1>1
      <3>2. \A s \in S : f[s] \in Nat /\ g[s] \in Nat
        BY <2>3
      <3>3. \A s \in S \ {x} : g[s] = f[s]
        BY <2>1
      <3> HIDE DEF S, x
      <3>4. SumFunctionOnSet(g, S) = SumFunctionOnSet(f, S) - f[x] + g[x]
        BY ONLY <3>1, <3>2, <3>3, SumChanged
      <3> QED
        BY <3>4 DEF S, x
    <2>5. SliceRequests' = SliceRequests - c.requests + (c.requests + 1)
      BY <2>2, <2>4, <2>6
    <2> QED
      BY <1>1, <2>5, SliceTypes
  <1>5. SliceErrors' = SliceErrors + one
    <2> DEFINE f == [s \in 0..now |-> measured[s + 1].errors]
               g == [s \in 0..now |-> measured'[s + 1].errors]
    <2>1. \A s \in (0..now) \ {slice} : g[s] = f[s]
      BY <1>2
    <2>2. f[slice] = c.errors /\ g[slice] = c.errors + one
      BY <1>2, <1>3
    <2>3. \A s \in 0..now : f[s] \in Nat /\ g[s] \in Nat
      <3>1. \A s \in 0..now : f[s] \in Nat
        BY SliceTypes
      <3> HIDE DEF f, g, c
      <3> QED
        BY <1>1, <1>3, <2>1, <2>2, <3>1
    <2>4. SliceErrors = SumFunctionOnSet(f, 0..now) /\ SliceErrors' = SumFunctionOnSet(g, 0..now)
      BY DEF SliceErrors
    <2> HIDE DEF f, g, c
    <2>6. SumFunctionOnSet(g, 0..now) = SumFunctionOnSet(f, 0..now) - f[slice] + g[slice]
      <3> DEFINE S == 0..now
      <3> DEFINE x == slice
      <3>1. IsFiniteSet(S) /\ x \in S
        BY <1>1
      <3>2. \A s \in S : f[s] \in Nat /\ g[s] \in Nat
        BY <2>3
      <3>3. \A s \in S \ {x} : g[s] = f[s]
        BY <2>1
      <3> HIDE DEF S, x
      <3>4. SumFunctionOnSet(g, S) = SumFunctionOnSet(f, S) - f[x] + g[x]
        BY ONLY <3>1, <3>2, <3>3, SumChanged
      <3> QED
        BY <3>4 DEF S, x
    <2>5. SliceErrors' = SliceErrors - c.errors + (c.errors + one)
      BY <2>2, <2>4, <2>6
    <2> QED
      BY <1>1, <1>3, <2>5, SliceTypes
  <1> QED
    BY <1>4, <1>5 DEF one

(* A slice begins without results. *)
LEMMA SliceTick ==
    ASSUME WindowTypeOK, now' = now + 1, measured' = Append(measured, NoCounts)
    PROVE  SliceRequests' = SliceRequests /\ SliceErrors' = SliceErrors
  <1>1. /\ now \in Nat /\ 0..(now + 1) = (0..now) \cup {now + 1} /\ now + 1 \notin 0..now
        /\ IsFiniteSet(0..now) /\ IsFiniteSet(0..(now + 1))
    <2>1. now \in Nat /\ now \in Int /\ now + 1 \in Int /\ 0 \in Int
      BY DEF WindowTypeOK
    <2>2. IsFiniteSet(0..now) /\ IsFiniteSet(0..(now + 1))
      BY <2>1, FS_Interval
    <2>3. 0..(now + 1) = (0..now) \cup {now + 1} /\ now + 1 \notin 0..now
      BY <2>1
    <2> QED
      BY <2>1, <2>2, <2>3
  <1>2. /\ \A s \in 0..now : measured'[s + 1] = measured[s + 1]
        /\ measured'[(now + 1) + 1] = NoCounts
    BY <1>1 DEF WindowTypeOK
  <1>3. NoCounts.requests = 0 /\ NoCounts.errors = 0
    BY DEF NoCounts
  <1>4. SliceRequests' = SliceRequests
    <2> DEFINE f == [s \in 0..now |-> measured[s + 1].requests]
               g == [s \in 0..(now + 1) |-> measured'[s + 1].requests]
    <2>1. \A s \in 0..now : f[s] \in Nat /\ f[s] = g[s]
      BY <1>1, <1>2, SliceTypes
    <2>2. g[now + 1] = 0
      BY <1>1, <1>2, <1>3
    <2>3. SliceRequests = SumFunctionOnSet(f, 0..now) /\ SliceRequests' = SumFunctionOnSet(g, 0..(now + 1))
      BY DEF SliceRequests
    <2> HIDE DEF f, g
    <2>4. SumFunctionOnSet(f, 0..now) = SumFunctionOnSet(g, 0..now)
      BY <1>1, <2>1, SumSame
    <2>5. SumFunctionOnSet(g, 0..(now + 1)) = SumFunctionOnSet(g, 0..now)
      <3>1. \A s \in 0..(now + 1) : g[s] \in Nat
        BY <1>1, <2>1, <2>2
      <3>2. \A s \in (0..(now + 1)) \ (0..now) : g[s] = 0
        BY <1>1, <2>2
      <3>3. 0..now \in SUBSET (0..(now + 1))
        BY <1>1
      <3> QED
        BY <1>1, <3>1, <3>2, <3>3, SumOfZeros
    <2> QED
      BY <2>3, <2>4, <2>5
  <1>5. SliceErrors' = SliceErrors
    <2> DEFINE f == [s \in 0..now |-> measured[s + 1].errors]
               g == [s \in 0..(now + 1) |-> measured'[s + 1].errors]
    <2>1. \A s \in 0..now : f[s] \in Nat /\ f[s] = g[s]
      BY <1>1, <1>2, SliceTypes
    <2>2. g[now + 1] = 0
      BY <1>1, <1>2, <1>3
    <2>3. SliceErrors = SumFunctionOnSet(f, 0..now) /\ SliceErrors' = SumFunctionOnSet(g, 0..(now + 1))
      BY DEF SliceErrors
    <2> HIDE DEF f, g
    <2>4. SumFunctionOnSet(f, 0..now) = SumFunctionOnSet(g, 0..now)
      BY <1>1, <2>1, SumSame
    <2>5. SumFunctionOnSet(g, 0..(now + 1)) = SumFunctionOnSet(g, 0..now)
      <3>1. \A s \in 0..(now + 1) : g[s] \in Nat
        BY <1>1, <2>1, <2>2
      <3>2. \A s \in (0..(now + 1)) \ (0..now) : g[s] = 0
        BY <1>1, <2>2
      <3>3. 0..now \in SUBSET (0..(now + 1))
        BY <1>1
      <3> QED
        BY <1>1, <3>1, <3>2, <3>3, SumOfZeros
    <2> QED
      BY <2>3, <2>4, <2>5
  <1> QED
    BY <1>4, <1>5

LEMMA AccountInit == Init => AccountInv
  <1> SUFFICES ASSUME Init PROVE AccountInv
    OBVIOUS
  <1>1. \A w \in Workers : session[w] = Gone /\ session[w].pc = "gone" /\ session[w].history = <<>>
    BY DEF Init, Gone
  <1>2. now = 0 /\ measured = <<NoCounts>> /\ WindowTypeOK
    BY WindowInit DEF Init, BreakerInit
  <1>3. \A s \in 0..now : measured[s + 1].requests = 0 /\ measured[s + 1].errors = 0
    BY <1>2 DEF NoCounts
  <1>4. IsFiniteSet(0..now) /\ IsFiniteSet(Workers)
    BY <1>2, SliceTypes, EngineFacts
  <1>5. SliceRequests = 0 /\ SliceErrors = 0
    <2>1. SumFunctionOnSet([s \in 0..now |-> measured[s + 1].requests], 0..now) = 0
      BY <1>3, <1>4, SumZero
    <2>2. SumFunctionOnSet([s \in 0..now |-> measured[s + 1].errors], 0..now) = 0
      BY <1>3, <1>4, SumZero
    <2> QED
      BY <2>1, <2>2 DEF SliceRequests, SliceErrors
  <1>6. \A w \in Workers : Owed(session[w]) = 0 /\ Halfway(session[w]) = 0 /\ HalfwayError(session[w]) = 0
    BY <1>1, FreshSessions, Weights
  <1>7. Outstanding = 0 /\ HalfwayResults = 0 /\ HalfwayErrors = 0
    BY <1>4, <1>6, SumZero DEF Outstanding, HalfwayResults, HalfwayErrors
  <1>8. metrics = [requests |-> 0, errors |-> 0] /\ performed = 0 /\ engine = "start"
    BY DEF Init
  <1> QED
    BY <1>1, <1>5, <1>7, <1>8 DEF AccountInv

(* Steps of Run itself, and what stops it, settle nothing. *)
LEMMA AccountIdle ==
    ASSUME AccountInv, UNCHANGED <<now, measured, metrics, performed, session>>,
           engine' = "done" => \/ engine = "done" /\ summary' = summary
                               \/ /\ summary'.requests = metrics.requests
                                  /\ summary'.errors = metrics.errors
    PROVE  AccountInv'
  <1>1. /\ Outstanding' = Outstanding /\ HalfwayResults' = HalfwayResults
        /\ HalfwayErrors' = HalfwayErrors
        /\ SliceRequests' = SliceRequests /\ SliceErrors' = SliceErrors
    BY DEF Outstanding, HalfwayResults, HalfwayErrors, SliceRequests, SliceErrors
  <1> QED
    BY <1>1 DEF AccountInv

LEMMA AccountStarted ==
    ASSUME AccountInv, SessionInv, NEW n \in Nat, NEW at, at.pc # "stamped", at.history = <<>>,
           StartWorkers(n, at), UNCHANGED <<now, measured, metrics, performed>>,
           engine' # "done"
    PROVE  AccountInv'
  <1>1. SliceRequests' = SliceRequests /\ SliceErrors' = SliceErrors
    BY DEF SliceRequests, SliceErrors
  <1> QED
    BY <1>1, AccountStart DEF AccountInv

LEMMA AccountDrop == ASSUME IInv, AccountInv, DropSession PROVE AccountInv'
  <1>1. /\ WindowRecord(now, "error") /\ AddMetrics("error") /\ performed' = performed + 1
        /\ engine = "loop" /\ UNCHANGED <<now, session, engine>>
    BY DEF DropSession
  <1>2. WindowTypeOK /\ now \in 0..now /\ IsError("error")
    BY TypeWindow DEF IInv, WindowTypeOK, IsError
  <1>3. SliceRequests' = SliceRequests + 1 /\ SliceErrors' = SliceErrors + 1
    BY <1>1, <1>2, SliceRecord
  <1>4. metrics'.requests = metrics.requests + 1 /\ metrics'.errors = metrics.errors + 1
    BY <1>1, <1>2 DEF AddMetrics
  <1>5. /\ Outstanding' = Outstanding /\ HalfwayResults' = HalfwayResults
        /\ HalfwayErrors' = HalfwayErrors
    BY <1>1 DEF Outstanding, HalfwayResults, HalfwayErrors
  <1>6. /\ Outstanding \in Nat /\ HalfwayResults \in Nat /\ HalfwayErrors \in Nat
        /\ SliceRequests \in Nat /\ SliceErrors \in Nat
        /\ metrics.requests \in Nat /\ metrics.errors \in Nat
    BY <1>2, AccountTypes, SliceTypes, TypeParts DEF IInv, MetricsType
  <1> QED
    BY <1>1, <1>3, <1>4, <1>5, <1>6 DEF AccountInv

LEMMA AccountTick == ASSUME IInv, AccountInv, Tick PROVE AccountInv'
  <1>1. /\ now' = now + 1 /\ measured' = Append(measured, NoCounts)
        /\ UNCHANGED <<metrics, performed, session, engine, summary>>
    BY DEF Tick
  <1>2. SliceRequests' = SliceRequests /\ SliceErrors' = SliceErrors
    BY <1>1, SliceTick, TypeWindow DEF IInv
  <1>3. /\ Outstanding' = Outstanding /\ HalfwayResults' = HalfwayResults
        /\ HalfwayErrors' = HalfwayErrors
    BY <1>1 DEF Outstanding, HalfwayResults, HalfwayErrors
  <1> QED
    BY <1>1, <1>2, <1>3 DEF AccountInv

(* What is whole before a step is after it, when both sides change alike. *)
LEMMA Balance ==
    ASSUME NEW whole \in Int, NEW part \in Int, NEW rest \in Int,
           NEW wholeAfter \in Int, NEW partAfter \in Int, NEW a \in Int, NEW b \in Int,
           whole = part + rest,
           wholeAfter - partAfter = whole - part - a + b
    PROVE  wholeAfter = partAfter + (rest - a + b)
  OBVIOUS

(* What a step of a worker does to the accounts, by its session before and *)
(* after.                                                                  *)
LEMMA AccountWorker ==
    ASSUME IInv, AccountInv, NEW w \in Workers, WorkerStep(w), ~Panic(w)
    PROVE  AccountInv'
  <1>1. PICK new : /\ session' = [session EXCEPT ![w] = new]
                   /\ Good(new) /\ session[w].pc # "gone"
    BY WorkerEffect DEF IInv, SessionInv, TypeOK
  <1>2. SessionInv /\ session \in [Workers -> Session] /\ session'[w] = new
    BY <1>1, TypeParts DEF IInv, SessionType
  <1>3. /\ Outstanding' = Outstanding - Owed(session[w]) + Owed(new)
        /\ HalfwayResults' = HalfwayResults - Halfway(session[w]) + Halfway(new)
        /\ HalfwayErrors' = HalfwayErrors - HalfwayError(session[w]) + HalfwayError(new)
    BY <1>1, <1>2, AccountStep
  <1>4. engine' = engine /\ engine # "done" /\ now' = now
    <2>1. w \in Live
      BY <1>1 DEF Live
    <2> QED
      BY <2>1, LiveFinite, FS_EmptySet, WorkerFrame DEF IInv, LoadInv
  <1>5. /\ Outstanding \in Nat /\ HalfwayResults \in Nat /\ HalfwayErrors \in Nat
        /\ SliceRequests \in Nat /\ SliceErrors \in Nat
        /\ metrics.requests \in Nat /\ metrics.errors \in Nat /\ performed \in Nat
        /\ metrics \in [requests : Nat, errors : Nat]
    BY <1>2, AccountTypes, SliceTypes, TypeWindow, TypeParts DEF IInv, MetricsType
  <1>6. /\ Owed(session[w]) \in Nat /\ Halfway(session[w]) \in Nat /\ HalfwayError(session[w]) \in Nat
        /\ Owed(new) \in Nat /\ Halfway(new) \in Nat /\ HalfwayError(new) \in Nat
    BY <1>1, <1>2, Weights DEF SessionInv
  <1>7. session[w].history \in Seq(Outcomes) /\ new.history \in Seq(Outcomes)
    BY <1>1, <1>2 DEF SessionInv, Good, Session
  (* The accounts balance when the step changes them alike. *)
  <1>8. ASSUME new.pc \in {"gone", "ready"} => new.history = <<>>,
               performed' - metrics'.requests
                   = performed - metrics.requests - Owed(session[w]) + Owed(new),
               metrics'.requests - SliceRequests'
                   = metrics.requests - SliceRequests - Halfway(session[w]) + Halfway(new),
               metrics'.errors - SliceErrors'
                   = metrics.errors - SliceErrors - HalfwayError(session[w]) + HalfwayError(new),
               metrics'.requests \in Int, metrics'.errors \in Int, performed' \in Int,
               SliceRequests' \in Int, SliceErrors' \in Int
        PROVE  AccountInv'
    <2>1. \A v \in Workers : session'[v].pc \in {"gone", "ready"} => session'[v].history = <<>>
      BY <1>1, <1>2, <1>8 DEF AccountInv
    <2>3. performed' = metrics'.requests + Outstanding'
      <3>1. /\ performed \in Int /\ metrics.requests \in Int /\ Outstanding \in Int
            /\ Owed(session[w]) \in Int /\ Owed(new) \in Int
            /\ performed' \in Int /\ metrics'.requests \in Int
        BY <1>5, <1>6, <1>8
      <3>2. performed = metrics.requests + Outstanding
        BY DEF AccountInv
      <3> DEFINE wholeAfter == performed'
                 partAfter == metrics'.requests
      <3>4. /\ wholeAfter - partAfter = performed - metrics.requests - Owed(session[w]) + Owed(new)
            /\ wholeAfter \in Int /\ partAfter \in Int
        BY <1>8
      <3> HIDE DEF wholeAfter, partAfter
      <3>3. wholeAfter = partAfter + (Outstanding - Owed(session[w]) + Owed(new))
        BY ONLY <3>1, <3>2, <3>4, Balance
      <3> QED
        BY ONLY <1>3, <3>3 DEF wholeAfter, partAfter
    <2>4. metrics'.requests = SliceRequests' + HalfwayResults'
      <3>1. /\ metrics.requests \in Int /\ SliceRequests \in Int /\ HalfwayResults \in Int
            /\ Halfway(session[w]) \in Int /\ Halfway(new) \in Int
            /\ metrics'.requests \in Int /\ SliceRequests' \in Int
        BY <1>5, <1>6, <1>8
      <3>2. metrics.requests = SliceRequests + HalfwayResults
        BY DEF AccountInv
      <3>3. metrics'.requests - SliceRequests' = metrics.requests - SliceRequests - Halfway(session[w]) + Halfway(new)
        BY <1>8
      <3> QED
        BY ONLY <1>3, <3>1, <3>2, <3>3, Balance
    <2>5. metrics'.errors = SliceErrors' + HalfwayErrors'
      <3>1. /\ metrics.errors \in Int /\ SliceErrors \in Int /\ HalfwayErrors \in Int
            /\ HalfwayError(session[w]) \in Int /\ HalfwayError(new) \in Int
            /\ metrics'.errors \in Int /\ SliceErrors' \in Int
        BY <1>5, <1>6, <1>8
      <3>2. metrics.errors = SliceErrors + HalfwayErrors
        BY DEF AccountInv
      <3>3. metrics'.errors - SliceErrors' = metrics.errors - SliceErrors - HalfwayError(session[w]) + HalfwayError(new)
        BY <1>8
      <3> QED
        BY ONLY <1>3, <3>1, <3>2, <3>3, Balance
    <2> QED
      BY <1>4, <2>1, <2>3, <2>4, <2>5 DEF AccountInv
  <1>9. ASSUME UNCHANGED measured PROVE SliceRequests' = SliceRequests /\ SliceErrors' = SliceErrors
    BY <1>4, <1>9 DEF SliceRequests, SliceErrors
  <1>10. ASSUME session[w].history = <<>>, new.history = <<>>,
                UNCHANGED <<measured, metrics, performed>>
         PROVE  AccountInv'
    BY <1>1, <1>2, <1>5, <1>8, <1>9, <1>10, Weights DEF SessionInv
  <1>11. Gone.history = <<>> /\ Ready.history = <<>> /\ NewSession.history = <<>>
    BY DEF Gone, Ready, NewSession
  <1>12. CASE TakeSession(w)
    <2>1. /\ session[w].pc = "ready" /\ UNCHANGED <<measured, metrics, performed>>
          /\ new = Gone \/ new = NewSession
      BY <1>2, <1>12 DEF TakeSession, Leave, Become, Is, telemetry, window
    <2>2. session[w].history = <<>>
      BY <2>1 DEF AccountInv
    <2> QED
      BY <1>10, <1>11, <2>1, <2>2
  <1>13. CASE FinishSession(w)
    <2>1. /\ session[w].history = <<>> /\ UNCHANGED <<measured, metrics, performed>>
          /\ new = Gone \/ new = Ready
      BY <1>2, <1>13 DEF FinishSession, Leave, Become, Is, telemetry, window
    <2> QED
      BY <1>10, <1>11, <2>1
  <1>14. CASE ExecuteStep(w)
    <2>1. /\ session[w].pc \in {"head", "attempt", "retry"}
          /\ new.pc \in {"reporting", "attempt", "retry", "head"}
      <3>1. ASSUME NEW outcome \in Outcomes, StepSucceeds(w, outcome) \/ StepFails(w, outcome)
            PROVE  session[w].pc = "attempt" /\ new.pc \in {"reporting", "retry", "head"}
        <4>1. session[w] \in Session /\ DOMAIN session = Workers
          BY <1>2
        <4>2. \A next : Recorded(session[w], outcome, next).pc \in {"reporting", "head"}
          BY <4>1 DEF Recorded, Session
        <4>3. [session[w] EXCEPT !.pc = "retry", !.attempt = @ + 1].pc = "retry"
          BY <4>1 DEF Session
        <4>4. session[w].pc = "attempt"
          BY <3>1 DEF StepSucceeds, StepFails, Is
        <4>5. \/ \E next : new = Recorded(session[w], outcome, next)
              \/ new = [session[w] EXCEPT !.pc = "retry", !.attempt = @ + 1]
          BY <1>2, <3>1, <4>1 DEF StepSucceeds, StepFails, Become
        <4> QED
          BY <4>2, <4>3, <4>4, <4>5
      <3>2. ASSUME LoopHead(w, Stopped) PROVE session[w].pc = "head" /\ new.pc \in {"reporting", "attempt"}
        BY <1>2, <3>2 DEF LoopHead, Become, Is, Session
      <3>3. ASSUME RetryStep(w) PROVE session[w].pc = "retry" /\ new.pc = "attempt"
        BY <1>2, <3>3 DEF RetryStep, Become, Is, Session
      <3> QED
        BY <1>14, <3>1, <3>2, <3>3 DEF ExecuteStep
    <2>2. /\ UNCHANGED <<measured, metrics>>
          /\ performed' = performed + Len(new.history) - Len(session[w].history)
      BY <1>2, <1>14 DEF ExecuteStep, window
    <2>3. /\ Owed(session[w]) = Len(session[w].history) /\ Owed(new) = Len(new.history)
          /\ Halfway(session[w]) = 0 /\ Halfway(new) = 0
          /\ HalfwayError(session[w]) = 0 /\ HalfwayError(new) = 0
      BY <2>1 DEF Owed, Halfway, HalfwayError
    <2>4. Len(session[w].history) \in Nat /\ Len(new.history) \in Nat
      BY <1>7
    <2>5. performed' \in Int
      BY <1>5, <2>2, <2>4
    <2>6. performed' - metrics.requests
              = performed - metrics.requests - Owed(session[w]) + Owed(new)
      <3> DEFINE before == Len(session[w].history)
                 after == Len(new.history)
                 counted == metrics.requests
      <3>1. before \in Int /\ after \in Int /\ counted \in Int /\ performed \in Int
        BY <1>5, <2>4
      <3> HIDE DEF before, after, counted
      <3>2. (performed + after - before) - counted = performed - counted - before + after
        BY ONLY <3>1
      <3> QED
        BY ONLY <2>2, <2>3, <3>2 DEF before, after, counted
    <2>7. /\ metrics.requests - SliceRequests
              = metrics.requests - SliceRequests - Halfway(session[w]) + Halfway(new)
          /\ metrics.errors - SliceErrors
              = metrics.errors - SliceErrors - HalfwayError(session[w]) + HalfwayError(new)
      BY <1>5, <2>3
    <2>8. new.pc \in {"gone", "ready"} => new.history = <<>>
      BY <2>1
    <2> QED
      BY <1>5, <1>8, <1>9, <2>2, <2>5, <2>6, <2>7, <2>8
  <1>15. CASE RecordStep(w)
    <2> DEFINE one == IF IsError(Head(session[w].history)) THEN 1 ELSE 0
    <2>1. /\ session[w].pc = "reporting" /\ session[w].history # <<>>
          /\ new = [session[w] EXCEPT !.pc = "stamped", !.stamp = now]
          /\ UNCHANGED <<measured, performed>>
          /\ metrics' = [requests |-> metrics.requests + 1, errors |-> metrics.errors + one]
      BY <1>2, <1>15 DEF RecordStep, Is, Become, AddMetrics, window
    <2>2. new.pc = "stamped" /\ new.history = session[w].history
      BY <1>2, <2>1 DEF Session
    <2>3. /\ Owed(session[w]) = Len(session[w].history) /\ Owed(new) = Len(session[w].history) - 1
          /\ Halfway(session[w]) = 0 /\ Halfway(new) = 1
          /\ HalfwayError(session[w]) = 0 /\ HalfwayError(new) = one
      BY <2>1, <2>2 DEF Owed, Halfway, HalfwayError
    <2>4. one \in Nat /\ Len(session[w].history) \in Nat
      BY <1>7
    <2> HIDE DEF one
    <2>5. metrics'.requests = metrics.requests + 1 /\ metrics'.errors = metrics.errors + one
      BY <2>1
    <2>7. performed - metrics'.requests
              = performed - metrics.requests - Owed(session[w]) + Owed(new)
      BY <1>5, <2>3, <2>4, <2>5
    <2>8. /\ metrics'.requests - SliceRequests
              = metrics.requests - SliceRequests - Halfway(session[w]) + Halfway(new)
          /\ metrics'.errors - SliceErrors
              = metrics.errors - SliceErrors - HalfwayError(session[w]) + HalfwayError(new)
      <3>1. metrics'.requests - SliceRequests
                = metrics.requests - SliceRequests - Halfway(session[w]) + Halfway(new)
        <4> DEFINE before == metrics.requests
                   after == metrics'.requests
                   inside == SliceRequests
                   from == Halfway(session[w])
                   to == Halfway(new)
        <4>1. before \in Int /\ inside \in Int
          BY <1>5, <2>4
        <4>2. after = before + 1 /\ from = 0 /\ to = 1
          BY <2>3, <2>5
        <4> HIDE DEF before, after, inside, from, to
        <4>3. after - inside = before - inside - from + to
          BY ONLY <4>1, <4>2
        <4> QED
          BY ONLY <4>3 DEF before, after, inside, from, to
      <3>2. metrics'.errors - SliceErrors
                = metrics.errors - SliceErrors - HalfwayError(session[w]) + HalfwayError(new)
        <4> DEFINE before == metrics.errors
                   after == metrics'.errors
                   inside == SliceErrors
                   from == HalfwayError(session[w])
                   to == HalfwayError(new)
        <4>1. before \in Int /\ inside \in Int /\ one \in Int
          BY <1>5, <2>4
        <4>2. after = before + one /\ from = 0 /\ to = one
          BY <2>3, <2>5
        <4> HIDE DEF before, after, inside, from, to
        <4>3. after - inside = before - inside - from + to
          BY ONLY <4>1, <4>2
        <4> QED
          BY ONLY <4>3 DEF before, after, inside, from, to
      <3> QED
        BY ONLY <3>1, <3>2
    <2>9. metrics'.requests \in Int /\ metrics'.errors \in Int
      BY <1>5, <2>4, <2>5
    <2> QED
      BY <1>5, <1>8, <1>9, <2>1, <2>2, <2>7, <2>8, <2>9
  <1>16. CASE RecordInWindow(w)
    <2> DEFINE one == IF IsError(Head(session[w].history)) THEN 1 ELSE 0
    <2>1. /\ session[w].pc = "stamped"
          /\ new = [session[w] EXCEPT !.pc = "reporting", !.stamp = 0, !.history = Tail(@)]
          /\ UNCHANGED <<metrics, performed>>
          /\ WindowRecord(session[w].stamp, Head(session[w].history))
      BY <1>2, <1>16 DEF RecordInWindow, Is, Become
    <2>2. new.pc = "reporting" /\ new.history = Tail(session[w].history)
      BY <1>2, <2>1 DEF Session
    <2>3. /\ session[w].history # <<>> /\ session[w].stamp \in 0..now
          /\ Len(Tail(session[w].history)) = Len(session[w].history) - 1
          /\ Len(session[w].history) \in Nat
      <3>1. Good(session[w]) /\ now \in Nat
        BY <1>2 DEF SessionInv, IInv, TypeOK
      <3>2. session[w].history # <<>> /\ session[w].stamp \in 0..now
        BY <2>1, <3>1 DEF Good, Session
      <3> QED
        BY <1>7, <3>2
    <2>4. /\ Owed(session[w]) = Len(session[w].history) - 1 /\ Owed(new) = Len(session[w].history) - 1
          /\ Halfway(session[w]) = 1 /\ Halfway(new) = 0
          /\ HalfwayError(session[w]) = one /\ HalfwayError(new) = 0
      BY <2>1, <2>2, <2>3 DEF Owed, Halfway, HalfwayError
    <2>5. SliceRequests' = SliceRequests + 1 /\ SliceErrors' = SliceErrors + one
      BY <1>4, <2>1, <2>3, SliceRecord, TypeWindow DEF IInv
    <2>6. one \in Nat
      OBVIOUS
    <2> HIDE DEF one
    <2>7. performed - metrics.requests
              = performed - metrics.requests - Owed(session[w]) + Owed(new)
      BY <1>5, <2>3, <2>4
    <2>8. /\ metrics.requests - SliceRequests'
              = metrics.requests - SliceRequests - Halfway(session[w]) + Halfway(new)
          /\ metrics.errors - SliceErrors'
              = metrics.errors - SliceErrors - HalfwayError(session[w]) + HalfwayError(new)
      BY <1>5, <2>4, <2>5, <2>6
    <2>9. SliceRequests' \in Int /\ SliceErrors' \in Int
      BY <1>5, <2>5, <2>6
    <2> QED
      BY <1>5, <1>8, <2>1, <2>2, <2>7, <2>8, <2>9
  <1> QED
    BY <1>12, <1>13, <1>14, <1>15, <1>16 DEF WorkerStep

LEMMA AccountNext == IInv /\ AccountInv /\ [Next]_vars => AccountInv'
  <1> SUFFICES ASSUME IInv, AccountInv, [Next]_vars PROVE AccountInv'
    OBVIOUS
  <1>0. SessionInv /\ VUs \in Nat /\ active \in Nat
    BY EngineFacts, TypeParts DEF IInv, EngineType
  <1>1. CASE RunFlatVU
    <2>1. /\ StartWorkers(VUs, Ready) /\ engine' = "waiting"
          /\ UNCHANGED <<now, measured, metrics, performed>>
      BY <1>1 DEF RunFlatVU, telemetry, window
    <2> QED
      BY <1>0, <2>1, AccountStarted DEF Ready, Gone
  <1>2. CASE LaunchSession
    <2>1. /\ StartWorkers(1, NewSession) /\ engine' = "loop"
          /\ UNCHANGED <<now, measured, metrics, performed>>
      BY <1>2 DEF LaunchSession, telemetry, window
    <2> QED
      BY <1>0, <2>1, AccountStarted DEF NewSession, Gone
  <1>3. CASE RampUp
    <2>1. PICK target \in RampTargets : StartWorkers(WorkersWanted(target), Ready)
      BY <1>3 DEF RampUp
    <2>2. target \in Nat
      BY RampTarget DEF IInv
    <2>3. WorkersWanted(target) \in Nat
      BY <1>0, <2>2 DEF WorkersWanted
    <2>4. engine' = "loop" /\ UNCHANGED <<now, measured, metrics, performed>>
      BY <1>3 DEF RampUp, telemetry, window
    <2> QED
      BY <1>0, <2>1, <2>3, <2>4, AccountStarted DEF Ready, Gone
  <1>4. CASE StartLoop \/ StopLoop \/ NextStage \/ PoolReturns
    <2>1. /\ UNCHANGED <<now, measured, metrics, performed, session>>
          /\ engine' # "done"
      BY <1>4 DEF StartLoop, StopLoop, NextStage, PoolReturns, telemetry, window
    <2> QED
      BY <2>1, AccountIdle
  <1>5. CASE ReadTripped \/ ReadCause
    <2>1. ASSUME NEW status, Return(status) PROVE AccountInv'
      <3>1. /\ UNCHANGED <<now, measured, metrics, performed, session>>
            /\ summary'.requests = metrics.requests /\ summary'.errors = metrics.errors
        BY <2>1 DEF Return, telemetry, window
      <3> QED
        BY <3>1, AccountIdle
    <2>2. ASSUME ReadTripped, ~breaker.tripped PROVE AccountInv'
      <3>1. UNCHANGED <<now, measured, metrics, performed, session>> /\ engine' # "done"
        BY <2>2 DEF ReadTripped, telemetry, window
      <3> QED
        BY <3>1, AccountIdle
    <2> QED
      BY <1>5, <2>1, <2>2 DEF ReadTripped, ReadCause
  <1>6. CASE DropSession
    BY <1>6, AccountDrop
  <1>7. CASE \E w \in Workers : WorkerStep(w)
    <2>1. PICK w \in Workers : WorkerStep(w)
      BY <1>7
    <2>2. ASSUME Panic(w) PROVE AccountInv'
      <3>1. UNCHANGED <<now, measured, metrics, performed, session>> /\ engine' # "done"
        BY <2>2 DEF Panic, telemetry, window
      <3> QED
        BY <3>1, AccountIdle
    <2> QED
      BY <2>1, <2>2, AccountWorker
  <1>8. CASE DurationElapses \/ CallerCancels \/ MonitorEvaluates \/ UNCHANGED vars
    <2>1. /\ UNCHANGED <<now, measured, metrics, performed, session>>
          /\ engine' = engine /\ summary' = summary
      BY <1>8 DEF DurationElapses, CallerCancels, MonitorEvaluates, vars, telemetry, window
    <2> QED
      BY <2>1, AccountIdle
  <1>9. CASE Tick
    BY <1>9, AccountTick
  <1> QED
    BY <1>1, <1>2, <1>3, <1>4, <1>5, <1>6, <1>7, <1>8, <1>9 DEF Next, EngineStep

-----------------------------------------------------------------------------
(* What the breaker looks at                                               *)

(* The buckets that are in the window and the slices of it have the same   *)
(* sum of anything that is nothing for no result: a bucket is the one of   *)
(* its slice, and a slice without a bucket has no results.                 *)
LEMMA WindowSum ==
    ASSUME WindowTypeOK, WindowShape, WindowIsExact,
           NEW field \in [Counts -> Nat], field[NoCounts] = 0
    PROVE  LET inRing == {i \in DOMAIN buckets : InWindow(buckets[i].slice)}
               slices == {s \in 0..now : InWindow(s)}
           IN  SumFunctionOnSet([i \in inRing |-> field[buckets[i].counts]], inRing)
                   = SumFunctionOnSet([s \in slices |-> field[Measured(s)]], slices)
  <1> DEFINE inRing == {i \in DOMAIN buckets : InWindow(buckets[i].slice)}
             slices == {s \in 0..now : InWindow(s)}
             f == [i \in inRing |-> field[buckets[i].counts]]
             g == [s \in slices |-> field[Measured(s)]]
             name == [i \in inRing |-> buckets[i].slice]
  <1>0. /\ now \in Nat /\ DOMAIN buckets = 0..(NumBuckets - 1)
        /\ \A i \in DOMAIN buckets : buckets[i].slice \in Nat \cup {Never} /\ buckets[i].counts \in Counts
        /\ \A s \in 0..now : Measured(s) \in Counts
    BY DEF WindowTypeOK, Buckets, Measured
  <1>1. ASSUME NEW i \in inRing
        PROVE  /\ buckets[i].slice \in slices /\ Slot(buckets[i].slice) = i
               /\ Measured(buckets[i].slice) = buckets[i].counts
    <2>1. buckets[i].slice # Never
      BY <1>0, BreakerFacts DEF InWindow, Never
    <2>2. buckets[i].slice \in Nat /\ Slot(buckets[i].slice) = i /\ buckets[i].slice <= now
      BY <1>0, <2>1 DEF WindowShape
    <2>3. buckets[i].slice \in slices
      BY <1>0, <2>2
    <2>4. BucketOf(buckets[i].slice) = buckets[i].counts
      BY <2>2 DEF BucketOf
    <2> QED
      BY <2>2, <2>3, <2>4 DEF WindowIsExact
  <1>2. \A i \in inRing : f[i] \in Nat /\ g[name[i]] = f[i]
    <2> TAKE i \in inRing
    <2>1. f[i] = field[buckets[i].counts] /\ name[i] = buckets[i].slice /\ buckets[i].counts \in Counts
      BY <1>0
    <2>2. g[buckets[i].slice] = field[Measured(buckets[i].slice)]
      BY <1>1
    <2> QED
      BY <1>1, <2>1, <2>2
  <1>3. \A i, j \in inRing : name[i] = name[j] => i = j
    BY <1>1
  <1>4. \A s \in slices : g[s] \in Nat
    BY <1>0
  <1>5. {name[i] : i \in inRing} \in SUBSET slices
    BY <1>1
  <1>6. ASSUME NEW s \in slices, s \notin {name[i] : i \in inRing}
        PROVE  g[s] = 0
    <2>1. s \in Int /\ Slot(s) \in DOMAIN buckets
      BY <1>0, SlotType
    <2>2. buckets[Slot(s)].slice # s
      BY <1>6, <2>1
    <2>3. Measured(s) = NoCounts
      BY <2>2 DEF WindowIsExact, BucketOf
    <2> QED
      BY <2>3
  <1>7. IsFiniteSet(inRing) /\ IsFiniteSet(slices)
    <2>1. IsFiniteSet(0..now)
      BY SliceTypes
    <2>2. NumBuckets - 1 \in Int /\ 0 \in Int
      BY BreakerFacts
    <2>3. IsFiniteSet(0..(NumBuckets - 1))
      BY <2>2, FS_Interval
    <2>4. inRing \in SUBSET (0..(NumBuckets - 1)) /\ slices \in SUBSET (0..now)
      BY <1>0
    <2> QED
      BY <2>1, <2>3, <2>4, FS_Subset
  <1> HIDE DEF inRing, slices, f, g, name
  <1>8. SumFunctionOnSet(f, inRing) = SumFunctionOnSet(g, {name[i] : i \in inRing})
    BY ONLY <1>2, <1>3, <1>7, SumRenamed
  <1>9. SumFunctionOnSet(g, slices) = SumFunctionOnSet(g, {name[i] : i \in inRing})
    <2> DEFINE named == {name[i] : i \in inRing}
    <2>1. named \in SUBSET slices /\ \A s \in slices \ named : g[s] = 0
      BY <1>5, <1>6
    <2> HIDE DEF named
    <2>2. SumFunctionOnSet(g, slices) = SumFunctionOnSet(g, named)
      BY ONLY <1>4, <1>7, <2>1, SumOfZeros
    <2> QED
      BY <2>2 DEF named
  <1> QED
    BY <1>8, <1>9 DEF inRing, slices, f, g, name

(* With an exact window, the breaker sees the results themselves. *)
LEMMA StatsAreTrue ==
    ASSUME WindowTypeOK, WindowShape, WindowIsExact
    PROVE  Stats = TrueStats
  <1> DEFINE inRing == {i \in DOMAIN buckets : InWindow(buckets[i].slice)}
             slices == {s \in 0..now : InWindow(s)}
  <1>0. NoCounts \in Counts /\ NoCounts.requests = 0 /\ NoCounts.errors = 0 /\ NoCounts.slow = 0
    BY DEF NoCounts, Counts
  <1>1. ASSUME NEW field \in [Counts -> Nat], field[NoCounts] = 0
        PROVE  SumFunctionOnSet([i \in inRing |-> field[buckets[i].counts]], inRing)
                   = SumFunctionOnSet([s \in slices |-> field[Measured(s)]], slices)
    BY <1>1, WindowSum
  <1>2. /\ \A i \in inRing : buckets[i].counts \in Counts /\ InBuckets[i] = buckets[i].counts
        /\ \A s \in slices : Measured(s) \in Counts /\ InSlices[s] = Measured(s)
    BY DEF WindowTypeOK, Buckets, Measured, InBuckets, InSlices
  <1>3. Stats = SumOf(inRing, InBuckets) /\ TrueStats = SumOf(slices, InSlices)
    BY DEF Stats, TrueStats
  <1> HIDE DEF inRing, slices
  <1>4. SumFunctionOnSet([i \in inRing |-> InBuckets[i].requests], inRing)
            = SumFunctionOnSet([s \in slices |-> InSlices[s].requests], slices)
    <2> DEFINE field == [c \in Counts |-> c.requests]
    <2>1. field \in [Counts -> Nat] /\ field[NoCounts] = 0
      BY <1>0 DEF Counts
    <2>2. /\ [i \in inRing |-> field[buckets[i].counts]] = [i \in inRing |-> InBuckets[i].requests]
          /\ [s \in slices |-> field[Measured(s)]] = [s \in slices |-> InSlices[s].requests]
      BY <1>2
    <2> HIDE DEF field
    <2> QED
      BY <1>1, <2>1, <2>2
  <1>5. SumFunctionOnSet([i \in inRing |-> InBuckets[i].errors], inRing)
            = SumFunctionOnSet([s \in slices |-> InSlices[s].errors], slices)
    <2> DEFINE field == [c \in Counts |-> c.errors]
    <2>1. field \in [Counts -> Nat] /\ field[NoCounts] = 0
      BY <1>0 DEF Counts
    <2>2. /\ [i \in inRing |-> field[buckets[i].counts]] = [i \in inRing |-> InBuckets[i].errors]
          /\ [s \in slices |-> field[Measured(s)]] = [s \in slices |-> InSlices[s].errors]
      BY <1>2
    <2> HIDE DEF field
    <2> QED
      BY <1>1, <2>1, <2>2
  <1>6. SumFunctionOnSet([i \in inRing |-> InBuckets[i].slow], inRing)
            = SumFunctionOnSet([s \in slices |-> InSlices[s].slow], slices)
    <2> DEFINE field == [c \in Counts |-> c.slow]
    <2>1. field \in [Counts -> Nat] /\ field[NoCounts] = 0
      BY <1>0 DEF Counts
    <2>2. /\ [i \in inRing |-> field[buckets[i].counts]] = [i \in inRing |-> InBuckets[i].slow]
          /\ [s \in slices |-> field[Measured(s)]] = [s \in slices |-> InSlices[s].slow]
      BY <1>2
    <2> HIDE DEF field
    <2> QED
      BY <1>1, <2>1, <2>2
  <1> QED
    BY <1>3, <1>4, <1>5, <1>6 DEF SumOf

(* The last n evaluations had the limit breached. *)
Justified(limit, n) ==
    /\ n <= Len(evidence)
    /\ \A i \in DOMAIN evidence : i > Len(evidence) - n => limit \in evidence[i]

(* A streak is what the evidence ends with; a tripped breaker has a full   *)
(* one, which no evaluation touches any more.                              *)
EvidenceInv ==
    /\ breaker.tripped => Trips(breaker.streaks)
    /\ \A limit \in Limits : Justified(limit, breaker.streaks[limit])

LEMMA EvidenceInit == Init => EvidenceInv
  BY DEF Init, BreakerInit, EvidenceInv, Justified

LEMMA EvidenceEvaluate ==
    ASSUME BreakerType, StreakInv, EvidenceInv, Stats = TrueStats, Evaluate
    PROVE  EvidenceInv'
  <1> DEFINE breached == Breached(Stats)
             all == Append(evidence, breached)
  <1>1. /\ ~breaker.tripped
        /\ breaker'.streaks = Streaks(breached) /\ breaker'.tripped = Trips(Streaks(breached))
        /\ evidence' = IF Len(all) > ConsecutiveBreaches THEN Tail(all) ELSE all
    BY DEF Evaluate
  <1>2. breached \subseteq Limits
    BY DEF Breached
  <1> HIDE DEF breached
  <1>3. /\ evidence \in Seq(SUBSET Limits) /\ Len(evidence) \in Nat
        /\ Len(evidence) <= ConsecutiveBreaches /\ ConsecutiveBreaches \in Nat
    BY BreakerFacts DEF BreakerType
  <1>4. /\ all \in Seq(SUBSET Limits) /\ Len(all) = Len(evidence) + 1
        /\ \A i \in 1..Len(evidence) : all[i] = evidence[i]
        /\ all[Len(evidence) + 1] = breached
    BY <1>2, <1>3
  <1> HIDE DEF all
  <1>5. ASSUME NEW limit \in Limits PROVE Justified(limit, breaker.streaks[limit])'
    <2>1. Streaks(breached)[limit] = IF limit \in breached THEN breaker.streaks[limit] + 1 ELSE 0
      BY DEF Streaks
    <2>2. PICK n \in Nat : /\ n = breaker.streaks[limit] /\ n < ConsecutiveBreaches
                           /\ n <= Len(evidence)
                           /\ \A i \in DOMAIN evidence : i > Len(evidence) - n => limit \in evidence[i]
      BY <1>1, <1>3 DEF BreakerType, StreakInv, EvidenceInv, Justified
    <2>3. PICK m \in Nat : m = Streaks(breached)[limit] /\ m = IF limit \in breached THEN n + 1 ELSE 0
      BY <2>1, <2>2
    <2>4. /\ m <= Len(all) /\ m <= ConsecutiveBreaches
          /\ \A i \in 1..Len(all) : i > Len(all) - m => limit \in all[i]
      <3>1. CASE limit \notin breached
        BY <1>3, <1>4, <2>3, <3>1
      <3>2. CASE limit \in breached
        <4>1. m = n + 1 /\ m <= Len(all) /\ m <= ConsecutiveBreaches
          BY <1>3, <1>4, <2>2, <2>3, <3>2
        <4>2. ASSUME NEW i \in 1..Len(all), i > Len(all) - m PROVE limit \in all[i]
          <5>1. CASE i = Len(evidence) + 1
            BY <1>4, <3>2, <5>1
          <5>2. CASE i # Len(evidence) + 1
            <6>1. i \in 1..Len(evidence) /\ i > Len(evidence) - n
              BY <1>3, <1>4, <4>1, <4>2, <5>2
            <6> QED
              BY <1>3, <1>4, <2>2, <6>1
          <5> QED
            BY <5>1, <5>2
        <4> QED
          BY <4>1, <4>2
      <3> QED
        BY <3>1, <3>2
    <2>5. Justified(limit, m)'
      <3>1. CASE Len(all) > ConsecutiveBreaches
        <4>1. /\ evidence' = Tail(all) /\ Len(evidence') = Len(all) - 1
              /\ DOMAIN evidence' = 1..(Len(all) - 1)
              /\ \A i \in 1..(Len(all) - 1) : evidence'[i] = all[i + 1]
          BY <1>1, <1>3, <1>4, <3>1
        <4>2. Len(all) = ConsecutiveBreaches + 1 /\ Len(all) \in Nat
          BY <1>3, <1>4, <3>1
        <4>3. m <= Len(evidence')
          BY <1>3, <2>4, <4>1, <4>2
        <4>4. ASSUME NEW i \in DOMAIN evidence', i > Len(evidence') - m
              PROVE  limit \in evidence'[i]
          <5>1. i + 1 \in 1..Len(all) /\ i + 1 > Len(all) - m
            BY <1>3, <4>1, <4>2, <4>4
          <5> QED
            BY <2>4, <4>1, <4>4, <5>1
        <4> QED
          BY <4>3, <4>4 DEF Justified
      <3>2. CASE ~(Len(all) > ConsecutiveBreaches)
        <4>1. evidence' = all /\ DOMAIN all = 1..Len(all)
          BY <1>1, <1>4, <3>2
        <4> QED
          BY <2>4, <4>1 DEF Justified
      <3> QED
        BY <3>1, <3>2
    <2> QED
      BY <1>1, <2>3, <2>5 DEF Justified
  <1> QED
    BY <1>1, <1>5 DEF EvidenceInv

LEMMA EvidenceNext ==
    ASSUME IInv, WindowIsExact, EvidenceInv, [Next]_vars
    PROVE  EvidenceInv'
  <1>1. CASE MonitorEvaluates
    <2>1. WindowTypeOK /\ WindowShape /\ BreakerType /\ StreakInv
      BY TypeParts DEF IInv
    <2>2. CASE breaker.tripped
      BY <1>1, <2>2 DEF MonitorEvaluates, EvidenceInv, Justified, Trips
    <2>3. CASE ~breaker.tripped
      <3>1. Evaluate
        BY <1>1, <2>3 DEF MonitorEvaluates
      <3> QED
        BY <2>1, <3>1, StatsAreTrue, EvidenceEvaluate
    <2> QED
      BY <2>2, <2>3
  <1>2. CASE UNCHANGED <<breaker, evidence>>
    BY <1>2 DEF EvidenceInv, Justified, Trips
  <1>3. ASSUME NEW w \in Workers, WorkerStep(w) PROVE UNCHANGED <<breaker, evidence>>
    BY <1>3, WorkerFrame DEF Panic, watch
  <1>4. ASSUME EngineStep PROVE UNCHANGED <<breaker, evidence>>
    <2>1. RunFlatVU \/ LaunchSession \/ RampUp \/ DropSession => UNCHANGED <<breaker, evidence>>
      BY DEF RunFlatVU, LaunchSession, RampUp, DropSession, watch
    <2>2. StartLoop \/ StopLoop \/ NextStage \/ PoolReturns => UNCHANGED <<breaker, evidence>>
      BY DEF StartLoop, StopLoop, NextStage, PoolReturns, watch
    <2>3. ReadTripped \/ ReadCause => UNCHANGED <<breaker, evidence>>
      BY DEF ReadTripped, ReadCause, Return, watch
    <2> QED
      BY <1>4, <2>1, <2>2, <2>3 DEF EngineStep
  <1>5. ASSUME DurationElapses \/ CallerCancels \/ Tick \/ UNCHANGED vars
        PROVE  UNCHANGED <<breaker, evidence>>
    BY <1>5 DEF DurationElapses, CallerCancels, Tick, vars, watch
  <1> QED
    BY <1>1, <1>2, <1>3, <1>4, <1>5 DEF Next

-----------------------------------------------------------------------------
(* The theorems                                                            *)

LEMMA InvNext == IInv /\ [Next]_vars => IInv'
  <1> SUFFICES ASSUME IInv, [Next]_vars PROVE IInv'
    OBVIOUS
  <1>1. CASE EngineStep
    BY <1>1, RunFlatKeeps, LoopKeeps, LaunchKeeps, DropKeeps, RampUpKeeps, NextStageKeeps,
       PoolReturnsKeeps, ReturnKeeps DEF EngineStep
  <1>2. ASSUME NEW w \in Workers, WorkerStep(w) PROVE IInv'
    BY <1>2, PanicKeeps, WorkerKeeps
  <1>3. CASE DurationElapses \/ CallerCancels
    BY <1>3, StoppedKeeps
  <1>4. CASE Tick
    BY <1>4, TickKeeps
  <1>5. CASE MonitorEvaluates
    BY <1>5, MonitorKeeps
  <1>6. CASE UNCHANGED vars
    <2>1. /\ UNCHANGED <<now, breaker, evidence, buckets, measured, metrics, performed>>
          /\ UNCHANGED <<session, profile, active, sessions, stage, engine, tick>>
          /\ UNCHANGED <<cause, parentDone, summary>>
      BY <1>6 DEF vars, watch, telemetry, window, pool, stop
    <2>2. EngineType' /\ StopType' /\ MetricsType'
      BY <2>1, TypeParts DEF IInv, EngineType, StopType, MetricsType
    <2>3. LoadInv' /\ EndInv' /\ StopInv' /\ StatusIsEarned'
      BY <2>1 DEF IInv, LoadInv, Live, EndInv, StopInv, StatusIsEarned, Stopped
    <2> QED
      BY <2>1, <2>2, <2>3, ControlKeeps
  <1> QED
    BY <1>1, <1>2, <1>3, <1>4, <1>5, <1>6 DEF Next

LEMMA Invariance == Spec => []IInv
  BY InvInit, InvNext, PTL DEF Spec

(* Every variable keeps its type: no session is longer than its limit, the
   streaks of the breaker end where it trips. *)
THEOREM TypeCorrect == Spec => []TypeOK
  <1>1. IInv => TypeOK
    BY DEF IInv
  <1> QED
    BY <1>1, Invariance, PTL

(* No profile ever has more virtual users on the target than it was asked
   for (pool.go). *)
THEOREM LoadBounded == Spec => []LoadIsBounded
  <1>1. IInv => LoadIsBounded
    BY DEF IInv, LoadInv, LoadIsBounded
  <1> QED
    BY <1>1, Invariance, PTL

(* A run is reported completed only when nobody stopped it, and as anything
   else only when that is what stopped it (engine.go, Run). *)
THEOREM StatusEarned == Spec => []StatusIsEarned
  <1>1. IInv => StatusIsEarned
    BY DEF IInv
  <1> QED
    BY <1>1, Invariance, PTL

(* When Run has returned, none of its goroutines sends load any more. *)
THEOREM NoWorkerOutlivesRun == Spec => [](engine = "done" => Live = {})
  <1>1. IInv => (engine = "done" => Live = {})
    BY LiveFinite, FS_EmptySet DEF IInv, LoadInv
  <1> QED
    BY <1>1, Invariance, PTL

(* What Run returns when all its workers are gone is every result they had: *)
(* each step that was carried out, with the last of its attempts, and each *)
(* session that was dropped is in the summary once, and the summary is     *)
(* what was recorded slice by slice (engine.go, Run; the sessions still in *)
(* flight are waited for).  Attempts that were repeated are in neither.    *)
THEOREM SummaryFinal == Spec => []SummaryIsFinal
  <1>1. IInv /\ AccountInv => SummaryIsFinal
    <2> SUFFICES ASSUME IInv, AccountInv, engine = "done" PROVE SummaryIsFinal
      BY DEF SummaryIsFinal
    <2>1. Live = {}
      BY LiveFinite, FS_EmptySet DEF IInv, LoadInv
    <2>2. \A w \in Workers : session[w].history = <<>> /\ Good(session[w])
      BY <2>1 DEF Live, AccountInv, IInv, SessionInv
    <2>3. \A w \in Workers : Owed(session[w]) = 0 /\ Halfway(session[w]) = 0 /\ HalfwayError(session[w]) = 0
      BY <2>2, Weights
    <2>4. Outstanding = 0 /\ HalfwayResults = 0 /\ HalfwayErrors = 0
      BY <2>3, EngineFacts, SumZero DEF Outstanding, HalfwayResults, HalfwayErrors
    <2>5. /\ SumOf(0..now, InSlices).requests = SliceRequests
          /\ SumOf(0..now, InSlices).errors = SliceErrors
      <3>1. /\ [s \in 0..now |-> InSlices[s].requests] = [s \in 0..now |-> measured[s + 1].requests]
            /\ [s \in 0..now |-> InSlices[s].errors] = [s \in 0..now |-> measured[s + 1].errors]
        BY DEF InSlices, Measured
      <3> QED
        BY <3>1 DEF SumOf, SliceRequests, SliceErrors
    <2>6. /\ SliceRequests \in Nat /\ SliceErrors \in Nat
          /\ metrics.requests \in Nat /\ metrics.errors \in Nat
      BY SliceTypes, TypeWindow, TypeParts DEF IInv, MetricsType
    <2> QED
      BY <2>1, <2>4, <2>5, <2>6 DEF AccountInv, SummaryIsFinal
  <1> QED
    BY <1>1, AccountInit, AccountNext, Invariance, PTL DEF Spec

(* With recorders that are late by less than a round of the ring, the window
   holds exactly what was recorded (sliding_window.go). *)
THEOREM WindowExact ==
    ASSUME MaxDelay < NumBuckets
    PROVE  Spec => []WindowIsExact
  <1>1. Init => WindowIsExact
    BY WindowInit DEF Init
  <1>2. ASSUME IInv, WindowIsExact, [Next]_vars PROVE WindowIsExact'
    <2>1. WindowTypeOK /\ WindowShape /\ now \in Nat
      BY <1>2, TypeWindow DEF IInv, WindowTypeOK
    <2>2. ASSUME NEW w \in Workers, RecordInWindow(w) PROVE WindowIsExact'
      <3>1. /\ Good(session[w]) /\ session[w].pc = "stamped"
            /\ WindowRecord(session[w].stamp, Head(session[w].history)) /\ UNCHANGED now
        BY <1>2, <2>2 DEF RecordInWindow, Is, IInv, SessionInv
      <3>2. session[w].stamp \in 0..now /\ InWindow(session[w].stamp)
        BY <2>1, <3>1, EngineFacts, BreakerFacts, SMTT(30) DEF Good, Session, InWindow
      <3> QED
        BY <1>2, <2>1, <3>1, <3>2, RecordExact
    <2>3. CASE DropSession
      <3>1. WindowRecord(now, "error") /\ UNCHANGED now
        BY <2>3 DEF DropSession
      <3>2. now \in 0..now /\ InWindow(now)
        BY <2>1, BreakerFacts DEF InWindow
      <3> QED
        BY <1>2, <2>1, <3>1, <3>2, RecordExact
    <2>4. CASE Tick
      BY <1>2, <2>1, <2>4, TickWindow DEF Tick
    <2>5. CASE UNCHANGED <<now, buckets, measured>>
      BY <1>2, <2>5 DEF WindowIsExact, InWindow, BucketOf, Measured
    <2>6. ASSUME NEW w \in Workers, WorkerStep(w), ~RecordInWindow(w)
          PROVE  UNCHANGED <<now, buckets, measured>>
      BY <2>6 DEF WorkerStep, TakeSession, ExecuteStep, Panic, RecordStep, FinishSession,
                  telemetry, window
    <2>7. ASSUME EngineStep, ~DropSession
          PROVE  UNCHANGED <<now, buckets, measured>>
      <3>1. RunFlatVU \/ LaunchSession \/ RampUp => UNCHANGED <<now, buckets, measured>>
        BY DEF RunFlatVU, LaunchSession, RampUp, telemetry, window
      <3>2. StartLoop \/ StopLoop \/ NextStage \/ PoolReturns => UNCHANGED <<now, buckets, measured>>
        BY DEF StartLoop, StopLoop, NextStage, PoolReturns, telemetry, window
      <3>3. ReadTripped \/ ReadCause => UNCHANGED <<now, buckets, measured>>
        BY DEF ReadTripped, ReadCause, Return, telemetry, window
      <3> QED
        BY <2>7, <3>1, <3>2, <3>3 DEF EngineStep
    <2>8. ASSUME DurationElapses \/ CallerCancels \/ MonitorEvaluates
          PROVE  UNCHANGED <<now, buckets, measured>>
      BY <2>8 DEF DurationElapses, CallerCancels, MonitorEvaluates, telemetry, window
    <2>9. ASSUME UNCHANGED vars PROVE UNCHANGED <<now, buckets, measured>>
      BY <2>9 DEF vars, telemetry, window
    <2> QED
      BY <1>2, <2>2, <2>3, <2>4, <2>5, <2>6, <2>7, <2>8, <2>9 DEF Next
  <1> QED
    BY <1>1, <1>2, Invariance, PTL DEF Spec
(* The breaker trips only when the results themselves broke one limit at   *)
(* ConsecutiveBreaches evaluations in a row (circuit_breaker.go, evaluate; *)
(* sliding_window.go, Stats): nothing that is too old for the window, or   *)
(* was recorded late, ever counts.                                         *)
THEOREM TripJustified ==
    ASSUME MaxDelay < NumBuckets
    PROVE  Spec => []TripIsJustified
  <1>1. ASSUME IInv, EvidenceInv, breaker.tripped
        PROVE  /\ Len(evidence) = ConsecutiveBreaches
               /\ \E limit \in Limits : \A i \in DOMAIN evidence : limit \in evidence[i]
    <2>1. /\ evidence \in Seq(SUBSET Limits) /\ Len(evidence) <= ConsecutiveBreaches
          /\ Len(evidence) \in Nat /\ ConsecutiveBreaches \in Nat
      BY <1>1, TypeParts, BreakerFacts DEF IInv, BreakerType
    <2>2. PICK limit \in Limits : breaker.streaks[limit] >= ConsecutiveBreaches
      BY <1>1 DEF EvidenceInv, Trips
    <2>3. PICK n \in Nat : /\ n >= ConsecutiveBreaches /\ n <= Len(evidence)
                           /\ \A i \in DOMAIN evidence : i > Len(evidence) - n => limit \in evidence[i]
      BY <1>1, <2>2, TypeParts DEF IInv, BreakerType, EvidenceInv, Justified
    <2>4. Len(evidence) = ConsecutiveBreaches /\ n = Len(evidence)
      BY <2>1, <2>3
    <2>5. \A i \in DOMAIN evidence : i > Len(evidence) - n
      BY <2>1, <2>4
    <2> QED
      BY <2>3, <2>4, <2>5
  <1>2. IInv /\ EvidenceInv => TripIsJustified
    BY <1>1 DEF TripIsJustified
  <1>3. IInv /\ WindowIsExact /\ EvidenceInv /\ [Next]_vars => EvidenceInv'
    BY EvidenceNext
  <1> QED
    BY <1>2, <1>3, EvidenceInit, WindowExact, Invariance, PTL DEF Spec
=============================================================================
