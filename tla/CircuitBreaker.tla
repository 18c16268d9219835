--------------------------- MODULE CircuitBreaker ---------------------------
(***************************************************************************)
(* The sliding window (pkg/loadengine/sliding_window.go) and the circuit   *)
(* breaker that watches it (circuit_breaker.go).  The operators are the    *)
(* methods, as steps of the window and the breaker; LoadEngine has the     *)
(* virtual users that record and the run that is stopped.                  *)
(*                                                                         *)
(* Time goes by in slices of one EvaluationInterval, which is the width of *)
(* a bucket too, and which divides WindowDuration.  A result is known by   *)
(* whether it is an error and whether it took longer than MaxP99Latency.   *)
(***************************************************************************)
EXTENDS Integers, Sequences, FiniteSets, Functions

CONSTANTS
    NumBuckets,           \* WindowDuration / EvaluationInterval
    MinRequests,
    MaxErrorPercent,      \* MaxErrorRate; 0 is no limit
    LimitsLatency,        \* MaxP99Latency > 0
    ConsecutiveBreaches

ASSUME BreakerConstants ==
    /\ NumBuckets \in Nat \ {0}
    /\ MinRequests \in Nat \ {0}
    /\ MaxErrorPercent \in Nat
    /\ LimitsLatency \in BOOLEAN
    /\ ConsecutiveBreaches \in Nat \ {0}

VARIABLES
    now,       \* the current slice
    buckets,   \* the ring: the slice and the counts of every bucket
    breaker,   \* CircuitBreakerMonitor: a streak of breaches per limit, and tripped
    measured,  \* history: the counts of every slice so far
    evidence   \* history: the limits that were truly breached at the last
               \* evaluations

window == <<buckets, measured>>

(* "accepted" is a server error that the assertions of its step accept: the
   session goes on, the counters have an error. *)
Results == {"ok", "slow", "accepted", "error", "timeout"}
IsError(result) == result \in {"accepted", "error", "timeout"}
IsSlow(result) == result \in {"slow", "timeout"}

Counts == [requests : Nat, errors : Nat, slow : Nat]
NoCounts == [requests |-> 0, errors |-> 0, slow |-> 0]

AddResult(c, result) ==
    [requests |-> c.requests + 1,
     errors |-> c.errors + (IF IsError(result) THEN 1 ELSE 0),
     slow |-> c.slow + (IF IsSlow(result) THEN 1 ELSE 0)]

Limits == {"errors", "latency"}

(* The timestamp of a bucket nothing was recorded in. *)
Never == -NumBuckets

BreakerInit ==
    /\ now = 0
    /\ buckets = [i \in 0..(NumBuckets - 1) |-> [slice |-> Never, counts |-> NoCounts]]
    /\ breaker = [streaks |-> [limit \in Limits |-> 0], tripped |-> FALSE]
    /\ measured = <<NoCounts>>
    /\ evidence = <<>>

(* History: the counts of slice s. *)
Measured(s) == measured[s + 1]

-----------------------------------------------------------------------------
(* SlidingWindow                                                           *)

(* slice % NumBuckets, by the quotient, of which the provers know more. *)
Slot(slice) == slice - NumBuckets * (slice \div NumBuckets)

(* Mutant: the slot of another slice is not reset *)
BucketOf_NoReset(slice) == buckets[Slot(slice)].counts

(* What the bucket holds for this slice: nothing if it is another one's. *)
BucketOf(slice) ==
    IF buckets[Slot(slice)].slice = slice THEN buckets[Slot(slice)].counts ELSE NoCounts

(* slice is the one the recorder saw on the clock before it had the lock. *)
WindowRecord(slice, result) ==
    /\ buckets' = [buckets EXCEPT ![Slot(slice)] =
                       [slice |-> slice, counts |-> AddResult(BucketOf(slice), result)]]
    /\ measured' = [measured EXCEPT ![slice + 1] = AddResult(@, result)]

InWindow(slice) == slice > now - NumBuckets

SumOf(S, counts) ==
    [requests |-> SumFunctionOnSet([x \in S |-> counts[x].requests], S),
     errors |-> SumFunctionOnSet([x \in S |-> counts[x].errors], S),
     slow |-> SumFunctionOnSet([x \in S |-> counts[x].slow], S)]

InBuckets == [i \in DOMAIN buckets |-> buckets[i].counts]
InSlices == [s \in 0..now |-> Measured(s)]

(* Mutant: the buckets of slices that are over a round ago count as well. *)
Stats_Unaged == SumOf(DOMAIN buckets, InBuckets)

Stats == SumOf({i \in DOMAIN buckets : InWindow(buckets[i].slice)}, InBuckets)

(* History: what Stats stands for. *)
TrueStats == SumOf({s \in 0..now : InWindow(s)}, InSlices)

-----------------------------------------------------------------------------
(* CircuitBreakerMonitor                                                   *)

ErrorsBreach(c) ==
    /\ MaxErrorPercent > 0
    /\ 100 * c.errors > MaxErrorPercent * c.requests

(* P99 is above the limit once more than one in a hundred is. *)
LatencyBreaches(c) == LimitsLatency /\ c.slow > c.requests \div 100

(* Too few requests breach nothing. *)
Breached(c) ==
    {limit \in Limits : /\ c.requests >= MinRequests
                        /\ \/ limit = "errors" /\ ErrorsBreach(c)
                           \/ limit = "latency" /\ LatencyBreaches(c)}

Streaks(breached) ==
    [limit \in Limits |-> IF limit \in breached THEN breaker.streaks[limit] + 1 ELSE 0]

Trips(streaks) == \E limit \in Limits : streaks[limit] >= ConsecutiveBreaches

(* evaluate, by a breaker that has not tripped; its caller cancels the run. *)
Evaluate ==
    LET streaks == Streaks(Breached(Stats))
        all == Append(evidence, Breached(TrueStats))
    IN  /\ ~breaker.tripped
        /\ breaker' = [streaks |-> streaks, tripped |-> Trips(streaks)]
        /\ evidence' = IF Len(all) > ConsecutiveBreaches THEN Tail(all) ELSE all
=============================================================================
