--------------------------- MODULE LatencyMetrics ---------------------------
(***************************************************************************)
(* The metrics of a run while its workers record into them                 *)
(* (pkg/loadengine/metrics.go): the numbers of requests and errors, the    *)
(* histogram of latencies with its smallest and largest one, all atomics   *)
(* and no lock, once for the run and once for every step.  The tracker of  *)
(* a step is made by whoever records the step first.  Meanwhile the        *)
(* telemetry goroutine takes snapshots.  Every atomic access is a step of  *)
(* its own.                                                                *)
(***************************************************************************)
EXTENDS Integers, Sequences, FiniteSets, FiniteSetsExt, Functions

CONSTANTS
    Recorders,      \* goroutines that record, one result each
    Outcome,        \* the results there may be: [step, micros, error]
    LinearBuckets,  \* buckets of one microsecond
    TotalBuckets,   \* the last one holds whatever is slower
    Lower,          \* the latency each bucket begins with; from LinearBuckets
                    \* on they grow by a constant factor, 1.01 in the code
    Percentages     \* quantiles that are asked for, between 0 and 100

Unset == 1000000   \* math.MaxUint64, above every latency

ASSUME MetricsConstants ==
    /\ IsFiniteSet(Recorders)
    /\ Outcome \subseteq [step : STRING, micros : 0..Unset, error : BOOLEAN]
    /\ LinearBuckets \in Nat \ {0} /\ TotalBuckets \in Nat /\ LinearBuckets < TotalBuckets
    /\ Lower \in [0..(TotalBuckets - 1) -> Nat]
    /\ \A b \in 0..LinearBuckets : Lower[b] = b
    /\ \A b \in LinearBuckets..(TotalBuckets - 2) : Lower[b] < Lower[b + 1]
    /\ Percentages \subseteq 1..99

Run == 0   \* the tracker of the whole run; the others are numbered as they are made
Trackers == 0..(2 * Cardinality(Recorders))

VARIABLES
    tracker,      \* the trackers by number
    trackerOf,    \* MetricsAccumulator.steps: the numbers by step
    trackersMade, \* how many have been made
    recorder,     \* of every recorder: [pc, result, into, seen]
    snapshot      \* the one that is being taken: [pc, requests, errors, rank, sum, bucket]

metricsVars == <<tracker, trackerOf, trackersMade, recorder, snapshot>>

Buckets == 0..(TotalBuckets - 1)
Empty == [requests |-> 0, errors |-> 0, buckets |-> [b \in Buckets |-> 0], count |-> 0,
          sum |-> 0, min |-> Unset, max |-> 0]
NoSnapshot == [pc |-> "idle", requests |-> 0, errors |-> 0, rank |-> 0, sum |-> 0, bucket |-> 0]

MetricsInit ==
    /\ tracker = [t \in Trackers |-> Empty] /\ trackerOf = <<>> /\ trackersMade = 0
    /\ recorder \in [Recorders -> {[pc |-> "requests", result |-> r, into |-> Run, seen |-> 0] : r \in Outcome}]
    /\ snapshot = NoSnapshot

(* The last bucket that begins with no more. *)
BucketOfMicros(micros) == Max({b \in Buckets : Lower[b] <= micros})

bucketToDuration(b) == Lower[b]

At(r, pc) == recorder[r].pc = pc
Into(r) == tracker[recorder[r].into]
Micros(r) == recorder[r].result.micros
Go(r, pc) == recorder' = [recorder EXCEPT ![r].pc = pc]
Set(r, new) == tracker' = [tracker EXCEPT ![recorder[r].into] = new]

AddRequest(r) ==
    /\ At(r, "requests") /\ Set(r, [Into(r) EXCEPT !.requests = @ + 1]) /\ Go(r, "errors")

AddError(r) ==
    /\ At(r, "errors")
    /\ Set(r, [Into(r) EXCEPT !.errors = IF recorder[r].result.error THEN @ + 1 ELSE @])
    /\ Go(r, "bucket")

(* Mutant: the count is raised before the bucket *)
AddToHistogram_CountFirst(r) ==
    \/ /\ At(r, "bucket") /\ Set(r, [Into(r) EXCEPT !.count = @ + 1]) /\ Go(r, "count")
    \/ /\ At(r, "count") /\ Set(r, [Into(r) EXCEPT !.buckets[BucketOfMicros(Micros(r))] = @ + 1])
       /\ Go(r, "sum")

AddToHistogram(r) ==
    \/ /\ At(r, "bucket") /\ Set(r, [Into(r) EXCEPT !.buckets[BucketOfMicros(Micros(r))] = @ + 1])
       /\ Go(r, "count")
    \/ /\ At(r, "count") /\ Set(r, [Into(r) EXCEPT !.count = @ + 1]) /\ Go(r, "sum")

AddSum(r) == At(r, "sum") /\ Set(r, [Into(r) EXCEPT !.sum = @ + Micros(r)]) /\ Go(r, "min")

(* The two loops: look, and swap if nobody else has meanwhile. *)
Look(r, pc, swap, next, value, better) ==
    /\ At(r, pc)
    /\ recorder' = [recorder EXCEPT ![r].seen = value,
                                    ![r].pc = IF better THEN swap ELSE next]
    /\ UNCHANGED tracker

UpdateMin(r) ==
    \/ Look(r, "min", "swap min", "max", Into(r).min, Micros(r) < Into(r).min)
    \/ /\ At(r, "swap min")
       /\ IF Into(r).min = recorder[r].seen
          THEN Set(r, [Into(r) EXCEPT !.min = Micros(r)]) /\ Go(r, "max")
          ELSE Go(r, "min") /\ UNCHANGED tracker

AfterMax(r) == IF recorder[r].into = Run THEN "lookup" ELSE "done"

UpdateMax(r) ==
    \/ Look(r, "max", "swap max", AfterMax(r), Into(r).max, Micros(r) > Into(r).max)
    \/ /\ At(r, "swap max")
       /\ IF Into(r).max = recorder[r].seen
          THEN Set(r, [Into(r) EXCEPT !.max = Micros(r)]) /\ Go(r, AfterMax(r))
          ELSE Go(r, "max") /\ UNCHANGED tracker

(* RecordStep looks the tracker up under the read lock, and makes one under
   the write lock if it is still not there. *)
LookUp(r) ==
    /\ At(r, "lookup")
    /\ IF recorder[r].result.step \in DOMAIN trackerOf
       THEN recorder' = [recorder EXCEPT ![r].pc = "requests", ![r].into = trackerOf[recorder[r].result.step]]
       ELSE Go(r, "make")
    /\ UNCHANGED <<tracker, trackerOf, trackersMade>>

MakeTracker(r) ==
    LET step == recorder[r].result.step
        known == step \in DOMAIN trackerOf
        number == IF known THEN trackerOf[step] ELSE trackersMade + 1
    IN
    /\ At(r, "make")
    /\ trackersMade' = IF known THEN trackersMade ELSE number
    /\ trackerOf' = [s \in DOMAIN trackerOf \cup {step} |-> IF s = step THEN number ELSE trackerOf[s]]
    /\ recorder' = [recorder EXCEPT ![r].pc = "requests", ![r].into = number]
    /\ UNCHANGED tracker

RecordResult(r) ==
    \/ (AddRequest(r) \/ AddError(r) \/ AddToHistogram(r) \/ AddSum(r) \/ UpdateMin(r) \/ UpdateMax(r))
       /\ UNCHANGED <<trackerOf, trackersMade>>
    \/ LookUp(r) \/ MakeTracker(r)

(* Snapshot: requests, errors, and then Percentile of the run's histogram. *)
TakeSnapshot ==
    /\ snapshot.pc = "idle"
    /\ snapshot' = [NoSnapshot EXCEPT !.pc = "errors", !.requests = tracker[Run].requests]

ReadErrors ==
    /\ snapshot.pc = "errors"
    /\ snapshot' = [snapshot EXCEPT !.pc = "count", !.errors = tracker[Run].errors]

CeilDiv(a, b) == (a + b - 1) \div b

ReadCount(percentage) ==
    LET total == tracker[Run].count IN
    /\ snapshot.pc = "count"
    /\ snapshot' = [snapshot EXCEPT !.pc = IF total = 0 THEN "idle" ELSE "scan",
                                    !.rank = CeilDiv(percentage * total, 100)]

ScanBucket ==
    LET cumulative == snapshot.sum + tracker[Run].buckets[snapshot.bucket] IN
    /\ snapshot.pc = "scan"
    /\ snapshot' = [snapshot EXCEPT !.sum = cumulative,
                       !.bucket = IF cumulative < snapshot.rank /\ @ < TotalBuckets - 1
                                  THEN @ + 1 ELSE @,
                       !.pc = IF cumulative >= snapshot.rank THEN "found"
                              ELSE IF snapshot.bucket = TotalBuckets - 1 THEN "not found"
                              ELSE "scan"]

EndSnapshot == snapshot.pc \in {"found", "not found"} /\ snapshot' = NoSnapshot

SnapshotStep ==
    /\ \/ TakeSnapshot \/ ReadErrors \/ ScanBucket \/ EndSnapshot
       \/ \E percentage \in Percentages : ReadCount(percentage)
    /\ UNCHANGED <<tracker, trackerOf, trackersMade, recorder>>

MetricsNext ==
    \/ SnapshotStep
    \/ \E r \in Recorders : RecordResult(r) /\ UNCHANGED snapshot

MetricsSpec == MetricsInit /\ [][MetricsNext]_metricsVars

MetricsTypeOK ==
    /\ trackersMade \in Trackers /\ \A s \in DOMAIN trackerOf : trackerOf[s] \in 1..trackersMade
    /\ \A t \in Trackers : tracker[t].min \in Nat /\ tracker[t].max <= Unset
    /\ snapshot.bucket \in Buckets

(* What Summary reports of a tracker into which these results have gone. *)
Holds(t, results) ==
    LET of(r) == recorder[r].result IN
    /\ t.requests = Cardinality(results) /\ t.count = t.requests
    /\ t.errors = Cardinality({r \in results : of(r).error})
    /\ t.sum = SumFunctionOnSet([r \in results |-> of(r).micros], results)
    /\ t.min = Min({of(r).micros : r \in results} \cup {Unset})
    /\ t.max = Max({of(r).micros : r \in results} \cup {0})
    /\ \A b \in Buckets : t.buckets[b] = Cardinality({r \in results : BucketOfMicros(of(r).micros) = b})

(* A quantile is always found in a bucket, although the buckets are read one
   after the other while results come in, so it never falls through to the
   largest latency there is; and it is no more than the slowest result that
   somebody has begun to record.  When all have recorded, the run and every
   step have each result once, in the right bucket, with the smallest and
   largest latency right. *)
MetricsAreFaithful ==
    /\ snapshot.pc # "not found"
    /\ snapshot.pc = "found" =>
          \E r \in Recorders : /\ recorder[r].into # Run \/ ~At(r, "requests")
                               /\ bucketToDuration(snapshot.bucket) <= Micros(r)
    /\ (\A r \in Recorders : At(r, "done")) =>
          /\ Holds(tracker[Run], Recorders)
          /\ \A s \in DOMAIN trackerOf :
                Holds(tracker[trackerOf[s]], {r \in Recorders : recorder[r].result.step = s})
          /\ DOMAIN trackerOf = {recorder[r].result.step : r \in Recorders}
=============================================================================
