----------------------------- MODULE Diagnostics -----------------------------
(***************************************************************************)
(* What the server says about a run that has ended: the diagnostic report  *)
(* of pkg/remediation, the benchmark pool the run is shared with, and the  *)
(* comparison of a run with the one before it (pkg/server/trend.go).       *)
(*                                                                         *)
(* A summary is what the load engine measured: requests, errors, P99 in    *)
(* milliseconds, the answers by group of status codes, whether the circuit *)
(* breaker ended the run, and what its reason speaks of.  Wording, fixes   *)
(* and configuration patches are left out, and so is the estimate of lost  *)
(* revenue, which nothing reads back.                                      *)
(*                                                                         *)
(* The code computes in floating point; here every comparison is cleared   *)
(* of its denominator, so that it is exact.                                *)
(***************************************************************************)
EXTENDS Integers, FiniteSets, Sequences

CONSTANTS
    Measured,       \* the summaries a run can end with
    Configured,     \* the users, chaos and category ("": not shared) of runs
    Shared,         \* the scores and latencies other deployments share
    MaxFinished,    \* bound: runs that end
    MaxShared       \* bound: a pool takes the results of others up to this

(* Whatever the load engine counts; a category is a name, or none. *)
ASSUME DiagConstants ==
    /\ Measured \subseteq [requests : Nat \ {0}, errors : Nat, fatal : Nat, p99 : Nat,
                          tripped : BOOLEAN, late : Nat, limited : Nat, reason : STRING]
    /\ Configured \subseteq [vus : Int, chaos : BOOLEAN, category : STRING]
    /\ Shared \subseteq [score : 1..100, p99 : Nat]

VARIABLES
    finished,       \* TestCoordinator's repository: ended runs, oldest first
    pool            \* Aggregator.data: submissions by category

diagVars == <<finished, pool>>

NotMeasured == [requests |-> 0]     \* a nil summary, or one without requests

Pools == ({c.category : c \in Configured} \ {""}) \cup {"other"}

DiagInit == finished = <<>> /\ pool = [c \in Pools |-> <<>>]

-----------------------------------------------------------------------------
(* Analyze *)

AtLeast(n, low) == IF n < low THEN low ELSE n
AtMost(n, high) == IF n > high THEN high ELSE n

LatencyPenalty(p99) ==
    CASE p99 > 3000 -> 30
      [] p99 > 1500 /\ p99 <= 3000 -> 20
      [] p99 > 800 /\ p99 <= 1500 -> 10
      [] p99 > 400 /\ p99 <= 800 -> 5
      [] OTHER -> 0

(* Mutant: the two penalties for fatal answers are swapped. *)
CrashPenalty_Swapped(s) ==
    IF s.fatal = 0 THEN 0 ELSE IF s.fatal * 10 > s.requests THEN 8 ELSE 15

CrashPenalty(s) ==
    IF s.fatal = 0 THEN 0 ELSE IF s.fatal * 10 > s.requests THEN 15 ELSE 8

(* 100 - min(150% of the error rate, 55) - the penalties, rounded, in 5..100. *)
HealthScore(s) ==
    LET points == s.requests
                  * (100 - LatencyPenalty(s.p99) - CrashPenalty(s) - IF s.tripped THEN 20 ELSE 0)
                  - AtMost(150 * s.errors, 55 * s.requests)
    IN  AtMost(AtLeast((2 * points + s.requests) \div (2 * s.requests), 5), 100)

SafeVUCount(score, vus) ==
    CASE score >= 85 -> vus
      [] score >= 60 /\ score < 85 -> AtLeast((vus * 7) \div 10, 1)
      [] score < 60 -> AtLeast((vus * score) \div 120, 1)

DetectedIssues(s, vus, chaos) ==
    LET timeout == s.late > 0 \/ s.reason = "timeout"
        spike == s.p99 > 1200 \/ (vus >= 50 /\ s.p99 > 800)
    IN  {i \in {"timeout", "crash", "rate_limit", "latency", "chaos"} :
            CASE i = "timeout" -> timeout
              [] i = "crash" -> s.fatal > 0 \/ s.reason = "connection refused"
              [] i = "rate_limit" -> s.limited > 0
              [] i = "latency" -> spike /\ ~timeout
              [] i = "chaos" -> chaos}

(* The first pattern found names the cause; chaos names none, and a run that
   is not healthy without a pattern is left without a cause. *)
RootCause(issues, score) ==
    CASE "timeout" \in issues -> "timeout"
      [] "crash" \in issues /\ "timeout" \notin issues -> "crash"
      [] "rate_limit" \in issues /\ issues \cap {"timeout", "crash"} = {} -> "rate_limit"
      [] "latency" \in issues /\ issues \cap {"timeout", "crash", "rate_limit"} = {} -> "latency"
      [] issues = {} /\ score >= 85 -> "healthy"
      [] OTHER -> ""

Analyze(s, configured, chaos) ==
    LET vus == IF configured <= 0 THEN 10 ELSE configured
        issues == DetectedIssues(s, vus, chaos)
        score == HealthScore(s)
    IN  IF s.requests = 0
        THEN [score |-> 50, safe |-> 0, issues |-> {}, cause |-> "unreachable"]
        ELSE [score |-> score, safe |-> SafeVUCount(score, vus),
              issues |-> issues, cause |-> RootCause(issues, score)]

-----------------------------------------------------------------------------
(* Benchmark pool *)

P99Of(s) == IF s.requests = 0 THEN 0 ELSE s.p99

CategoryOf(category) == IF category = "" THEN "other" ELSE category

Share(category, score, p99) ==
    pool' = [pool EXCEPT ![CategoryOf(category)] =
                Append(@, [score |-> score, p99 |-> p99])]

(* A rank is a number of submissions, not their share of the pool: only ranks
   in the same pool are compared. *)
percentileRank(category, score) ==
    Cardinality({i \in DOMAIN pool[category] : pool[category][i].score <= score})

fasterThanRank(category, p99) ==
    Cardinality({i \in DOMAIN pool[category] : pool[category][i].p99 > p99})

(* percentileLocked: without three submissions there is no rank. *)
Compare(category, score, p99) ==
    IF Len(pool[category]) < 3 THEN [health |-> 0, latency |-> 0]
    ELSE [health |-> percentileRank(category, score),
          latency |-> fasterThanRank(category, p99)]

-----------------------------------------------------------------------------
(* A run ends *)

(* The outcome of executeRun: what the breaker ended is aborted, as is what
   was cancelled; a run that failed has no summary. *)
StatusesAfter(s) ==
    CASE s = NotMeasured -> {"completed", "aborted", "failed"}
      [] s # NotMeasured /\ s.tripped -> {"aborted"}
      [] s # NotMeasured /\ ~s.tripped -> {"completed", "aborted"}

(* updateRunStatus stores the report with the summary; finalizeRun shares a
   completed run that has a category.  The report of a run that failed is made
   when it is asked for, and is the same. *)
Finish(s, status, config) ==
    LET report == Analyze(s, config.vus, config.chaos)
    IN  /\ Len(finished) < MaxFinished
        /\ finished' = Append(finished, [status |-> status, summary |-> s,
                                         vus |-> config.vus, report |-> report])
        /\ IF status = "completed" /\ config.category # ""
           THEN Share(config.category, report.score, P99Of(s))
           ELSE UNCHANGED pool

(* handleBenchmarkSubmit: another deployment shares a result. *)
Submit(category, score, p99) ==
    /\ Len(pool[CategoryOf(category)]) < MaxShared
    /\ Share(category, score, p99)
    /\ UNCHANGED finished

-----------------------------------------------------------------------------
(* Comparison of two runs *)

(* The latest completed run before the i-th; 0 is none. *)
FindPreviousCompleted(i) ==
    LET before == {j \in 1..(i - 1) : finished[j].status = "completed"}
    IN  IF before = {} THEN 0 ELSE CHOOSE j \in before : \A k \in before : k <= j

(* errorRateOf is the quotient of these two. *)
ErrorsOf(s) == IF s.requests = 0 THEN 0 ELSE s.errors
RequestsOf(s) == AtLeast(s.requests, 1)

(* The verdict of CompareRuns.  A change of P99 is relative to the baseline,
   and is none when the baseline has none. *)
CompareRuns(current, baseline) ==
    LET a == current.summary
        b == baseline.summary
        health == current.report.score - baseline.report.score
        slower == 100 * (P99Of(a) - P99Of(b))
        errors == 100 * (ErrorsOf(a) * RequestsOf(b) - ErrorsOf(b) * RequestsOf(a))
        regressed == \/ health < -5
                     \/ P99Of(b) > 0 /\ slower > 15 * P99Of(b)
                     \/ errors > 5 * RequestsOf(a) * RequestsOf(b)
        improved == health > 5 \/ (P99Of(b) > 0 /\ slower < -15 * P99Of(b))
    IN  IF regressed THEN "regressed" ELSE IF improved THEN "improved" ELSE "stable"

(* handleRunTrend: the baseline is named by the caller or the run before;
   without one, or without the summary of either run, there is no verdict. *)
handleRunTrend(i, named) ==
    LET j == IF named # 0 THEN named ELSE FindPreviousCompleted(i)
    IN  IF j = 0 \/ "failed" \in {finished[i].status, finished[j].status} THEN "none"
        ELSE CompareRuns(finished[i], finished[j])

(* badgeColorForScore. *)
BadgeColor(score) ==
    CASE score >= 85 -> "green"
      [] score >= 60 /\ score < 85 -> "yellow"
      [] score < 60 -> "red"

-----------------------------------------------------------------------------
DiagNext ==
    \/ \E s \in Measured \cup {NotMeasured}, config \in Configured :
          \E status \in StatusesAfter(s) : Finish(s, status, config)
    \/ \E category \in Pools, result \in Shared : Submit(category, result.score, result.p99)

DiagSpec == DiagInit /\ [][DiagNext]_diagVars

DiagTypeOK ==
    /\ \A i \in DOMAIN finished :
          /\ finished[i].report.score \in 5..100
          /\ finished[i].report.safe \in 0..AtLeast(finished[i].vus, 10)
    /\ \A c \in Pools : \A i \in DOMAIN pool[c] : pool[c][i].score \in 1..100

-----------------------------------------------------------------------------
(* One measurement is no better than another: no measure of it is. *)
Fewer(a, b, field) == a[field] * b.requests >= b[field] * a.requests

NoBetter(a, b) ==
    /\ a.requests > 0 /\ b.requests > 0
    /\ Fewer(a, b, "errors") /\ Fewer(a, b, "fatal")
    /\ a.p99 >= b.p99
    /\ b.tripped => a.tripped

(* A run that was worse in no less than everything - errors, crashes, latency
   and the circuit breaker - is never reported as the safer one: not by its
   health score or its badge, not by the capacity its report calls safe, not by
   its rank in a benchmark pool, and not by the comparison with the run before
   it.  The thresholds, caps and roundings of Analyze, CompareRuns and
   percentileLocked have to agree with each other for that. *)
WorseIsNeverSafer ==
    \A i, j \in DOMAIN finished :
        LET a == finished[i]
            b == finished[j]
            RankIn(c, run) == Compare(c, run.report.score, P99Of(run.summary))
            grades == [red |-> 0, yellow |-> 1, green |-> 2]
        IN  NoBetter(a.summary, b.summary) =>
                /\ a.report.score <= b.report.score
                /\ grades[BadgeColor(a.report.score)] <= grades[BadgeColor(b.report.score)]
                /\ a.vus = b.vus => a.report.safe <= b.report.safe
                /\ \A c \in Pools : /\ RankIn(c, a).health <= RankIn(c, b).health
                                    /\ RankIn(c, a).latency <= RankIn(c, b).latency
                /\ handleRunTrend(i, j) # "improved"
                /\ FindPreviousCompleted(i) = j => handleRunTrend(i, 0) # "improved"
=============================================================================
