# Oshimai in TLA+

Oshimai is a resilience-testing server: it runs load tests of virtual users
against an application, injects network faults while they run, approves and
aborts runs, searches for the point where an application breaks, spreads load
over remote agents, streams what happens to browsers, runs weekly schedules, proves
that a target is the operator's own, makes scenarios from recordings and draws
conclusions from what it measured. This directory holds TLA+ modules for the parts of it that
keep state and act concurrently, configurations that check small instances of
them with TLC, and proofs, checked with TLAPS, that the main results hold for
every value of the constants.

Paths below are those of the repository. `PROJECT.json` maps every definition to
the lines it models, lists the hazards of the code with the properties that
watch them, and names for every property a small plausible bug that breaks it.

## Contents

1. The system
2. The modules and the code
3. Runs: what is checked
4. Bounds, and why they are enough
5. Fairness
6. What is proved
7. Disagreements between the code and what is said of it
8. What is only model-checked, and what is not modelled
9. Plan

## 1. The system

| Component | State it keeps | Operations | Hard behaviours |
|---|---|---|---|
| `chaos.ManagedChaosDriver` (`pkg/chaos/driver.go`) | status, current fault, watchdog timer, one monitor goroutine per Apply, the signal trap | Apply, Revert, Status, Close | timers that have fired and wait for the mutex; monitors that check, unlock and then revert; failed kernel calls; signals |
| `chaos.LinuxNetemDriver` (`driver_linux.go`) | `appliedFault`; the kernel's qdiscs behind it | Apply, Revert | calls that the kernel refuses; the qdiscs outlive the process; several interfaces, one record |
| `server.TestCoordinator` (`pkg/server/coordinator.go`) | semaphore, `activeRuns`, one goroutine per run, a chaos timer per run | StartRun, ApproveRun, AbortRun, executeRun | abort against every point of a run; a Revert whose error nobody reads; read-edit-write of the stored record by several parties |
| Storage (`repository.go`, `sqlite_repository.go`) | run records | Save, Get, Update, List | each call is atomic, a sequence of calls is not; calls fail |
| API handlers (`handler.go`) | none | share links, approvals, aborts, searches, streams | edit records the coordinator edits as well |
| Breaking-point search (`pkg/search`, `pkg/autopilot`, `pkg/autofuzz`, `search_coordinator.go`) | bisected range, trials, last passing capacity | Run, one trial at a time | shares the chaos driver with runs; floats and whole users; cancelled requests |
| Agents (`agent_registry.go`, `multiregion.go`, `cmd/agent`) | registry, assignment channel per agent, result channel per run and agent | Register, Heartbeat, Poll, Dispatch, SubmitResult, AwaitResult, RunMultiRegion | lost connections, late results, shared IDs, server restarts |
| Load engine (`pkg/loadengine`) | worker goroutines, circuit breaker, sliding window, metrics | Run with three load profiles, trip, return | stop during ramp-up, back-pressure, recorders that come late |
| Virtual users (`pkg/vusession`) | session state, cookies, variables | Execute: steps, retries, fallbacks, transitions | cancellation between retries, cycles |
| Event bus (`eventbus.go`, telemetry in `coordinator.go`, streams in `handler.go`) | subscribers per run, a channel each | Publish, Subscribe, unsubscribe, Close | several publishers under the read lock, slow subscribers lose events, the bus closes under open streams |
| Log buffer (`logbuffer.go`) | ring of recent lines, subscribers | Write, Add, GetRecent, Clear, Subscribe | the recent lines are copied before the stream subscribes |
| Resource stress (`pkg/chaos/resource_stress.go`) | status, a cancel function, a temporary directory; workers and a watcher per stress | Apply, Revert, Status | Apply over a stress in force; a watcher that knows its fault by ID |
| Fault proxy (`pkg/chaos/driver_httpproxy.go`) | the fault in force | Apply, Revert, ServeHTTP | requests that outlive the fault they read |
| Kubernetes chaos (`pkg/k8schaos`) | nothing between requests | kill pods, watch the autoscaler | pods that come and go between listing and deletion, calls that fail, answers that are lost |
| GameDay scheduler (`pkg/scheduler`) and its Terraform resource | schedules, `LastFiredAt`, a sequence number; the state Terraform keeps | Add, Remove, SetEnabled, checkAndFire; Create, Read, Update, Delete | fired outside the lock; local weekday, UTC hour; negative weekdays; lost answers and restarts |
| Target verification (`verification.go`, `pkg/verify`) | challenges and proofs per host | Status, Challenge, Confirm, the gate in StartRun | look-ups with no lock held; a status query that replaces the challenge; the host that is checked need not be the one that is tested |
| Preset store (`pkg/presets`) | a map of custom presets and a list of their order | Create, Update, Delete, stages | the map and the list must agree |
| Metrics (`pkg/loadengine/metrics.go`) | counters and histograms of atomic words, a tracker per step | Record, RecordStep, Snapshot, Summary | readers between two writes, two workers that make one tracker |
| Scenario generator (`pkg/generator`) and the session that walks its scenarios | none; variables of a session | importers, miner, replay, synthesizer, enricher, fuzzer, validation | sorting, filtering and chaining; names that collide; conditions and extractors |
| Diagnostics (`pkg/remediation`, `pkg/benchmark`, `trend.go`, `badge.go`) | benchmark pools | Analyze, Submit, Compare, compare two runs | thresholds of several functions that have to agree |
| Executive report, authorization letter, payloads, language-model clients, scanner, narrator, i18n, dotenv, web front end, extensions, CI action | none that the rest depends on | layout, text, input and output | none that several steps or actors could upset |

How they interact: the coordinator starts a load engine per run and an event
stream for it; the runs, the fuzzer and `AbortRun` share **one** chaos driver;
every party that changes a run reads its record, edits its copy and writes the
whole record back; a multi-region request goes through the registry to agents
which each run a load engine of their own. A run passes the gate of target verification
before it is stored, publishes snapshots of its metrics and its terminal events on
the bus while it is executed, and leaves a summary from which the diagnostics are
drawn. A schedule that is due starts a run like a client does; a scenario that was
imported is what the sessions of a load engine walk through. Every other chaos driver
belongs to its own endpoint.

What makes each correct, in a sentence: a fault never outlives its guards unless the
kernel refuses to let go of it; a run settles in a terminal state, executes only when
approved and never keeps its slot; a breaking point that is reported was measured; a
merged report consists of what was reported for that very run, and no more users of a
flat profile run than were asked for, or one for each agent; a stream shows what was
published, in order, and ends; a stress ends by itself, a request meets only the fault
it came under, and a kill takes no more than its share rounded up; a schedule fires
once in its minute and hardly after it was silenced; a run is started only when the host
that its request *declares*, if it declares one, was shown to be the operator's; what is measured adds up while it
is written; a session sends the paths of its source in the order of the source, to one base;
and a run that was worse is never called the safer one.

Three of these are less than a reader may expect, since the code gives no more: the ramp or
the rate of a multi-region request is not divided, the gate of target verification does
not look at the hosts a scenario names beside the declared one, and what an importer hands
out goes to one host whatever hosts its source has (section 7).

## 2. The modules and the code

### `DeadManSwitch` and `ManagedChaos`

`DeadManSwitch` is the abstract promise of `pkg/chaos` about one interface: a
fault enters into force together with a guard, leaves with it, and the guard is
lost first only when the kernel or the process fails.

`ManagedChaos` is `driver.go` around `driver_linux.go`, the kernel and the server
process. Each exported method holds the mutex from start to end and is one
action. What runs outside it is split at the places where the code lets go of
the mutex: a watchdog *expires* (after which `Stop` cannot prevent its callback)
and later *reverts*; a context monitor *checks* the current fault and then
*reverts* (`driver.go:150-160`); a signal is *delivered*, then the trap
*reverts*, while main's deferred `Close` may come before or after. The kernel is
`qdisc`, one root per interface; `appliedFault` is the single record netem keeps.
`Kill`, `Exit` and `Launch` are the process: the kernel keeps its qdiscs over
them and everything else starts over. `Disturbances` switches on kernel errors,
failing link look-ups, signals and kills.

### `RunLifecycle`

`TestCoordinator`. A run may be executed more than once (two approvals that
overlap), so an *execution* is a pair of a run and a number; `pc` says where in
`executeRun` each one is. Every repository call is a step and `copy` is the record
it holds in between, because the record is stale by the time it is written
back; the same is done for `ApproveRun`, `AbortRun` and the share-link handler,
whose local variables are `client`. Taking the slot, registering the cancel function,
taking it away and releasing the slot are four steps, and an abort may come between
any two. The chaos driver is `DeadManSwitch`
(`INSTANCE`), shared by all executions; the chaos timer callback and the
context monitor are separate steps. With `"chaos_error"` among the `Disturbances` the kernel
may refuse any Apply or Revert: the watchdog has been stopped by then (`StopWatchdog`), the error is
dropped, and `currentFault`, the fault the status of the driver names, goes on naming it;
`refused` remembers the monitors that asked in vain. `Stop` and `Restart` are the server process:
only the repository survives, and as in the code nothing looks at unfinished
runs afterwards.

### `BreakingPointSearch`

`search.FindBreakingPoint` with the `evaluate` closures of `autopilot.Run` and
`autofuzz.Run` and the trial runners of `search_coordinator.go`. The application
under test is `healthy`, any set of loads at which it keeps its score; a trial
starts, takes time and is measured, and `intact` says whether it ran to its full
length with its fault in force. A Revert may be refused: `inForce` is the kernel's, `current` what the
driver's status names, `monitors` counts the trials whose context monitor waits for the end of the request,
and `refused` says which attempts to remove a trial's fault the kernel refused since it began. Floats are integers in a unit so fine that every
halving is exact (a float64 halves exactly too), and `VUs` is the rounding to
whole users.

### `AgentRegistry` and `MultiRegion`

`AgentRegistry` has the methods of the registry as operators on its three maps.
`MultiRegion` composes them with the agent processes of `cmd/agent` and the
requests of `RunMultiRegion`, whose local variables are `request`. `Poll` does not
look at its request's context, so a poll whose connection broke goes on waiting
(`abandoned`) and takes the next assignment with it. A request asks for a `load`: a profile, its users,
and the rest (`Stages` or `TargetRPS`), of which `SplitLoad` divides the users alone; `PutOn` is what the load
engine of an agent makes of what it was given. `work` is a history variable:
what became of every assignment. `MaxFailures` bounds crashes, silences, broken
connections and restarts of the server.

### `CircuitBreaker`, `VUSession` and `LoadEngine`

`CircuitBreaker` has the methods of the sliding window and of the breaker's
monitor as operators; time is counted in slices of one evaluation interval. A
recorder takes the time before the lock (`sliding_window.go:53-56`), so
`WindowRecord` is given the slice it saw, which may be over; `measured` and `evidence`
are history variables with what was really recorded.

`VUSession` is `Execute` and `executeStepWithRetry` of one virtual user: `head` is the
top of its loop, `attempt` a step under way, `retry` the place between two attempts.
What a request, its assertions and its extractors do is an outcome; `accepted` is a
server error that the assertions of a step allow, which the session takes for a
success and the counters for an error. `Targets` is the set of steps a transition
may lead to, conditions and weights left out; `ValidateScenario` trims a target
before it looks it up and `Execute` does not, so a target may be no step.

`LoadEngine` composes both: `Run`, the three profiles, the goroutines of the workers
with the session each one executes, and `reporting` and `stamped`, where
`executeSession` hands the results of an ended session to the metrics and to the
window. `cause` is the context's: the timer, the breaker, the caller and the end of
Run race for it, and the first one stays. The monitor may evaluate once more after
the context is done, as a `select` with a tick pending may. `MaxDelay` is how many
slices a recorder may wait for the window's lock. A nil dereference in a worker
ends the process (`Panic`, `engine = "crashed"`).

### `EventBus`, `SystemLog`, `ResourceStress`, `FaultProxy`, `PodKill`

`EventBus` is the bus with what publishes on it and what reads it. Publish holds the
read lock through its loop, so `sending` has the channels each publisher has still
to visit and every visit is a step (`Send`), while Subscribe, unsubscribe and Close
wait for all of them (`Exclusive`). An event is its publisher and its number. A run
has two publishers: its telemetry goroutine, which may take one more tick after it
was told to stop, and the end of `executeRun`, with its terminal event and the one of
`finalizeRun`. A stream is the loop of a handler; it is unregistered when the bus was
closed before it came.

`SystemLog` is the ring with its followers; a message of several lines is added line
by line, and a connection gets to its stream in two steps, the copy and the
subscription, between which entries are lost to it.

`ResourceStress` numbers the calls of Apply. `ended` is the set of those whose context
is done, by their duration, by the next Apply or by Revert; workers and watcher
notice in steps of their own. A watcher compares IDs and may mark a newer stress as
reverted whose workers go on: `current` remains the stress a Revert would cancel.

`FaultProxy` gives a request its fault when it comes (`Receive`) and then goes through the
stages of `ServeHTTP` one step at a time, with the faults switched meanwhile. A roll of
dice is a choice.

`PodKill` is one request to kill pods against a cluster whose pods end and start by
themselves. A deletion is answered, refused, or carried out without an answer: `deleted` has the pods that
are gone by it, `killed` those the driver knows of. With it comes the monitor of the autoscaler with polls that may be refused.

`MCBackground` puts them into one run. They share no state, so interleaving them would
multiply the states and show nothing: a variable `focus` chooses, at the start, the part
that moves. `MCServices` does the same.

### `GameDay` and `TargetVerification`

`GameDay` counts time in ticks of the check loop, two to a minute, with short days and
weeks and an offset between the local time and UTC. A weekday is taken modulo the week as Go does it (`Remainder`), so
a negative one stays negative and is no day's. `promised` is the slot that the client asked for, and `passed` has the
minutes in which a check found a schedule enabled in its slot (`InSlot`), whether it fired then or not. `checkAndFire` marks and copies what
is due under the lock; `Fire` triggers each later, with nothing asked again. The four
methods of the Terraform resource are actions; an answer that is lost leaves the
state of Terraform as it was. After a `Restart` the server has no schedules and starts
to number them anew.

`TargetVerification` splits a request at every access to the maps and at every look-up,
as no lock is held over them. The owner of a host publishes any token that was issued at
any time, in the DNS or in the file; `steady` says that the DNS of the host did not change and answered
since the request began. `StartRun` is the gate (`checkTargetAllowed`) with a request for a run before it: `target` is the host of its
`target_base_url`, `base` and `urls` those its scenario names by itself. `resolveTargetHost` is the one host that is
checked, `Reached` are those the run sends to, and `Declared` says that the two agree.

### `PresetStore`, `LatencyMetrics`, `Journey`, `ScenarioImport`, `Diagnostics`

`PresetStore` has the map and the list of the store, and the stages made of a preset. An ID is a word
and the numbers that were appended to it.

`LatencyMetrics` makes every atomic access a step: the counters, the bucket and then the count of
the histogram, both compare-and-swap loops, the look-up of a step's tracker under the
read lock and its creation under the write lock, and a snapshot that reads the words one
after the other. `Lower` says where each bucket begins: any growing numbers after the linear buckets, a factor of
four in the checked instance where the code has 1.01.

`Journey` is the validation of a scenario and the walk of one session: conditions,
variables that a step needs and gives, extractors that may fail where they have no default, answers a step accepts, where it
goes next. Validation ignores the spaces around a target (`Trimmed`) and the walk does not; `sent` has the requests that were
refused as well. `VUSession` has the concurrency of
sessions, this one their data; retries are not repeated here.

`ScenarioImport` has an action per importer, from the parsed document to the scenario,
then the enricher, the synthesizer and the fuzzer, and lets a `Journey` walk the result. `told` is what the source
says of the order (`walks`), the pairs, the hosts and the time (`limits`), for the property alone. The base of a scenario is the caller's (`Bases`) or
the host of the first request that is kept. The folders of a collection are opened level by level, up to
`MaxFolders`. Of operations with one name the last one overwrites the others (`Standing`), as in the code's map. `ImportConstants` says what a parsed document is like:
lists of entries, operations with distinct methods and paths though not with distinct names, authored steps that are finitely many; spans may end before
they start.

`Diagnostics` has `Analyze`, the benchmark pools, the comparison of two runs and the badge,
as exact arithmetic where the code computes with floats.

Definitions whose name carries a suffix and whose comment begins with "Mutant"
are the plausible bugs; no specification uses them.

## 3. Runs: what is checked

| Run | Module | Properties | What it shows |
|---|---|---|---|
| `chaos_wide` | `MCManagedChaos` | `InjectedIsGuarded`, `CancelledIsReverted` | Two interfaces, a filtered fault, faults that share an ID, every disturbance and a restart: an injected fault is always guarded, and with fairness for the context monitors alone, cancelling its context ends it. |
| `chaos_switch` | `MCManagedChaos` | `RevertedIsClean`, `IsDeadManSwitch`, `InstalledIsRemoved` | One interface and unfiltered faults, a kernel that may refuse calls and a shutdown: reverted means removed, the driver implements DeadManSwitch, and with fairness for the watchdog alone every fault is removed or reported failed. |
| `life_undisturbed` | `MCRunLifecycle` | `NoStuckRun`, `ExecutedIsApproved`, `ActiveIsLive`, `Abortable`, `RunsSettle` | Two runs for one slot, one held for approval, two clients that approve and abort at any moment, so that two executions of a run overlap: every queued or running record has an execution that will finish it, nothing guarded executes unapproved, an abort finds the cancel function of a registered execution unless another one of its run registered, and finds none that has left; with fairness every accepted or approved run settles for good. |
| `life_disturbed` | `MCRunLifecycle` | `SlotsMatch`, `CancelledFaultEnds` | With failing storage, share links, chaos in both runs under one fault ID, kernel calls that are refused and a restart: the semaphore counts the executions, and the context monitor alone ends the fault of an aborted run, also one that was applied after the abort or that AbortRun could not remove, unless its own attempt is refused. |
| `search` | `MCBreakingPointSearch` | `ReportIsMeasured`, `ThresholdIsFound`, `TrialFaultEnds`, `SearchEnds` | A capacity and a severity search over applications that only get worse and over others that do not, with requests that go away, refused trials, Reverts that fail and other users of the chaos driver: what is reported was measured, for an application that only gets worse it is the threshold, and a fault whose Revert was refused is tried again when the request ends. |
| `fleet` | `MCMultiRegion` | `LoadIsSplit`, `MergedIsReported`, `NoReportMissed` | Two multi-region requests over three agent processes, two of which share an ID, with one failure anywhere: a crash, a silence, a broken connection or a restart of the server. The users of a flat profile are divided, a ramp is not and is run by every agent once, and every summary that arrives in time is merged into the answer of its own run. |
| `load` | `MCLoadEngine` | `SummaryIsFinal`, `WindowIsExact`, `TripIsJustified`, `StatusIsEarned`, `StoppedRunReturns` | The three load profiles with two workers whose steps fail, are retried and fall back, under a breaker with a ring of two buckets: no worker outlives the run and none of its results is missing from the summary, a recorder that comes late does not corrupt the window, the breaker trips only on what was really measured, the status is the reason the run ended, and a stopped run returns. |
| `background` | `MCBackground` | `TypeOK`, `ChannelsAreSafe`, `StreamIsFaithful`, `StreamEnds`, `LogIsFaithful`, `StressEnds`, `TouchedByItsFault`, `KubernetesIsReported` | The parts of the server with goroutines and channels of their own, one in focus of each behaviour: the event bus with two runs and two slow streams, the system log with a ring of two entries and a reader, the resource-stress driver with three stresses, the fault proxy with two requests and the pod-kill driver with its autoscaler monitor. No channel is sent to after it was closed, a stream gets its run's events in order and ends, a log reader misses only what the code drops, every stress ends, a request is touched only by a fault that names it, no more pods are killed than asked for, rounded up, none is claimed that was not killed, also when answers are lost, and a scale-up is reported exactly if a poll saw it. |
| `services` | `MCServices` | `TypeOK`, `FiresAsTold`, `StateNamesItsOwn`, `TestedIsOwned`, `PollFindsProof`, `MetricsAreFaithful`, `JourneyIsFaithful`, `WorseIsNeverSafer` | The services that answer one request at a time or share atomic words, one in focus of each behaviour: GameDay schedules over a day and more with Terraform, lost answers and a restart, the verification of targets with two requests, owners who publish and runs that declare less than they reach, the preset store, two recorders and a snapshot of the metrics, every importer with short documents and a user who walks the result, and what is made of a finished run. A schedule fires in the slot it was given (its weekday by the clock of the server, its minute by UTC), whenever a check finds it enabled there, and once; no run is started whose declared host is not owned; numbers that are shown belong together; a session sends the paths of its source in its order to the base of the scenario; and a worse run is never given the better figures. |

Runs whose property is expected to be violated:

| Run | Property | What it shows |
|---|---|---|
| `chaos_leak` | `RevertedIsClean` | A fault on one interface replaced by a fault on another stays in the kernel for good, although nothing failed. |
| `life_abort_queued` | `AbortedIsNotExecuted` | A run aborted while it waits for a slot is executed later. |
| `load_panic` | `NoPanic` | A run whose duration is over while a step waits for its next attempt takes the process down. |

The properties, with what they are about, are stated above each definition at the
end of its module.

## 4. Bounds, and why they are enough

Every bound is a constant that is guarded in the actions.

* `chaos_wide` has `MaxApplies = 2`, `MaxLaunches = 2`: one fault replaces
  another on another interface, with the same ID, across a kill and a relaunch.
  The guard of an Apply refers to that Apply and its successor only.
  `chaos_switch` has three applies on one interface, so that a stale watchdog of
  the first may still be waiting when the third is in force.
* The life-cycle runs have two runs for one slot. `life_undisturbed` has two executions
  per run (two overlapping approvals need two), two clients and three requests: one
  request overtakes another and a third comes while the run of the first
  finishes. `life_disturbed` has one execution per run, one client and two requests, since every
  call of its storage and its kernel may fail: both runs have a fault, of one ID, so that the monitor of one may
  meet the fault of the other, an Apply may fail over the other's fault, and an abort that is refused
  leaves its fault to the monitor. Two executions of one run with a fault each are not reached by it; `SlotsMatch`
  is proved for any number of them, `CancelledFaultEnds` is shown for one of each run only.
* `search` has every application that only gets worse, from 0 to 10 healthy users and from 0 to 16 healthy
  severities, and every one that is healthy on some of the pairs of users or of the quarters of the severities (islands of health). The range is counted in eighths of a user and sixteenths of the
  full severity, which three halvings of it divide exactly. The capacity
  search ends on its tolerance and the severity search on its three iterations,
  the two ways the loop can end.
* `fleet` has three agent processes of which two share an ID, and two requests: for three users of a flat profile,
  which two agents cannot divide evenly, or for a ramp to two, at regions of which one is named twice; and one
  failure of any kind at any point.
* `load` has two workers, two sessions of at most two steps, a scenario with a retry,
  a fallback and a dangling target, and three slices of time for a ring of two
  buckets, so that a slot is given to a new slice while a recorder of the old one
  waits; the stages rise and fall. `MaxDelay = 1` is the largest delay that is less than
  a round of that ring. The breaker trips at two breaches in a row, and what it saw at
  the first evaluation may have left the window at the second; a streak that is
  interrupted and taken up again needs more slices and is not reached.

* `background`: two connections, one run that is executed and one a share token leads to, channels
  of one event and one snapshot, so that a full channel, a snapshot after the
  terminal event, a stream before and after Close all happen; a ring of two lines with five logged
  and one copied; three stresses with two faults of one ID, so that a stale watcher
  meets the third; two requests at two hosts and three switches of two faults that
  between them have every effect; three pods, half of which is one by the code and two by its comment.
* `services`: seven ticks, half a minute each, are the first day of a week of two days of three minutes and the beginning of the second, with
  an offset of a minute: the slot that is asked for lies where the local weekday is another one than that of UTC, and the loop looks
  at it twice. One slot has a negative weekday; there are two schedules and one restart. A slot that comes round again in another week is
  left to the theorem `SchedulesFireAsTold`, as the states grow with the ticks.
  Two hosts, one blocked and one whose address is in the cloud, three requests of which two at a time, one
  token to draw and one old one; three requests for a run, of which one declares a blocked host, one none, and one another host
  than those it reaches. Three presets with names that collide. Two results, three
  buckets, with both recorders on one step or on two. Documents of up to three entries, which is what a filter, a
  sort with ties and a chain with a dropped middle need; two operations with one name, side by side and apart, one that is named
  like the end of a session, and a span that ends before it starts; the handwritten scenarios have two
  steps with every kind of condition, targets with spaces around them, an extractor without a default, and five steps of a
  session at most, which a cycle reaches. Two finished runs whose summaries lie on both sides of each
  threshold.

The theorems of section 6 remove the bounds for most of these properties.

## 5. Fairness

Safety properties are checked with none. For liveness:

* `WatchdogFairness`: a timer that is due fires and its callback gets the mutex.
  `MonitorFairness` and `MonitorSpec`: a goroutine whose context is done runs. Each
  of the three guards is given fairness **alone**, since the documentation calls
  them independent: the fault must end by that guard, with callers that never
  revert. The fairness of the Go runtime and of `sync.Mutex` justifies both.
* `RunLifecycle!Fairness`: every execution that can go on does (goroutines are
  scheduled, a load test has a duration and ends, and a channel send that waits for
  the semaphore is served), and a request that has begun is served. Clients
  are not obliged to send anything, and nothing is assumed of chaos timers.
* `BreakingPointSearch!LiveSpec`: a trial ends after its duration and the loop
  goes on, and the context monitor of a trial runs once the request is over (`MonitorFires`), as a goroutine whose channel is
  closed does. Refusals, cancellation and other users of the driver are not fair.
* `LoadEngine!LiveSpec`: the goroutines of Run and of each worker are scheduled, and a
  request ends, since each has a timeout (`vusession/engine.go:272-280`). Neither the
  duration nor the breaker nor the caller is obliged to stop a run; ticks of the load
  profiles are not fair.
* `MCBackground!Spec`: the loop of a Publish that has begun goes on, the handler of a
  stream takes its turns, the duration of a stress ends, and its watcher and its workers
  are scheduled. Browsers are not obliged to leave, nobody to close the bus or to call Revert.
* `MCServices` and `MultiRegion` have no fairness: their properties are about what may not happen.

## 6. What is proved

| Theorem | Property | What it establishes |
|---|---|---|
| `ManagedChaosProofs!TypeCorrect` |  | Every variable of the dead-man switch keeps its type. |
| `ManagedChaosProofs!InjectedGuarded` | `InjectedIsGuarded` | Until Close an injected fault always has its own watchdog and its own context monitor. |
| `ManagedChaosProofs!InjectedInstalled` |  | Until Close the injected status names the fault that is installed and that netem will remove (InjectedIsInstalled). |
| `ManagedChaosProofs!RevertedClean` | `RevertedIsClean` | With one interface, no filtered faults, answered link lookups and one process life, reverted means that nothing is left in the kernel. |
| `ManagedChaosProofs!ImplementsSwitch` | `IsDeadManSwitch` | On such a host the driver implements DeadManSwitch step by step. |
| `RunLifecycleProofs!TypeCorrect` |  | Every variable keeps its type, and the semaphore stays within its capacity. |
| `RunLifecycleProofs!SlotsCorrect` | `SlotsMatch` | The semaphore counts the executions that have not left, under every disturbance. |
| `RunLifecycleProofs!ActiveCorrect` | `ActiveIsLive` | A registered cancel function belongs to an execution of that run that has not left. |
| `RunLifecycleProofs!NoRunStuck` | `NoStuckRun` | Without share links and failures, every queued or running record has an execution that will settle it, for any number of runs and concurrent requests. |
| `RunLifecycleProofs!ApprovedBeforeExecuted` | `ExecutedIsApproved` | Without share links, a guarded run is executed only with its approval on record, also when storage fails and the process restarts. |
| `RunLifecycleProofs!AbortFindsIt` | `Abortable` | An abort finds the cancel function of an execution from its registration to its deregistration, which leaves out the moments at which it only has its slot, unless another execution of the run has registered too; for any number of runs and concurrent requests and under every disturbance. |
| `BreakingPointSearchProofs!TypeCorrect` |  | Every variable keeps its type, and no search takes more than its iterations. |
| `BreakingPointSearchProofs!ReportMeasured` | `ReportIsMeasured` | A reported breaking point was tried and failed, and an input just below it was tried and passed, whatever the application does. |
| `BreakingPointSearchProofs!ThresholdFound` | `ThresholdIsFound` | For an application that only gets worse, and trials nobody disturbed, the reported breaking point is its threshold up to the tolerance. |
| `BreakingPointSearchProofs!SafeIsBelow` |  | The capacity called safe passed, the one called breaking failed, and rounding to whole users keeps them apart (SafeBelowBreaking). |
| `BreakingPointSearchProofs!Bracketed` |  | The bisected range always has a passing low end and a failing high end, and shrinks by halves (BracketHolds). |
| `BreakingPointSearchProofs!NoFaultLeft` | `TrialFaultEnds` | A fault outlives its trial only if its Revert was refused, and then a monitor is still to try again when the request ends, unless it was refused too or a failing Apply of another user hides the fault from it. |
| `MultiRegionProofs!TypeCorrect` |  | Every variable keeps its type, and a request that dispatches or awaits is always at an agent of its fleet. |
| `MultiRegionProofs!MergedReported` | `MergedIsReported` | The answer to a request merges only summaries reported for that run, by the agents it names, for any number of agents, requests and failures. |
| `MultiRegionProofs!ReportNotMissed` | `NoReportMissed` | A summary that arrives before the request has gone past its agent is merged. |
| `MultiRegionProofs!AssignmentTakenOnce` |  | An assignment is taken at most once, even with shared IDs, abandoned polls, crashes and restarts (TakenOnce). |
| `MultiRegionProofs!LoadSplit` | `LoadIsSplit` | The users that all agents run for a request of a flat profile together never exceed what it asked for, or one per agent; of a ramp or a rate, which the code does not divide, each agent of the fleet runs the whole at most once. |
| `LoadEngineProofs!TypeCorrect` |  | Every variable keeps its type, for any scenario, profile and number of workers: no session exceeds its limit of steps, and no streak of the breaker the number at which it trips. |
| `LoadEngineProofs!LoadBounded` |  | The workers of a run are counted exactly and never more than its profile asks for, whatever starts and ends meanwhile (LoadIsBounded). |
| `LoadEngineProofs!StatusEarned` | `StatusIsEarned` | The status a run returns is what stopped it, in every order of the timer, the breaker and the caller. |
| `LoadEngineProofs!NoWorkerOutlivesRun` |  | When Run has returned, no goroutine of it sends load any more. |
| `LoadEngineProofs!WindowExact` | `WindowIsExact` | As long as a recorder is late by less than a round of the ring, every slice in the window holds exactly what was recorded in it. |
| `LoadEngineProofs!SummaryFinal` | `SummaryIsFinal` | When Run has returned, its summary counts every step its workers performed, and every session they dropped, once, and every error among them once, although a recorder writes its counters and its slice in several steps.  Of a step that is retried the last attempt is its result; the attempts before it are not recorded and not counted. |
| `LoadEngineProofs!TripJustified` | `TripIsJustified` | As long as a recorder is late by less than a round of the ring, the breaker trips only on slices of the window that breach a limit in every evaluation of its streak, for any results, thresholds and interleaving of recorders. |
| `BackgroundProofs!BusTypeCorrect` |  | The types of the event bus hold for any runs, streams and buffer sizes. |
| `BackgroundProofs!BusChannelsAreSafe` | `ChannelsAreSafe` | No channel of the bus is sent to or closed after it was closed, whichever publishers, streams and Close interleave: whoever takes a subscription away holds the lock exclusively, so what Publish has still to visit is subscribed and open. |
| `BackgroundProofs!BusStreamIsFaithful` | `StreamIsFaithful` | A stream gets its own run's events, each publisher's in order, none twice and none from before its subscription, and misses only those dropped with its channel full. |
| `BackgroundProofs!ProxyTouchesOnlyItsOwn` | `TouchedByItsFault` | A request is touched only by the fault that was in force when it came and that names its host, and an injected failure is always explained by one. |
| `BackgroundProofs!LogStreamIsFaithful` | `LogIsFaithful` | A reader of the system log sees entries in order and none twice across the seam of copy and subscription, and then misses only what is dropped with its channel full. |
| `BackgroundProofs!StressCanBeEnded` |  | At most one stress of the host goes on, and it is the one the driver can cancel, for any faults and any number of workers; with it, the types of the driver. |
| `BackgroundProofs!KubernetesReportCorrect` | `KubernetesIsReported` | The pod-kill driver deletes, of the pods it has listed, no more than the share it was asked for rounded up, also when the answers to its deletions are lost; the pods it counts as killed are gone by it, and it reports a failure only if it has an answer for none (pods may be gone then).  The autoscaler is reported to have scaled up exactly if a poll saw more replicas than the first.  All this for any cluster that changes meanwhile. |
| `BackgroundProofs!BackgroundTypeCorrect` | `TypeOK` | Every variable of the parts that run in the background keeps its type. |
| `ServicesProofs!GameDayTypeCorrect` |  | The types of the scheduler and of the state Terraform keeps hold for any clock and any schedules a client may ask for, a negative weekday, which handler.go:1092 keeps negative, included. |
| `ServicesProofs!ResourceNamesItsOwn` | `StateNamesItsOwn` | Within one life of the server the ID Terraform keeps is that of the schedule it made, because IDs are never given out twice. |
| `ServicesProofs!SchedulesFireAsTold` | `FiresAsTold` | A schedule fires at no minute but the one asked for, on the weekday asked for by the clock of the server (so on another by UTC, where they differ, and never with a negative weekday); in every minute of its slot in which a check finds it enabled it does fire, once; and once more at most after a client was told it is disabled or deleted. |
| `ServicesProofs!VerificationTypeCorrect` |  | The types of the verification store hold for any hosts and requests. |
| `ServicesProofs!OnlyOwnedIsTested` | `TestedIsOwned` | No run is started whose request declares a public host that its owner has not proved to own, or a blocked one, for any interleaving of requests and whatever was published when.  A run whose request declares all it reaches therefore reaches no other host; one that declares less, or nothing, is let through, and the theorem does not cover it. |
| `ServicesProofs!PollsFindProofs` | `PollFindsProof` | A status poll of a host whose DNS held a token throughout ends with the host verified. |
| `ServicesProofs!DiagTypeCorrect` |  | Scores, safe users, pools and trends keep their types for any measured runs. |
| `ServicesProofs!WorseIsReportedWorse` | `WorseIsNeverSafer` | Of two finished runs, one that is worse in every figure is never given the better score, more safe users or the better rank. |
| `ServicesProofs!MetricsTypeCorrect` |  | The trackers keep their types, and there is a tracker for every step that any number of workers record. |
| `ServicesProofs!MetricsFaithful` | `MetricsAreFaithful` | A quantile is always found among the results recorded, although they come in while the buckets are read, and when all have recorded every tracker has each result of its own once, in its bucket, with the extremes right. |
| `ServicesProofs!PresetTypeCorrect` |  | Every custom preset is listed exactly once and nothing else is, none hides behind a built-in one, and the stages of every preset fill its duration, whatever is asked of the store. |
| `ServicesProofs!ImportTypeCorrect` |  | Whatever document an importer is given, what it hands out is a valid scenario by ValidateScenario, and the session that walks it keeps within its limit of steps and to known variables. |
| `ServicesProofs!JourneyFaithful` | `JourneyIsFaithful` | A session through an imported scenario sends the paths of one order of its source, each once and to the last, to the base of the caller or the first host of the source; of mined traffic it goes only where a trace went or on to the next, of operations with one name it sends only the last; it pauses no longer than the recording took if the spans end after they start; and it comes to a step that does not exist only in a scenario somebody has written, by a target with spaces around it.  This for every document, script, plan, trace and specification. |
| `ServicesProofs!ServicesTypeCorrect` | `TypeOK` | The types of all services together hold whichever of them goes on, among them the agreement of the list of presets with those there are, for any of their constants that their assumptions allow; a negative weekday, colliding names and spans that end before they start are among them. |

The proofs rest only on the named assumptions about the constants in each module
(`ChaosConstants`, `LifecycleConstants`, `SearchConstants`, `RegistryConstants`,
`FleetConstants`, `BreakerConstants`, `SessionConstants`, `EngineConstants`, `BusConstants`,
`LogConstants`, `StressConstants`, `ProxyConstants`, `PodConstants`, `GameDayConstants`, `VerificationConstants`,
`PresetConstants`, `MetricsConstants`, `JourneyConstants`, `ImportConstants`, `DiagConstants`), which TLC evaluates in
the runs of these modules, and where a theorem says so on hypotheses of its own.

**FiniteSums** has what the other proofs need to add up over workers, slices, buckets and spans. The induction theorems
of the library take an operator as a parameter, which the installed provers cannot instantiate; induction over
numbers and over finite sets is therefore stated with a set of counterexamples, of which there is a least one, and the
lemmas about a sum (one term changed, one element more, all terms zero, terms renamed, one sum not above another)
follow from it.

**ManagedChaos.** `InjectedGuarded` needs `GuardInv`: with the type invariant and the
property itself, that every monitor carries the ID of the fault its Apply
injected as long as that Apply is the current one; otherwise the monitor's check
could drop the only guard. `RevertedClean` and `ImplementsSwitch` are proved for a host
with one interface, no filtered faults, link look-ups that answer and one process
life; each hypothesis is needed, and the first one's failure is the run
`chaos_leak`. `CleanInv` says that netem's record and the kernel agree and that an
idle status has neither; the refinement maps the root qdisc to `inForce` and the
watchdog that is armed or on its way to `guard`, and shows that every step is a step
of `DeadManSwitch` or a stutter.

**RunLifecycle.** `SlotsMatch` is inductive with the finiteness of the executions.
`ActiveIsLive` needs that what is registered is an execution that has come past its registration
and not yet to the end of its deregistration. `NoRunStuck` needs to know what each stale copy may contain: a copy in an
execution belongs to a run that this execution will finish, a copy in a request
that aborts shows a status from which "aborted" is final. `ApprovedBeforeExecuted`
carries the approval through every copy that may be written back. Both exclude
share links, which write back a stale record (section 7). `Abortable` is inductive with the types: an execution
between its registration and its deregistration is what an abort of its run finds. It claims no more, as the code gives no
more: not for the moment between the slot and the registration, nor where another execution of the run
has registered, which replaces the entry and takes it away when it leaves.

**BreakingPointSearch.** `IInv == Shape /\ Accounted /\ Reached /\ Evidence /\ Capacity`. `Shape`
ties the range to the number of halvings; `Reached` says every trial is within the
range; `Evidence` is the bracket (a passing low end, a failing high end) and the
truth of undisturbed trials; `Capacity` keeps the passing capacity a whole user
below the failing one, which needs the arithmetic of rounding (a lemma on
integer division) and the assumption that the tolerance is two users or more. `Accounted` is what `TrialFaultEnds`
needs: a trial's fault in force belongs to the running trial or to one whose Revert was refused; the status of the driver
names it unless an Apply of others has failed since; and until a monitor has tried, one is waiting.

**MultiRegion.** `IInv == TypeOK /\ FleetInv /\ HolderInv /\ ResultInv`. `FleetInv`: the agents of
a request are distinct and their number times the users of each is at most the
users asked for, or the number of agents. `LoadIsSplit` then bounds a flat profile by what was asked for and a ramp or a rate by
one whole for every agent of the fleet, each of which runs it once. `HolderInv`: an assignment is in
exactly one place, a channel or the one agent that works on it, which is what
makes shared IDs harmless. `ResultInv`: what a result channel holds was reported
for that run and ID, and what was reported is in the channel or was taken.

**LoadEngine.** `IInv` is `TypeOK` with: `SessionInv` (what a session is like at each of its
places, in particular how late a recorder is), `LoadInv` (the counter equals the
number of workers that are not gone, per profile and place of the engine), `EndInv`
(while nothing has stopped the run, the flat profile has all its workers, so only
ramping can end by itself), `StopInv` (which cause goes with whose doing) and `StreakInv`.
`WindowExact` adds that a bucket holds a slice of its own slot and none from the future,
and rests on a lemma that two slices with one slot are a whole round apart; its
hypothesis `MaxDelay < NumBuckets` is needed: a recorder that is later than a round
wipes a newer slice.

`SummaryIsFinal` needs the accounts (`AccountInv`): what was performed is what the metrics count and what live
sessions still owe, what the metrics count is the sum over the slices and over the recorders that are between the two
places, and a worker that is gone owes nothing. At the end nobody is live, so all those sums are over zeros.
`TripIsJustified` needs first that the statistics of an evaluation are those of what was really measured in the last
`NumBuckets` slices (from `WindowIsExact`, by renaming the sum over slots to one over slices) and then that each streak
is what the evidence ends with (`EvidenceInv`). It shares the hypothesis `MaxDelay < NumBuckets`.

**EventBus.** `BusTypeOK` has to be joined by `Connected`: what a Publish has still to visit is
subscribed to its run and its channel is open, because Subscribe, unsubscribe and Close wait for the
read lock; then no step sends to, or closes, a closed channel. `Faithful` splits the property of a stream
into `FedInOrder`, `Accounted` (each event since the subscription was fed, dropped, or is still to
come) and `JoinedInTime`, without which the numbers of a new subscription could be ahead of the publisher.

**SystemLog** and **FaultProxy.** That a page is in order across the seam needs that what it shows and what
the ring holds ends at the last entry (`Shown`, `Growing`). `Explained` says for every stage of a request
which fault it carries, and with which outcome it may have been touched.

**ResourceStress** and **PodKill.** That what burdens the host can be ended (`StressIsHeld`, part of its type invariant) is
inductive by itself. `KillWithin` says of each place of a request how many pods it has deleted and may still delete, whether it was answered or not, that
together they are at most the share, and that these are among the listed ones, `PollsRead` what the monitor has seen of the replicas; together they give the report.
`PartsInv` puts the parts side by side for the type invariant of the whole run: a step of one leaves the others alone.

**GameDay.** `StillIssued`: the IDs given out since the start are at most `seq`, so that of Terraform is not given out again.
`Spaced`: a schedule's last firing is the latest of them, and any two are more than 90
seconds apart, which is why no two are in one minute. `Slotted`: a schedule keeps the weekday and the minute its client asked for, and a minute of
its slot in which a check saw it enabled is one in which it fired. The second half needs that days are longer than two
minutes: the slot comes round again only when the last firing is more than 90 seconds old, and within a minute ticks are
handled in their order (`InTickOrder`). `Silenced`: what is due has not been
triggered, so a schedule that is silenced is triggered once more at most.

**TargetVerification.** `Justified`: where a token is published, or a proof recorded, the host is owned, and a
request that is about to record has found such a proof. So every run that passed the gate declares a host that was shown to be
owned, or none; that it also *reaches* no other is concluded for runs that declare all they reach (`Declared`), which the code
does not ask for. `Awaited`: a poll whose host was
steady carries the token that the DNS holds, whatever the challenge is by then, and so does not get to the
file.

**LatencyMetrics.** `MetricsInv`: `TrackerRight` gives for every tracker and each of its words the recorders that have
passed the write of that word, so counters, buckets, sum and extremes are at any time what those recorders brought;
`TrackersInv` that every step looked up under the read lock gets the one tracker made under the write lock; `SnapshotInv` that
while a quantile is sought the buckets ahead still hold what its rank lacks. The last is where the order of two
writes matters: a bucket is raised before the count, so the count that was read is never more than the buckets hold.

**PresetStore.** `PresetInv`: the list names each custom preset once and no other, none has the ID of a built-in one, and
each passed the validation. A free number is found because the store is finite (one number more than it has
presets, by cardinalities), and the stages fill the duration because the percentages of a valid shape add up to 100.

**Journey** and **ScenarioImport.** `FollowInv` distinguishes three forms of what is handed out: nothing is told of it; it
is one line through the steps in an order of the source; or it is a graph of pairs mined from traces. It says
where on that line, or after which pair, the session is. One lemma per importer shows which form it makes, from lemmas on
sorting with ties, on filtering, on chaining past a dropped entry, on the steps an enricher or a fuzzer rewrites, and on the
pauses of a replay, whose sum telescopes to at most the length of the recording where no span ends before it starts. `Based` gives the base of what is
handed out: the caller's, or the host of the first request that was kept. With names that collide the graph of a synthesized
scenario is that of the operations left standing (`LastOfName`), and the lemma for it shows that `Standing` is the last of them.
That a session comes to a step that does not exist is excluded for what an importer made, whose targets have no spaces around them, and
for handwritten scenarios but for such targets. The attempt to prove `JourneyIsFaithful`
found its first form false: its excuse for spans that start together covered only two that follow the same request, while
the order among them also decides what the next one follows. `Open` is that excuse now, and a trace that needs it is in
the run.

**Diagnostics.** `WorseIsNeverSafer` is arithmetic: each penalty grows with its figure, the product and quotient that make the
safe users are monotone, and the share of a pool that lies below a score grows with the score. `ServicesInv` joins the
invariants of all services, as `PartsInv` does.

## 7. Disagreements between the code and what is said of it

Shown by a run that is expected to fail:

* `chaos_leak` (`pkg/chaos/driver_linux.go:170`): docs/chaos.md:36 says every fault "is auto-reverted by three independent mechanisms so a forgotten or crashed experiment can never leave a real fault permanently applied"; LinuxNetemDriver.Apply clears the root qdisc of the new fault's interface only and then overwrites appliedFault, so after Apply on eth0 and Apply on eth1 every later Revert removes the qdisc of eth1, the status becomes reverted, and the one of eth0 is never removed.
* `life_abort_queued` (`pkg/server/coordinator.go:517`): coordinator.go:514 says "AbortRun aborts an active or queued test run and immediately reverts any injected chaos"; a run that waits for the semaphore has no entry in activeRuns and nothing in executeRun looks at the record, so the run gets its slot later, goes from aborted to running and generates its load.
* `load_panic` (`pkg/vusession/engine.go:154`): engine.go:107 says "Execute runs the complete scenario from InitialStepID until termination, abort, or context cancellation." When the context is cancelled between two attempts of a step, executeStepWithRetry returns a nil result with ctx.Err() (engine.go:198-203), which Execute dereferences at result.Error: a nil-pointer panic in a worker goroutine that nothing recovers, so the whole server process dies, also at the ordinary end of a run's duration.

Seen while reading and not shown by a run of their own:

* A watchdog callback that was already waiting when its fault was replaced ends
  the next fault (`driver.go:137`); the switch only promises that a fault never
  outlives its guard, so this is safe.
* `Apply` after `Close` is accepted (`driver.go:84-101`), and a killed process leaves
  its qdisc with nobody to look for it at the next start, although
  `docs/chaos.md:36` says "never".
* Two approvals that overlap execute a run twice (`coordinator.go:151`), and the first of the two executions to end takes the
  cancel function of the other away (lines 233-237), which no abort finds then. Between the slot (line 225) and the registration
  (lines 228-231) an abort finds nothing either. `Abortable` is stated outside both.
* A chaos timer whose callback has begun applies its fault after the deferred
  clean-up of its run (`coordinator.go:277-291`): the watchdog has to end it.
* "Always ensure Chaos is reverted when the run finishes!" (`coordinator.go:291`): the error of that Revert is dropped (line 292), as is
  that of an abort (line 521) and of a fuzzer's trial (`search_coordinator.go:75`). A Revert that fails has stopped the
  watchdog, and leaves the fault in force until the context monitor tries once more, if it names its fault, or somebody
  else reverts. `CancelledFaultEnds` and `TrialFaultEnds` say just that and no more.
* `agent_registry.go:38-39` says stale agents are dropped from the registry; they are
  filtered from its listing and stay in the map. `multiregion.go:29` says the
  load is split evenly; it is an integer division whose remainder is not run. It divides the users alone: `Stages` and
  `TargetRPS` reach every agent whole (`multiregion.go:74-75`), so N agents put N times the ramp or the rate that was
  asked for on the target. `LoadIsSplit` states what the code keeps.
* `pool.go:142` speaks of a ramp-down: no worker ever leaves before the end of the run, a
  falling target only starts none. The interpolation is truncated and a stage ends
  before it reaches its target, so a single stage to one user starts nobody.
* An open-loop tick that finds no room is recorded as a failed request of no duration
  (`pool.go:136`), which the breaker reads as an error of the application.
* Of a step that is retried only the last attempt is recorded, and all results of a
  session reach the breaker when the session has ended, not when they happen.
* A window that is not a multiple of the evaluation interval has fewer buckets than its
  length (`sliding_window.go:32`); the module assumes that it is one.
* A share link is made by writing back a record that was read before
  (`handler.go:511`): it can put "running" back over the status with which the run has ended
  (`coordinator.go:474-476`). The theorems on `NoStuckRun` say so in their hypothesis.
* `autopilot.go:59` calls the smallest number of users safe when the first trial has failed with it.
* `pod_kill_driver.go:31` says the share of pods is rounded up; line 62 rounds it down, and takes one at
  least: of three pods and 50 percent it kills one, where the comment says two. `KillIsBounded` allows both. Where every
  answer to a deletion is lost (`client.go:98-107`) the kill is reported as failed although pods are gone.
* `resource_stress.go:31-32` says a context ends a stress; it is started under
  `context.Background()`, and only its duration, the next Apply or Revert end it. A watcher that knows its fault by
  ID marks a newer one reverted, and the directory of a stress that was replaced stays on the disk.
* A schedule is compared with the local weekday and the UTC hour (`scheduler.go:36`), where `scheduler.go:15` and the
  Terraform resource (`resource_gameday_schedule.go:49`, "every Tuesday at 09:00 UTC") promise both by one clock: on a server that is not
  in UTC it fires a day early or late around midnight. `FiresInItsSlot` states the weekday as the code reads it. A negative weekday is accepted, remains
  negative (`handler.go:1092`), and its schedule never fires. A restart gives the IDs of schedules out again, and a Create whose answer was
  lost leaves a schedule that Terraform does not know. Weekday, hour and minute can be changed in a
  plan without a replacement, which changes Terraform's state and not the server.
* The gate of target verification (`coordinator.go:173-219`) checks one host of a request: that of `target_base_url`, or else that of the `base_url` in
  the scenario (417-431). A request without either is let through (175-177). The run, though, sends to the `base_url` of its scenario and
  to the absolute URLs of its steps (`vusession/engine.go:250`), so with a `target_base_url` that is the
  operator's it may be started at hosts that nobody has verified, although lines 29-33 promise that a run is refused there. The gate of
  multi-region requests (`multiregion.go:33`) and of the searches (`search_coordinator.go:27`, `:101`) is the same.
  `TestedIsOwned` is about the declared host.
* A request for the status of a host that is not verified replaces its outstanding challenge
  (`verification.go:47`): a Confirm of the token that the client was shown before fails unless it
  is already published, when it is adopted.
* Between the copy of the recent log lines and the subscription (`handler.go:1298`) lines are lost to a stream.
* The enricher makes every step but a login ask for the token, also the steps before it and
  those that get the token (`enricher.go:67` speaks of the subsequent ones). The fuzz
  variant drops the extractors and ends at the first server error, where its comment promises that every
  variant is walked. Only the HAR importer filters by origin. A synthesized scenario starts at its login
  endpoint, so those before it are not walked unless a trace leads there; a parameter `{id}` is never given by
  an extractor, which names its variable after the resource; a condition `success == false` cannot hold; a
  replay loses the time of spans without a route, and its pauses are longer than the recording where a span ends before it starts.
* The target of a transition is validated without the spaces around it (`parser.go:88`) and looked up with them
  (`vusession/engine.go:170-176`): a session of such a scenario fails with a step that does not exist.
* Names of operations may collide, by `operationId` or because the name made of a path is not unique (`openapi_parser.go:26-31`, `:72-74`: `get_a_b` is made
  of `/a/b` and of `/a_b`): the last one overwrites the others in the map of steps (`synthesizer.go:152`), which are never sent, and an operation
  named `END` ends the session.
* Of a request the importers of Postman, k6, JMeter and Insomnia keep the path and not the host: those of other hosts go to the base of the
  caller, or to the first host (`postman_importer.go:101-103`, `:132`, `k6_importer.go:56`, `jmeter_importer.go:60`). A replay sends all
  spans to one host as well.
* A snapshot may show more errors than requests. A report may name no cause, when all errors are
  client errors or the run had chaos and was healthy.
* A shutdown leaves records queued or running for good (`cmd/server/main.go:160-165`).

## 8. What is only model-checked, and what is not modelled

Liveness (`InstalledIsRemoved`, `CancelledIsReverted`, `RunsSettle`, `CancelledFaultEnds`,
`SearchEnds`, `StoppedRunReturns`, `StreamEnds`, `StressEnds`) is checked by TLC alone: the prover handles neither `ENABLED` nor fairness.
Every invariant and every property of the steps that a passing run checks is proved as well; those of
section 6 with a hypothesis of their own are checked, outside it, by the runs alone. What a fold computes over a document is proved by induction over
its length through the lemmas of `FiniteSums`; no module that is proved about has a recursive operator.

Some invariants of the older modules are proved and no longer part of a run: their type
invariants, `InjectedIsInstalled`, `SafeBelowBreaking`, `BracketHolds`, `TakenOnce`,
`LoadIsBounded`, `NoWorkerLeft`. The type invariant of `ManagedChaos` and
`InjectedIsInstalled` are proved with every disturbance on and any number of
interfaces, while `RevertedIsClean` and the refinement need the hypotheses above.

Inside the modelled parts these are abstracted: HTTP encoding, wording of logs and reports, identifiers (a fresh
one is a new element), the netlink attributes of a fault, durations (a timer may
fire at any time after it is armed), the bytes of a document (an importer starts from what its parser
returns), regular expressions and JSON paths, the counts per status code in the
metrics, the weighted averages of a merged summary, the translation of an outage into money.
In `RunLifecycle` and `MultiRegion` a summary exists or does not. `Diagnostics` computes exactly: where the code multiplies
by a float and truncates (`int(T*0.7)`), its result may be lower by one.

Not modelled:

* the dependency graph of the generator: a ranking in floating point that is shown and never acted on;
* payloads of requests, locale, and the clients of language models: contents, and calls of external services;
* scanner, narrator, signing of cloud requests, i18n and dotenv: input, output and text;
* executive report and authorization letter: layout of what is stored;
* kernel packet filters: an encoding without state; the mock and stub drivers: they keep what they were told;
* web front end, editor and browser extensions, CI action, the wiring of the Terraform provider: clients of the HTTP interface,
  on whose state the server does not depend;
* the base of a replay, of a crawl and of a synthesized scenario, which is the caller's, steps that only pause, absolute URLs of steps, and the retries of a
  step (those are in `VUSession`): left out of `Journey` and `ScenarioImport`. What such URLs mean for the gate is in `TargetVerification`;
* listing and deletion of stored runs, the SQL schema, and the flags and wiring of `main`;
* the catalogues of carriers and of presets for dependencies: constants.

## 9. Plan

The order was that of importance; what is done is section 2.

1. `ManagedChaos` under `DeadManSwitch`. Done, proved.
2. `RunLifecycle` over `DeadManSwitch`. Done, proved but for liveness.
3. `BreakingPointSearch`. Done, proved.
4. `AgentRegistry`, `MultiRegion`. Done, proved.
5. `CircuitBreaker`, `VUSession`, `LoadEngine`. Done, proved but for liveness.
6. `EventBus` with telemetry and both stream handlers, `SystemLog`. Done, proved but for liveness.
7. `GameDay` with the Terraform resource, `TargetVerification` with the gate. Done, proved.
8. `FaultProxy`, `ResourceStress` and `PodKill`. Done, proved but for liveness.
9. `PresetStore`, `LatencyMetrics`, `Journey` with `ScenarioImport`, `Diagnostics`. Done, proved.

What is left, in the order in which it would be taken up: the weighted averages of a merged
summary and the counts per status code; the retries of a step in `Journey`; the resource-stress
driver as an implementation of `DeadManSwitch`, which it is only while no two of its faults have one ID; the listener
of the fault proxy.

