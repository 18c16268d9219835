------------------------------ MODULE EventBus ------------------------------
(***************************************************************************)
(* The bus of live telemetry (pkg/server/eventbus.go), what publishes on   *)
(* it (the telemetry goroutine and the end of executeRun, coordinator.go)  *)
(* and the handlers that stream it to a browser (handler.go).              *)
(*                                                                         *)
(* Publish holds the read lock while it goes through the subscribers, so   *)
(* several publishers are at it at a time, each a channel further with     *)
(* every step; Subscribe, unsubscribe and Close hold the write lock and    *)
(* are one step each.                                                      *)
(***************************************************************************)
EXTENDS Integers, Sequences

CONSTANTS
    Runs,          \* the IDs a browser may ask for
    LiveRuns,      \* the runs that are executed
    SharedRuns,    \* the runs a share token leads to
    Streams,       \* the connections of browsers
    BusBuffer,     \* the size of a subscriber's channel
    MaxSnapshots   \* bound: ticks of one run's telemetry

ASSUME BusConstants ==
    /\ LiveRuns \subseteq Runs
    /\ SharedRuns \subseteq Runs
    /\ BusBuffer \in Nat \ {0}
    /\ MaxSnapshots \in Nat

VARIABLES
    busClosed,    \* EventBus.closed
    subscribers,  \* EventBus.subscribers: the streams of every run
    channel,      \* per stream: "nil", "open" or "closed"
    feed,         \* per stream: every event ever put into its channel
    taken,        \* per stream: how many of them its handler has taken
    handler,      \* per stream: where its handler is, and for which run
    client,       \* per stream: whether the browser is still there
    progress,     \* per run: how far executeRun is
    telemetry,    \* the runs whose telemetry goroutine runs
    sending,      \* per publisher: the channels Publish has still to visit
    sent,         \* history: the events every publisher has published
    joined,       \* history: what was published when a stream subscribed
    dropped,      \* history: the events a stream missed with a full channel
    busPanicked   \* history: a closed channel was sent to or closed

busVars == <<busClosed, subscribers, channel, feed, taken, handler, client, progress,
             telemetry, sending, sent, joined, dropped, busPanicked>>
streamVars == <<channel, feed, taken, handler, client, joined, dropped, busPanicked>>
runVars == <<progress, telemetry, sending, sent>>

NoRun == "no run"

(* A run has two publishers, and an event is known by its publisher and its
   number.  The run itself publishes the terminal event and then the one of
   finalizeRun; its telemetry goroutine publishes snapshots. *)
Publishers == Runs \X {"ticker", "run"}
PublishersOf(r) == {r} \X {"ticker", "run"}
Event == Publishers \X Nat

BusInit ==
    /\ busClosed = FALSE
    /\ subscribers = [r \in Runs |-> {}]
    /\ channel = [s \in Streams |-> "nil"]
    /\ feed = [s \in Streams |-> <<>>]
    /\ taken = [s \in Streams |-> 0]
    /\ handler = [s \in Streams |-> [at |-> "idle", run |-> NoRun]]
    /\ client = [s \in Streams |-> "there"]
    /\ progress = [r \in Runs |-> IF r \in LiveRuns THEN "running" ELSE "final"]
    /\ telemetry = LiveRuns
    /\ sending = [p \in Publishers |-> {}]
    /\ sent = [p \in Publishers |-> 0]
    /\ joined = [s \in Streams |-> [p \in Publishers |-> 0]]
    /\ dropped = [s \in Streams |-> {}]
    /\ busPanicked = FALSE

-----------------------------------------------------------------------------
Registered == UNION {subscribers[r] : r \in Runs}

(* Mutant: an event goes to the subscribers of every run. *)
Listeners_All(r) == Registered

(* Publish takes the read lock, and looks up who listens. *)
Listeners(r) == subscribers[r]

Publish(p) ==
    /\ sending[p] = {}
    /\ \/ /\ busClosed
          /\ UNCHANGED <<sending, sent>>
       \/ /\ ~busClosed
          /\ sending' = [sending EXCEPT ![p] = Listeners(p[1])]
          /\ sent' = [sent EXCEPT ![p] = @ + 1]

Queued(s) == Len(feed[s]) - taken[s]

(* One turn of the loop in Publish; after the last the lock is given back. *)
Send(p, s) ==
    LET event == <<p, sent[p]>> IN
    /\ s \in sending[p]
    /\ sending' = [sending EXCEPT ![p] = @ \ {s}]
    /\ busPanicked' = (busPanicked \/ channel[s] = "closed")
    /\ IF Queued(s) < BusBuffer
       THEN feed' = [feed EXCEPT ![s] = Append(@, event)] /\ UNCHANGED dropped
       ELSE dropped' = [dropped EXCEPT ![s] = @ \cup {event}] /\ UNCHANGED feed
    /\ UNCHANGED <<busClosed, subscribers, channel, taken, handler, client, progress,
                   telemetry, sent, joined>>

(* The write lock: no publisher holds the read lock. *)
Exclusive == \A p \in Publishers : sending[p] = {}

Subscribe(s, r) ==
    /\ Exclusive
    /\ joined' = [joined EXCEPT ![s] = sent]
    /\ channel' = [channel EXCEPT ![s] = IF busClosed THEN "closed" ELSE "open"]
    /\ subscribers' = IF busClosed THEN subscribers
                      ELSE [subscribers EXCEPT ![r] = @ \cup {s}]

(* Mutant: unsubscribe closes the channel without asking whether Close has. *)
Unsubscribe_Closes(s, r) ==
    /\ Exclusive
    /\ subscribers' = [subscribers EXCEPT ![r] = @ \ {s}]
    /\ channel' = [channel EXCEPT ![s] = "closed"]
    /\ busPanicked' = (busPanicked \/ channel[s] = "closed")

(* The cleanup of a stream that was registered, once. *)
Unsubscribe(s, r) ==
    /\ Exclusive
    /\ subscribers' = [subscribers EXCEPT ![r] = @ \ {s}]
    /\ \/ /\ ~busClosed
          /\ channel' = [channel EXCEPT ![s] = "closed"]
          /\ busPanicked' = (busPanicked \/ channel[s] = "closed")
       \/ busClosed /\ UNCHANGED <<channel, busPanicked>>

(* Mutant: Close forgets the channels without closing them. *)
CloseBus_Forgets ==
    /\ Exclusive
    /\ ~busClosed
    /\ busClosed' = TRUE
    /\ subscribers' = [r \in Runs |-> {}]
    /\ UNCHANGED <<channel, feed, taken, handler, client, joined, dropped, busPanicked, runVars>>

(* main closes the bus when it returns. *)
CloseBus ==
    /\ Exclusive
    /\ ~busClosed
    /\ busClosed' = TRUE
    /\ channel' = [s \in Streams |-> IF s \in Registered THEN "closed" ELSE channel[s]]
    /\ busPanicked' = (busPanicked \/ \E s \in Registered : channel[s] = "closed")
    /\ subscribers' = [r \in Runs |-> {}]
    /\ UNCHANGED <<feed, taken, handler, client, joined, dropped, runVars>>

-----------------------------------------------------------------------------
(* The two handlers differ in how they find the run: one takes any ID, even
   that of no run, the other asks the repository for the owner of a token. *)
Open(s, r) ==
    /\ handler[s].at = "idle"
    /\ Subscribe(s, r)
    /\ handler' = [handler EXCEPT ![s] =
                     [at |-> IF busClosed THEN "unregistered" ELSE "streaming", run |-> r]]
    /\ UNCHANGED <<busClosed, feed, taken, client, dropped, busPanicked, runVars>>

StreamTelemetry(s, r) == Open(s, r)
PublicStreamTelemetry(s, r) == r \in SharedRuns /\ Open(s, r)

IsOpen(s) == handler[s].at \in {"streaming", "unregistered"}

(* A turn of the handler's loop that writes an event to the browser. *)
Forward(s) ==
    /\ IsOpen(s)
    /\ Queued(s) > 0
    /\ taken' = [taken EXCEPT ![s] = @ + 1]
    /\ UNCHANGED <<busClosed, subscribers, channel, feed, handler, client, joined, dropped,
                   busPanicked, runVars>>

(* The request's context is done, or the channel is closed and drained. *)
MustReturn(s) == client[s] = "gone" \/ (channel[s] = "closed" /\ Queued(s) = 0)

Return(s) ==
    /\ MustReturn(s)
    /\ \/ /\ handler[s].at = "streaming"
          /\ Unsubscribe(s, handler[s].run)
       \/ /\ handler[s].at = "unregistered"
          /\ UNCHANGED <<subscribers, channel, busPanicked>>
    /\ handler' = [handler EXCEPT ![s].at = "done"]
    /\ UNCHANGED <<busClosed, feed, taken, client, joined, dropped, runVars>>

Leave(s) ==
    /\ IsOpen(s)
    /\ client[s] = "there"
    /\ client' = [client EXCEPT ![s] = "gone"]
    /\ UNCHANGED <<busClosed, subscribers, channel, feed, taken, handler, joined, dropped,
                   busPanicked, runVars>>

-----------------------------------------------------------------------------
(* The telemetry goroutine.  Its select may take the tick although the run
   has told it to stop, so a snapshot can follow the terminal event. *)
Tick(r) ==
    /\ r \in telemetry
    /\ sent[<<r, "ticker">>] < MaxSnapshots
    /\ Publish(<<r, "ticker">>)
    /\ UNCHANGED <<busClosed, subscribers, streamVars, progress, telemetry>>

StopTelemetry(r) ==
    /\ r \in telemetry
    /\ progress[r] # "running"
    /\ sending[<<r, "ticker">>] = {}
    /\ telemetry' = telemetry \ {r}
    /\ UNCHANGED <<busClosed, subscribers, streamVars, progress, sending, sent>>

(* engine.Run returns and telemetryStop is closed. *)
EngineReturns(r) ==
    /\ progress[r] = "running"
    /\ progress' = [progress EXCEPT ![r] = "ended"]
    /\ UNCHANGED <<busClosed, subscribers, streamVars, telemetry, sending, sent>>

(* The terminal event needs a summary; a run that has none goes straight to
   the event of finalizeRun. *)
PublishTerminal(r) ==
    /\ progress[r] = "ended"
    /\ Publish(<<r, "run">>)
    /\ progress' = [progress EXCEPT ![r] = "reported"]
    /\ UNCHANGED <<busClosed, subscribers, streamVars, telemetry>>

PublishFinal(r) ==
    /\ progress[r] \in {"ended", "reported"}
    /\ Publish(<<r, "run">>)
    /\ progress' = [progress EXCEPT ![r] = "final"]
    /\ UNCHANGED <<busClosed, subscribers, streamVars, telemetry>>

BusNext ==
    \/ \E p \in Publishers, s \in Streams : Send(p, s)
    \/ \E s \in Streams, r \in Runs : StreamTelemetry(s, r) \/ PublicStreamTelemetry(s, r)
    \/ \E s \in Streams : Forward(s) \/ Return(s) \/ Leave(s)
    \/ \E r \in Runs :
          \/ Tick(r) \/ StopTelemetry(r)
          \/ EngineReturns(r) \/ PublishTerminal(r) \/ PublishFinal(r)
    \/ CloseBus

BusSpec == BusInit /\ [][BusNext]_busVars

-----------------------------------------------------------------------------
BusTypeOK ==
    /\ busClosed \in BOOLEAN
    /\ subscribers \in [Runs -> SUBSET Streams]
    /\ channel \in [Streams -> {"nil", "open", "closed"}]
    /\ feed \in [Streams -> Seq(Event)]
    /\ taken \in [Streams -> Nat]
    /\ handler \in [Streams -> [at : {"idle", "streaming", "unregistered", "done"},
                                run : Runs \cup {NoRun}]]
    /\ client \in [Streams -> {"there", "gone"}]
    /\ progress \in [Runs -> {"running", "ended", "reported", "final"}]
    /\ telemetry \subseteq Runs
    /\ sending \in [Publishers -> SUBSET Streams]
    /\ sent \in [Publishers -> Nat]
    /\ joined \in [Streams -> [Publishers -> Nat]]
    /\ dropped \in [Streams -> SUBSET Event]
    /\ busPanicked \in BOOLEAN

(* Publishers, streams that come and go and a Close never send to, or close,
   a channel that is closed: that would be a panic of the server. *)
ChannelsAreSafe == ~busPanicked

(* A stream is fed the events of its own run, of each publisher in the order
   published and none twice, and none older than its subscription; while it is
   subscribed, what it was not fed it missed because its channel was full. *)
StreamIsFaithful ==
    \A s \in Streams :
       /\ \A i \in 1..Len(feed[s]) :
             /\ feed[s][i][1] \in PublishersOf(handler[s].run)
             /\ feed[s][i][2] > joined[s][feed[s][i][1]]
             /\ \A j \in 1..(i - 1) :
                   feed[s][j][1] = feed[s][i][1] => feed[s][j][2] < feed[s][i][2]
       /\ \A r \in Runs : s \in subscribers[r] =>
             \A p \in PublishersOf(r) : \A n \in (joined[s][p] + 1)..sent[p] :
                \/ \E i \in 1..Len(feed[s]) : feed[s][i] = <<p, n>>
                \/ <<p, n>> \in dropped[s]
                \/ n = sent[p] /\ s \in sending[p]

(* The handler of a stream returns, once its browser has gone or the bus has
   been closed: no lock and no channel holds it for good. *)
StreamEnds ==
    \A s \in Streams :
       (IsOpen(s) /\ (client[s] = "gone" \/ busClosed)) ~> handler[s].at = "done"
=============================================================================
