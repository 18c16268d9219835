-------------------------- MODULE BackgroundProofs --------------------------
(***************************************************************************)
(* What holds of the parts of the server that work with goroutines and     *)
(* channels of their own: of the event bus for any runs, streams and       *)
(* buffer sizes, of the fault proxy for any requests and faults, of the    *)
(* system log for any capacity and any readers, of the resource stress for *)
(* any faults, and of the killing of pods for any cluster.                 *)
(***************************************************************************)
EXTENDS MCBackground, FiniteSetTheorems, TLAPS

-----------------------------------------------------------------------------
(* The event bus.  Type correctness: the steps of Publish are those of its
   callers. *)
LEMMA PublishTypes ==
    ASSUME BusTypeOK, NEW p \in Publishers, Publish(p)
    PROVE  sending' \in [Publishers -> SUBSET Streams] /\ sent' \in [Publishers -> Nat]
<1>1. p[1] \in Runs
  BY DEF Publishers
<1>2. CASE busClosed
  BY <1>2 DEF BusTypeOK, Publish
<1>3. CASE ~busClosed
  <2>1. Listeners(p[1]) \in SUBSET Streams
    BY <1>1 DEF BusTypeOK, Listeners
  <2>2. sending' = [sending EXCEPT ![p] = Listeners(p[1])] /\ sent' = [sent EXCEPT ![p] = @ + 1]
    BY <1>3 DEF Publish
  <2> QED BY <2>1, <2>2 DEF BusTypeOK
<1> QED BY <1>2, <1>3

(* An event that is published is an event. *)
LEMMA SendTypes ==
    ASSUME BusTypeOK, NEW p \in Publishers, NEW s \in Streams, Send(p, s)
    PROVE  BusTypeOK'
<1> DEFINE event == <<p, sent[p]>>
<1>1. event \in Event
  BY DEF BusTypeOK, Event
<1>2. feed' \in [Streams -> Seq(Event)]
  <2>1. Append(feed[s], event) \in Seq(Event)
    <3> HIDE DEF event
    <3> QED BY <1>1 DEF BusTypeOK
  <2> QED BY <2>1 DEF Send, BusTypeOK
<1>3. dropped' \in [Streams -> SUBSET Event]
  <2>1. dropped' = dropped \/ dropped' = [dropped EXCEPT ![s] = @ \cup {event}]
    BY DEF Send
  <2>2. dropped[s] \cup {event} \in SUBSET Event
    BY <1>1 DEF BusTypeOK
  <2> HIDE DEF event
  <2> QED BY <2>1, <2>2 DEF BusTypeOK
<1> QED BY <1>2, <1>3 DEF Send, BusTypeOK

(* Every variable of the bus keeps its type in every step. *)
LEMMA BusTypeNext ==
    ASSUME BusConstants, BusTypeOK, [BusNext]_busVars
    PROVE  BusTypeOK'
<1>1. ASSUME NEW p \in Publishers, NEW s \in Streams, Send(p, s) PROVE BusTypeOK'
  BY <1>1, SendTypes
<1>2. ASSUME NEW s \in Streams, NEW r \in Runs, Open(s, r) PROVE BusTypeOK'
  BY <1>2 DEF Open, Subscribe, Exclusive, BusTypeOK, runVars
<1>3. ASSUME NEW s \in Streams, Forward(s) PROVE BusTypeOK'
  BY <1>3 DEF Forward, Queued, BusTypeOK, runVars
<1>4. ASSUME NEW s \in Streams, Return(s) PROVE BusTypeOK'
  <2>1. subscribers' \in [Runs -> SUBSET Streams] /\ busPanicked' \in BOOLEAN
    <3>1. CASE handler[s].at = "streaming" /\ ~busClosed
      <4>1. subscribers' \in [Runs -> SUBSET Streams]
        <5>1. subscribers' = [subscribers EXCEPT ![handler[s].run] = @ \ {s}]
          BY <1>4, <3>1 DEF Return, Unsubscribe
        <5> QED BY <5>1 DEF BusTypeOK
      <4>2. busPanicked' = (busPanicked \/ channel[s] = "closed")
        BY <1>4, <3>1 DEF Return, Unsubscribe
      <4>3. (busPanicked \/ channel[s] = "closed") \in BOOLEAN
        OBVIOUS
      <4> QED BY ONLY <4>1, <4>2, <4>3
    <3>2. CASE handler[s].at # "streaming" \/ busClosed
      BY <1>4, <3>2 DEF Return, Unsubscribe, BusTypeOK
    <3> QED BY <3>1, <3>2
  <2>2. channel' \in [Streams -> {"nil", "open", "closed"}]
    BY <1>4 DEF Return, Unsubscribe, BusTypeOK
  <2>3. handler' \in [Streams -> [at : {"idle", "streaming", "unregistered", "done"},
                                  run : Runs \cup {NoRun}]]
    BY <1>4 DEF Return, BusTypeOK
  <2> QED BY <1>4, <2>1, <2>2, <2>3 DEF Return, BusTypeOK, runVars
<1>5. ASSUME NEW s \in Streams, Leave(s) PROVE BusTypeOK'
  BY <1>5 DEF Leave, BusTypeOK, runVars
<1>6. ASSUME NEW r \in Runs, Tick(r) PROVE BusTypeOK'
  BY <1>6, PublishTypes, <<r, "ticker">> \in Publishers DEF Tick, BusTypeOK, streamVars, Publishers
<1>7. ASSUME NEW r \in Runs, StopTelemetry(r) \/ EngineReturns(r) PROVE BusTypeOK'
  BY <1>7 DEF StopTelemetry, EngineReturns, BusTypeOK, streamVars
<1>8. ASSUME NEW r \in Runs, PublishTerminal(r) \/ PublishFinal(r) PROVE BusTypeOK'
  <2>1. <<r, "run">> \in Publishers
    BY DEF Publishers
  <2>2. Publish(<<r, "run">>)
    BY <1>8 DEF PublishTerminal, PublishFinal
  <2>3. sending' \in [Publishers -> SUBSET Streams] /\ sent' \in [Publishers -> Nat]
    BY <2>1, <2>2, PublishTypes
  <2>4. progress' \in [Runs -> {"running", "ended", "reported", "final"}]
    BY <1>8, ZenonT(30) DEF PublishTerminal, PublishFinal, BusTypeOK
  <2>5. UNCHANGED <<busClosed, subscribers, streamVars, telemetry>>
    BY <1>8 DEF PublishTerminal, PublishFinal
  <2> QED BY <2>3, <2>4, <2>5 DEF BusTypeOK, streamVars
<1>9. ASSUME CloseBus PROVE BusTypeOK'
  BY <1>9 DEF CloseBus, BusTypeOK, runVars
<1>10. ASSUME UNCHANGED busVars PROVE BusTypeOK'
  BY <1>10 DEF busVars, BusTypeOK
<1> QED
  BY <1>1, <1>2, <1>3, <1>4, <1>5, <1>6, <1>7, <1>8, <1>9, <1>10
     DEF BusNext, StreamTelemetry, PublicStreamTelemetry

LEMMA BusTypeInit ==
    ASSUME BusConstants, BusInit PROVE BusTypeOK
<1> SUFFICES ASSUME BusConstants, BusInit PROVE BusTypeOK
  OBVIOUS
<1>1. feed \in [Streams -> Seq(Event)]
  BY DEF BusInit
<1>2. joined \in [Streams -> [Publishers -> Nat]] /\ sent \in [Publishers -> Nat]
  BY DEF BusInit
<1>3. handler \in [Streams -> [at : {"idle", "streaming", "unregistered", "done"},
                               run : Runs \cup {NoRun}]]
  BY DEF BusInit
<1>4. progress \in [Runs -> {"running", "ended", "reported", "final"}]
      /\ telemetry \subseteq Runs
  BY DEF BusInit, BusConstants
<1>5. dropped \in [Streams -> SUBSET Event] /\ sending \in [Publishers -> SUBSET Streams]
      /\ subscribers \in [Runs -> SUBSET Streams]
  BY DEF BusInit
<1>6. channel \in [Streams -> {"nil", "open", "closed"}] /\ taken \in [Streams -> Nat]
      /\ client \in [Streams -> {"there", "gone"}]
  BY DEF BusInit
<1>7. busClosed \in BOOLEAN /\ busPanicked \in BOOLEAN
  BY DEF BusInit
<1> QED BY <1>1, <1>2, <1>3, <1>4, <1>5, <1>6, <1>7 DEF BusTypeOK

-----------------------------------------------------------------------------
(* Who is subscribed is at the other end: its channel is open and its handler
   streams that run; what Publish has still to visit is subscribed, because
   whoever takes a subscription away waits until no publisher is under way. *)
Connected ==
    /\ ~busPanicked
    /\ \A r \in Runs : \A s \in subscribers[r] :
          channel[s] = "open" /\ handler[s].at = "streaming" /\ handler[s].run = r
    /\ \A p \in Publishers : sending[p] \subseteq subscribers[p[1]]
    /\ \A s \in Streams : handler[s].at = "streaming" =>
          handler[s].run \in Runs /\ (busClosed \/ s \in subscribers[handler[s].run])

LEMMA ConnectedInit ==
    ASSUME BusInit PROVE Connected
BY DEF BusInit, Connected, Publishers

LEMMA PublishConnected ==
    ASSUME BusTypeOK, Connected, NEW p \in Publishers, Publish(p),
           UNCHANGED <<busClosed, subscribers, streamVars>>
    PROVE  Connected'
<1>1. p[1] \in Runs
  BY DEF Publishers
<1>2. CASE busClosed
  BY <1>2 DEF Connected, Publish, streamVars
<1>3. CASE ~busClosed
  <2>1. sending' = [sending EXCEPT ![p] = subscribers[p[1]]]
    BY <1>3 DEF Publish, Listeners
  <2>2. \A q \in Publishers : sending'[q] \subseteq subscribers'[q[1]]
    BY <2>1 DEF BusTypeOK, Connected
  <2> QED BY <2>2 DEF Connected, streamVars
<1> QED BY <1>2, <1>3

LEMMA ConnectedNext ==
    ASSUME BusTypeOK, Connected, [BusNext]_busVars
    PROVE  Connected'
<1>1. ASSUME NEW p \in Publishers, NEW s \in Streams, Send(p, s) PROVE Connected'
  <2>1. s \in subscribers[p[1]] /\ p[1] \in Runs
    BY <1>1 DEF Send, Connected, Publishers
  <2>2. ~busPanicked'
    BY <1>1, <2>1 DEF Send, Connected
  <2>3. \A q \in Publishers : sending'[q] \subseteq subscribers[q[1]]
    BY <1>1 DEF Send, Connected, BusTypeOK
  <2> QED BY <1>1, <2>2, <2>3 DEF Send, Connected
<1>2. ASSUME NEW s \in Streams, NEW r \in Runs, Open(s, r) PROVE Connected'
  BY <1>2 DEF Open, Subscribe, Exclusive, Connected, BusTypeOK, runVars, Publishers
<1>3. ASSUME NEW s \in Streams, Forward(s) \/ Leave(s) PROVE Connected'
  BY <1>3 DEF Forward, Leave, Connected, BusTypeOK, runVars
<1>4. ASSUME NEW s \in Streams, Return(s) PROVE Connected'
  <2>1. CASE handler[s].at = "unregistered"
    BY <1>4, <2>1 DEF Return, Connected, BusTypeOK, runVars
  <2>2. CASE handler[s].at = "streaming"
    <3> DEFINE r == handler[s].run
    <3>1. r \in Runs /\ \A q \in Publishers : sending[q] = {}
      BY <1>4, <2>2 DEF Return, Unsubscribe, Exclusive, Connected
    <3>2. subscribers' = [subscribers EXCEPT ![r] = @ \ {s}]
      BY <1>4, <2>2 DEF Return, Unsubscribe
    <3>3. ~busPanicked'
      BY <1>4, <2>2, <3>1 DEF Return, Unsubscribe, Connected
    <3>4. \A q \in Runs : \A x \in subscribers'[q] : x # s /\ x \in subscribers[q]
      BY <2>2, <3>1, <3>2 DEF Connected, BusTypeOK
    <3>5. \A x \in Streams : x # s => handler'[x] = handler[x] /\ channel'[x] = channel[x]
      BY <1>4 DEF Return, Unsubscribe, BusTypeOK
    <3>6. \A q \in Runs : \A x \in subscribers'[q] :
             channel'[x] = "open" /\ handler'[x].at = "streaming" /\ handler'[x].run = q
      BY <3>4, <3>5 DEF Connected, BusTypeOK
    <3>7. sending' = sending /\ busClosed' = busClosed
      BY <1>4 DEF Return, runVars
    <3>8. handler'[s].at = "done"
      BY <1>4 DEF Return, BusTypeOK
    <3>9. \A x \in Streams : handler'[x].at = "streaming" =>
             handler'[x].run \in Runs /\ (busClosed' \/ x \in subscribers'[handler'[x].run])
      BY <3>2, <3>5, <3>7, <3>8 DEF Connected, BusTypeOK
    <3> QED BY <3>1, <3>3, <3>6, <3>7, <3>9 DEF Connected
  <2> QED BY <1>4, <2>1, <2>2 DEF Return
<1>5. ASSUME NEW r \in Runs, Tick(r) PROVE Connected'
  BY <1>5, PublishConnected, <<r, "ticker">> \in Publishers DEF Tick, Publishers
<1>6. ASSUME NEW r \in Runs, StopTelemetry(r) \/ EngineReturns(r) PROVE Connected'
  BY <1>6 DEF StopTelemetry, EngineReturns, Connected, streamVars
<1>7. ASSUME NEW r \in Runs, PublishTerminal(r) \/ PublishFinal(r) PROVE Connected'
  BY <1>7, PublishConnected, <<r, "run">> \in Publishers
     DEF PublishTerminal, PublishFinal, Publishers
<1>8. ASSUME CloseBus PROVE Connected'
  BY <1>8 DEF CloseBus, Exclusive, Registered, Connected, BusTypeOK, runVars, Publishers
<1>9. ASSUME UNCHANGED busVars PROVE Connected'
  BY <1>9 DEF busVars, Connected
<1> QED
  BY <1>1, <1>2, <1>3, <1>4, <1>5, <1>6, <1>7, <1>8, <1>9
     DEF BusNext, StreamTelemetry, PublicStreamTelemetry

(* The types hold in every reachable state of the bus. *)
THEOREM BusTypeCorrect == ASSUME BusConstants PROVE BusSpec => []BusTypeOK
BY BusTypeInit, BusTypeNext, PTL DEF BusSpec

(* No channel of eventbus.go is sent to or closed after it was closed, for any
   number of publishers and streams, and whenever main closes the bus. *)
THEOREM BusChannelsAreSafe == ASSUME BusConstants PROVE BusSpec => []ChannelsAreSafe
<1>1. BusTypeOK /\ Connected /\ [BusNext]_busVars => BusTypeOK' /\ Connected'
  BY BusTypeNext, ConnectedNext
<1>2. BusInit => BusTypeOK /\ Connected
  BY BusTypeInit, ConnectedInit
<1>3. Connected => ChannelsAreSafe
  BY DEF Connected, ChannelsAreSafe
<1> QED BY <1>1, <1>2, <1>3, PTL DEF BusSpec
-----------------------------------------------------------------------------
(* What a stream was fed is of its run, is newer than its subscription, and
   older than what Publish is about to send it. *)
FedInOrder(s) ==
    \A i \in 1..Len(feed[s]) :
       /\ feed[s][i][1] \in PublishersOf(handler[s].run)
       /\ feed[s][i][2] > joined[s][feed[s][i][1]]
       /\ feed[s][i][2] <= sent[feed[s][i][1]]
       /\ s \in sending[feed[s][i][1]] => feed[s][i][2] < sent[feed[s][i][1]]
       /\ \A j \in 1..(i - 1) :
             feed[s][j][1] = feed[s][i][1] => feed[s][j][2] < feed[s][i][2]

Accounted(s) ==
    \A r \in Runs : s \in subscribers[r] =>
       \A p \in PublishersOf(r) : \A n \in (joined[s][p] + 1)..sent[p] :
          \/ \E i \in 1..Len(feed[s]) : feed[s][i] = <<p, n>>
          \/ <<p, n>> \in dropped[s]
          \/ n = sent[p] /\ s \in sending[p]

JoinedInTime(s) ==
    /\ handler[s].at = "idle" => feed[s] = <<>>
    /\ \A p \in Publishers :
          joined[s][p] <= sent[p] /\ (s \in sending[p] => joined[s][p] < sent[p])

Faithful(s) == FedInOrder(s) /\ Accounted(s) /\ JoinedInTime(s)

LEMMA FeedTypes ==
    ASSUME BusTypeOK, NEW s \in Streams, NEW i \in 1..Len(feed[s])
    PROVE  /\ feed[s] \in Seq(Event) /\ feed[s][i] \in Event
           /\ feed[s][i][1] \in Publishers /\ feed[s][i][2] \in Nat
<1>1. feed[s] \in Seq(Event)
  BY DEF BusTypeOK
<1>2. feed[s][i] \in Event
  BY <1>1
<1> QED BY <1>1, <1>2 DEF Event

(* Steps that feed no stream, publish nothing and subscribe nobody. *)
LEMMA QuietFaithful ==
    ASSUME BusTypeOK, NEW s \in Streams, Faithful(s),
           UNCHANGED <<feed, joined, sent, sending, dropped>>,
           \A r \in Runs : subscribers'[r] \subseteq subscribers[r],
           handler'[s].run = handler[s].run,
           handler'[s].at = "idle" => handler[s].at = "idle"
    PROVE  Faithful(s)'
<1>1. FedInOrder(s)'
  BY DEF Faithful, FedInOrder
<1>2. Accounted(s)'
  BY DEF Faithful, Accounted
<1>3. JoinedInTime(s)'
  BY DEF Faithful, JoinedInTime
<1> QED BY <1>1, <1>2, <1>3 DEF Faithful

LEMMA OpenFaithful ==
    ASSUME BusTypeOK, Connected, \A s \in Streams : Faithful(s),
           NEW s \in Streams, NEW r \in Runs, Open(s, r), NEW x \in Streams
    PROVE  Faithful(x)'
<1>1. CASE x # s
  <2>1. handler'[x] = handler[x] /\ joined'[x] = joined[x]
    BY <1>1 DEF Open, Subscribe, BusTypeOK
  <2>2. \A q \in Runs : x \in subscribers'[q] => x \in subscribers[q]
    BY <1>1 DEF Open, Subscribe, BusTypeOK
  <2>3. UNCHANGED <<feed, sent, sending, dropped>>
    BY DEF Open, runVars
  <2>4. FedInOrder(x)'
    BY <2>1, <2>3 DEF Faithful, FedInOrder
  <2>5. Accounted(x)'
    <3>1. Accounted(x)
      BY DEF Faithful
    <3> SUFFICES ASSUME NEW q \in Runs, x \in subscribers'[q], NEW p \in PublishersOf(q),
                        NEW n \in (joined'[x][p] + 1)..sent'[p]
                 PROVE  \/ \E i \in 1..Len(feed'[x]) : feed'[x][i] = <<p, n>>
                        \/ <<p, n>> \in dropped'[x]
                        \/ n = sent'[p] /\ x \in sending'[p]
      BY DEF Accounted
    <3> QED BY <3>1, <2>1, <2>2, <2>3 DEF Accounted
  <2>6. JoinedInTime(x)'
    BY <2>1, <2>3 DEF Faithful, JoinedInTime
  <2> QED BY <2>4, <2>5, <2>6 DEF Faithful
<1>2. CASE x = s
  <2>1. feed'[s] = <<>> /\ joined'[s] = sent /\ sent' = sent
    BY DEF Open, Subscribe, Faithful, JoinedInTime, BusTypeOK, runVars
  <2>2. \A p \in Publishers : sending'[p] = {}
    BY DEF Open, Subscribe, Exclusive, runVars
  <2>3. FedInOrder(s)'
    BY <2>1 DEF FedInOrder
  <2>4. Accounted(s)'
    BY <2>1 DEF Accounted, BusTypeOK, PublishersOf, Publishers
  <2>5. JoinedInTime(s)'
    BY <2>1, <2>2 DEF JoinedInTime, BusTypeOK
  <2> QED BY <1>2, <2>3, <2>4, <2>5 DEF Faithful
<1> QED BY <1>1, <1>2

LEMMA PublishFaithful ==
    ASSUME BusTypeOK, Connected, NEW s \in Streams, Faithful(s),
           NEW p \in Publishers, Publish(p), UNCHANGED <<subscribers, streamVars>>
    PROVE  Faithful(s)'
<1>1. p[1] \in Runs /\ p \in PublishersOf(p[1])
  BY DEF Publishers, PublishersOf
<1>2. CASE busClosed
  BY <1>2, QuietFaithful DEF Publish, streamVars
<1>3. CASE ~busClosed
  <2>1. /\ sending[p] = {}
        /\ sending' = [sending EXCEPT ![p] = subscribers[p[1]]]
        /\ sent' = [sent EXCEPT ![p] = @ + 1]
    BY <1>3 DEF Publish, Listeners
  <2>2. sent'[p] = sent[p] + 1 /\ sent[p] \in Nat /\ sending'[p] = subscribers[p[1]]
    BY <2>1 DEF BusTypeOK
  <2>3. \A q \in Publishers : q # p => sent'[q] = sent[q] /\ sending'[q] = sending[q]
    BY <2>1 DEF BusTypeOK
  <2>4. UNCHANGED <<feed, joined, handler, dropped, subscribers>>
    BY DEF streamVars
  <2>5. FedInOrder(s)'
    <3>1. FedInOrder(s)
      BY DEF Faithful
    <3> SUFFICES ASSUME NEW i \in 1..Len(feed[s])
                 PROVE  /\ feed[s][i][2] <= sent'[feed[s][i][1]]
                        /\ s \in sending'[feed[s][i][1]] =>
                              feed[s][i][2] < sent'[feed[s][i][1]]
      BY <2>4, <3>1 DEF FedInOrder
    <3>2. feed[s][i][1] \in Publishers /\ feed[s][i][2] \in Nat
      BY FeedTypes
    <3> QED BY <3>1, <3>2, <2>2, <2>3, SMTT(30) DEF FedInOrder
  <2>6. Accounted(s)'
    <3>1. Accounted(s)
      BY DEF Faithful
    <3> SUFFICES ASSUME NEW r \in Runs, s \in subscribers[r], NEW q \in PublishersOf(r),
                        NEW n \in (joined[s][q] + 1)..sent'[q]
                 PROVE  \/ \E i \in 1..Len(feed[s]) : feed[s][i] = <<q, n>>
                        \/ <<q, n>> \in dropped[s]
                        \/ n = sent'[q] /\ s \in sending'[q]
      BY <2>4 DEF Accounted
    <3>2. q \in Publishers /\ q[1] = r /\ joined[s][q] \in Nat
      BY DEF PublishersOf, Publishers, BusTypeOK
    <3>3. CASE q # p
      BY <3>1, <3>2, <3>3, <2>3 DEF Accounted
    <3>4. CASE q = p
      <4>1. CASE n = sent'[p]
        BY <3>2, <3>4, <4>1, <2>2
      <4>2. CASE n # sent'[p]
        <5>1. n \in (joined[s][q] + 1)..sent[q]
          BY <3>2, <3>4, <4>2, <2>2
        <5> QED BY <3>1, <3>4, <5>1, <2>1 DEF Accounted
      <4> QED BY <4>1, <4>2
    <3> QED BY <3>3, <3>4
  <2>7. JoinedInTime(s)'
    <3>1. \A q \in Publishers : joined[s][q] \in Nat /\ sent[q] \in Nat
      BY DEF BusTypeOK
    <3> QED BY <3>1, <2>2, <2>3, <2>4 DEF Faithful, JoinedInTime
  <2> QED BY <2>5, <2>6, <2>7 DEF Faithful
<1> QED BY <1>2, <1>3

LEMMA SendFaithful ==
    ASSUME BusTypeOK, Connected, NEW s \in Streams, Faithful(s),
           NEW p \in Publishers, NEW x \in Streams, Send(p, x)
    PROVE  Faithful(s)'
<1>1. UNCHANGED <<subscribers, joined, handler, sent>>
  BY DEF Send
<1>2. \A q \in Publishers : sending'[q] = IF q = p THEN sending[p] \ {x} ELSE sending[q]
  BY DEF Send, BusTypeOK
<1>3. CASE s # x
  <2>1. feed'[s] = feed[s] /\ dropped'[s] = dropped[s]
    BY <1>3 DEF Send, BusTypeOK
  <2>2. \A q \in Publishers : s \in sending'[q] <=> s \in sending[q]
    BY <1>2, <1>3
  <2>3. FedInOrder(s)'
    <3>1. FedInOrder(s)
      BY DEF Faithful
    <3>2. \A i \in 1..Len(feed[s]) : feed[s][i][1] \in Publishers
      BY FeedTypes
    <3> QED BY <3>1, <3>2, <1>1, <2>1, <2>2 DEF FedInOrder
  <2>4. Accounted(s)'
    <3>1. Accounted(s)
      BY DEF Faithful
    <3>2. \A r \in Runs : PublishersOf(r) \subseteq Publishers
      BY DEF PublishersOf, Publishers
    <3> QED BY <3>1, <3>2, <1>1, <2>1, <2>2, ZenonT(30) DEF Accounted
  <2>5. JoinedInTime(s)'
    BY <1>1, <2>1, <2>2 DEF Faithful, JoinedInTime
  <2> QED BY <2>3, <2>4, <2>5 DEF Faithful
<1>4. CASE s = x
  <2> DEFINE event == <<p, sent[p]>>
  <2>1. s \in sending[p] /\ s \in subscribers[p[1]] /\ p[1] \in Runs
    BY <1>4 DEF Send, Connected, Publishers
  <2>2. p \in PublishersOf(handler[s].run) /\ handler[s].at = "streaming"
    BY <2>1 DEF Connected, PublishersOf, Publishers
  <2>3. joined[s][p] < sent[p]
    BY <2>1 DEF Faithful, JoinedInTime
  <2>4. \A i \in 1..Len(feed[s]) :
           feed[s][i][1] \in Publishers /\ feed[s][i][2] \in Nat
    BY FeedTypes
  <2>5. \A i \in 1..Len(feed[s]) : feed[s][i][1] = p => feed[s][i][2] < sent[p]
    BY <2>1 DEF Faithful, FedInOrder
  <2>6. event \in Event /\ event[1] = p /\ event[2] = sent[p] /\ sent[p] \in Nat
    BY DEF Event, BusTypeOK
  <2>7. feed[s] \in Seq(Event)
    BY DEF BusTypeOK
  <2>8. \/ feed'[s] = Append(feed[s], event) /\ dropped'[s] = dropped[s]
        \/ feed'[s] = feed[s] /\ dropped'[s] = dropped[s] \cup {event}
    BY <1>4 DEF Send, BusTypeOK
  <2>9. s \notin sending'[p]
    BY <1>2, <1>4
  <2> HIDE DEF event
  <2>10. /\ Len(feed'[s]) >= Len(feed[s]) /\ Len(feed'[s]) <= Len(feed[s]) + 1
         /\ \A i \in 1..Len(feed[s]) : feed'[s][i] = feed[s][i]
         /\ Len(feed'[s]) = Len(feed[s]) + 1 => feed'[s][Len(feed[s]) + 1] = event
         /\ Len(feed[s]) \in Nat /\ Len(feed'[s]) \in Nat
    BY <2>6, <2>7, <2>8
  <2>11. FedInOrder(s)'
    <3>1. FedInOrder(s)
      BY DEF Faithful
    <3> SUFFICES ASSUME NEW i \in 1..Len(feed'[s])
                 PROVE  /\ feed'[s][i][1] \in PublishersOf(handler[s].run)
                        /\ feed'[s][i][2] > joined[s][feed'[s][i][1]]
                        /\ feed'[s][i][2] <= sent[feed'[s][i][1]]
                        /\ s \in sending'[feed'[s][i][1]] =>
                              feed'[s][i][2] < sent[feed'[s][i][1]]
                        /\ \A j \in 1..(i - 1) : feed'[s][j][1] = feed'[s][i][1] =>
                              feed'[s][j][2] < feed'[s][i][2]
      BY <1>1 DEF FedInOrder
    <3>2. CASE i <= Len(feed[s])
      <4>1. i \in 1..Len(feed[s]) /\ feed'[s][i] = feed[s][i]
            /\ \A j \in 1..(i - 1) : feed'[s][j] = feed[s][j]
        BY <3>2, <2>10
      <4>2. s \in sending'[feed[s][i][1]] => s \in sending[feed[s][i][1]]
        BY <4>1, <2>4, <1>2
      <4> QED BY <3>1, <4>1, <4>2 DEF FedInOrder
    <3>3. CASE i = Len(feed[s]) + 1
      <4>1. feed'[s][i] = event
        BY <3>3, <2>10
      <4>2. \A j \in 1..(i - 1) : j \in 1..Len(feed[s]) /\ feed'[s][j] = feed[s][j]
        BY <3>3, <2>10
      <4>3. joined[s][p] \in Nat
        BY DEF BusTypeOK
      <4> QED BY <4>1, <4>2, <4>3, <2>2, <2>3, <2>5, <2>6, <2>9
    <3> QED BY <3>2, <3>3, <2>10
  <2>12. Accounted(s)'
    <3>1. Accounted(s)
      BY DEF Faithful
    <3> SUFFICES ASSUME NEW r \in Runs, s \in subscribers[r], NEW q \in PublishersOf(r),
                        NEW n \in (joined[s][q] + 1)..sent[q]
                 PROVE  \/ \E i \in 1..Len(feed'[s]) : feed'[s][i] = <<q, n>>
                        \/ <<q, n>> \in dropped'[s]
                        \/ n = sent[q] /\ s \in sending'[q]
      BY <1>1 DEF Accounted
    <3>2. q \in Publishers
      BY DEF PublishersOf, Publishers
    <3>3. \/ \E i \in 1..Len(feed[s]) : feed[s][i] = <<q, n>>
          \/ <<q, n>> \in dropped[s]
          \/ n = sent[q] /\ s \in sending[q]
      BY <3>1 DEF Accounted
    <3>4. CASE \E i \in 1..Len(feed[s]) : feed[s][i] = <<q, n>>
      <4>1. PICK i \in 1..Len(feed[s]) : feed[s][i] = <<q, n>>
        BY <3>4
      <4>2. i \in 1..Len(feed'[s]) /\ feed'[s][i] = <<q, n>>
        BY <4>1, <2>10
      <4> QED BY <4>2
    <3>5. CASE <<q, n>> \in dropped[s]
      BY <3>5, <2>8
    <3>6. CASE n = sent[q] /\ s \in sending[q] /\ q # p
      BY <3>2, <3>6, <1>2
    <3>7. CASE n = sent[q] /\ q = p
      <4>1. <<q, n>> = event
        BY <3>7 DEF event
      <4>2. CASE feed'[s] = Append(feed[s], event)
        <5>1. Len(feed[s]) + 1 \in 1..Len(feed'[s]) /\ feed'[s][Len(feed[s]) + 1] = event
          BY <4>2, <2>6, <2>7, <2>10
        <5> QED BY <5>1, <4>1
      <4>3. CASE event \in dropped'[s]
        BY <4>1, <4>3
      <4> QED BY <4>2, <4>3, <2>8
    <3> QED BY <3>3, <3>4, <3>5, <3>6, <3>7
  <2>13. JoinedInTime(s)'
    BY <1>1, <1>2, <2>2, <1>4 DEF Faithful, JoinedInTime
  <2> QED BY <2>11, <2>12, <2>13 DEF Faithful
<1> QED BY <1>3, <1>4

LEMMA FaithfulNext ==
    ASSUME BusTypeOK, Connected, \A s \in Streams : Faithful(s), [BusNext]_busVars
    PROVE  (\A s \in Streams : Faithful(s))'
<1> SUFFICES ASSUME NEW s \in Streams PROVE Faithful(s)'
  OBVIOUS
<1>1. ASSUME NEW p \in Publishers, NEW x \in Streams, Send(p, x) PROVE Faithful(s)'
  BY <1>1, SendFaithful
<1>2. ASSUME NEW x \in Streams, NEW r \in Runs, Open(x, r) PROVE Faithful(s)'
  BY <1>2, OpenFaithful
<1>3. ASSUME NEW x \in Streams, Forward(x) \/ Leave(x) PROVE Faithful(s)'
  BY <1>3, QuietFaithful DEF Forward, Leave, runVars
<1>4. ASSUME NEW x \in Streams, Return(x) PROVE Faithful(s)'
  <2>1. \A r \in Runs : subscribers'[r] \subseteq subscribers[r]
    BY <1>4 DEF Return, Unsubscribe, BusTypeOK
  <2>2. handler'[s].run = handler[s].run /\ (handler'[s].at = "idle" => handler[s].at = "idle")
    BY <1>4 DEF Return, BusTypeOK
  <2>3. UNCHANGED <<feed, joined, sent, sending, dropped>>
    BY <1>4 DEF Return, runVars
  <2> QED BY <2>1, <2>2, <2>3, QuietFaithful
<1>5. ASSUME NEW r \in Runs, Tick(r) PROVE Faithful(s)'
  BY <1>5, PublishFaithful, <<r, "ticker">> \in Publishers DEF Tick, Publishers
<1>6. ASSUME NEW r \in Runs, StopTelemetry(r) \/ EngineReturns(r) PROVE Faithful(s)'
  BY <1>6, QuietFaithful DEF StopTelemetry, EngineReturns, streamVars
<1>7. ASSUME NEW r \in Runs, PublishTerminal(r) \/ PublishFinal(r) PROVE Faithful(s)'
  BY <1>7, PublishFaithful, <<r, "run">> \in Publishers
     DEF PublishTerminal, PublishFinal, Publishers
<1>8. ASSUME CloseBus PROVE Faithful(s)'
  BY <1>8, QuietFaithful DEF CloseBus, runVars
<1>9. ASSUME UNCHANGED busVars PROVE Faithful(s)'
  BY <1>9, QuietFaithful DEF busVars
<1> QED
  BY <1>1, <1>2, <1>3, <1>4, <1>5, <1>6, <1>7, <1>8, <1>9
     DEF BusNext, StreamTelemetry, PublicStreamTelemetry

(* A browser that streams a run is given the events of that run alone, each
   publisher's in its order, none twice and none from before it subscribed,
   and while it is subscribed the only ones it misses are those Publish drops
   because its channel is full: for any buffer and any pace of the browsers. *)
THEOREM BusStreamIsFaithful == ASSUME BusConstants PROVE BusSpec => []StreamIsFaithful
<1> DEFINE IInv == BusTypeOK /\ Connected /\ \A s \in Streams : Faithful(s)
<1>1. BusInit => IInv
  <2>1. BusInit => \A s \in Streams : Faithful(s)
    BY DEF BusInit, Faithful, FedInOrder, Accounted, JoinedInTime, Publishers
  <2> QED BY <2>1, BusTypeInit, ConnectedInit
<1>2. IInv /\ [BusNext]_busVars => IInv'
  BY BusTypeNext, ConnectedNext, FaithfulNext
<1>3. IInv => StreamIsFaithful
  BY DEF Faithful, FedInOrder, Accounted, StreamIsFaithful
<1> QED BY <1>1, <1>2, <1>3, PTL DEF BusSpec

-----------------------------------------------------------------------------
(* The fault proxy.  A request that has come in keeps the fault that was in
   force then, and what its client is told of a fault that fault has done. *)
Explained ==
    \A r \in ProxyRequests :
       /\ visit[r].stage = "new" => touched[r] = {} /\ outcome[r] = "none"
       /\ visit[r].stage # "new" => visit[r].fault = inForce[r]
       /\ \A f \in touched[r] : f = inForce[r] /\ visit[r].host \in ProxyDomains[f]
       /\ outcome[r] \in {"dns_failure", "severed", "corrupted", "throttled"} => touched[r] # {}

LEMMA StageInv ==
    ASSUME ProxyTypeOK, Explained, NEW r \in ProxyRequests, Stage(r)
    PROVE  ProxyTypeOK' /\ Explained'
<1> DEFINE v == visit[r]
           f == visit[r].fault
<1>1. /\ v.stage \in {"resolve", "lose", "relay", "answer"}
      /\ UNCHANGED <<activeFault, inForce, switches>>
      /\ f = inForce[r] /\ f \in ProxyFaults \cup {NoProxyFault}
  BY DEF Stage, ProxyTypeOK, Explained
<1>2. /\ visit' = [visit EXCEPT ![r].stage = visit'[r].stage]
      /\ visit'[r].stage \in Stages \ {"new"}
  BY DEF Stage, EndWith, GoOn, ProxyTypeOK, Stages
<1>3. /\ visit'[r].fault = v.fault /\ visit'[r].host = v.host
      /\ \A x \in ProxyRequests : x # r => visit'[x] = visit[x]
      /\ visit' \in [ProxyRequests -> [host : ProxyHosts \cup {NoProxyFault}, stage : Stages,
                                       fault : ProxyFaults \cup {NoProxyFault}]]
  BY <1>2 DEF ProxyTypeOK
<1>4. \/ touched' = touched
      \/ /\ touched' = [touched EXCEPT ![r] = @ \cup {f}]
         /\ f \in ProxyFaults /\ v.host \in ProxyDomains[f]
  BY <1>1 DEF Stage, Touch, applies, FaultOf
<1>5. \/ outcome' = outcome
      \/ \E o \in {"upstream_error", "forwarded"} : outcome' = [outcome EXCEPT ![r] = o]
      \/ /\ \E o \in Outcomes : outcome' = [outcome EXCEPT ![r] = o]
         /\ touched' = [touched EXCEPT ![r] = @ \cup {f}]
  BY DEF Stage, Touch, EndWith, GoOn, FaultOf, Outcomes
<1>6. touched' \in [ProxyRequests -> SUBSET ProxyFaults] /\ outcome' \in [ProxyRequests -> Outcomes]
  BY <1>4, <1>5 DEF ProxyTypeOK, Outcomes
<1>7. ProxyTypeOK'
  BY <1>1, <1>3, <1>6 DEF ProxyTypeOK
<1>8. Explained'
  <2> SUFFICES ASSUME NEW x \in ProxyRequests
               PROVE  /\ visit'[x].stage = "new" => touched'[x] = {} /\ outcome'[x] = "none"
                      /\ visit'[x].stage # "new" => visit'[x].fault = inForce'[x]
                      /\ \A g \in touched'[x] :
                            g = inForce'[x] /\ visit'[x].host \in ProxyDomains[g]
                      /\ outcome'[x] \in {"dns_failure", "severed", "corrupted", "throttled"} =>
                            touched'[x] # {}
    BY DEF Explained
  <2>1. CASE x # r
    BY <1>1, <1>3, <1>4, <1>5, <2>1 DEF Explained, ProxyTypeOK
  <2>2. CASE x = r
    <3>1. \A g \in touched'[r] : g = inForce'[r] /\ visit'[r].host \in ProxyDomains[g]
      BY <1>1, <1>3, <1>4 DEF Explained, ProxyTypeOK
    <3>2. outcome'[r] \in {"dns_failure", "severed", "corrupted", "throttled"} => touched'[r] # {}
      BY <1>4, <1>5 DEF Explained, ProxyTypeOK
    <3> QED BY <1>1, <1>2, <1>3, <2>2, <3>1, <3>2
  <2> QED BY <2>1, <2>2
<1> QED BY <1>7, <1>8

LEMMA ReceiveInv ==
    ASSUME ProxyTypeOK, Explained, NEW r \in ProxyRequests, NEW host \in ProxyHosts,
           NEW isForward \in BOOLEAN, Receive(r, host, isForward)
    PROVE  ProxyTypeOK' /\ Explained'
<1> DEFINE new == [host |-> host, fault |-> activeFault,
                   stage |-> IF isForward THEN "resolve" ELSE "done"]
<1>1. /\ new \in [host : ProxyHosts \cup {NoProxyFault}, stage : Stages,
                  fault : ProxyFaults \cup {NoProxyFault}]
      /\ new.stage # "new" /\ new.fault = activeFault
  BY DEF ProxyTypeOK, Stages
<1>2. visit' = [visit EXCEPT ![r] = new] /\ inForce' = [inForce EXCEPT ![r] = activeFault]
      /\ UNCHANGED <<activeFault, touched, switches>>
      /\ touched[r] = {}
  BY DEF Receive, Explained
<1> HIDE DEF new
<1>3. \E o \in {"none", "refused"} : outcome' = [outcome EXCEPT ![r] = o]
  BY DEF Receive, Explained, ProxyTypeOK
<1>4. ProxyTypeOK'
  BY <1>1, <1>2, <1>3 DEF ProxyTypeOK, Outcomes
<1>5. Explained'
  BY <1>1, <1>2, <1>3 DEF ProxyTypeOK, Explained
<1> QED BY <1>4, <1>5

LEMMA ProxyNextInv ==
    ASSUME ProxyConstants, ProxyTypeOK, Explained, [ProxyNext]_proxyVars
    PROVE  ProxyTypeOK' /\ Explained'
<1>1. ASSUME NEW f \in ProxyFaults \cup {NoProxyFault}, Switch(f)
      PROVE  ProxyTypeOK' /\ Explained'
  BY <1>1 DEF Switch, ProxyTypeOK, Explained
<1>2. CASE UNCHANGED proxyVars
  BY <1>2 DEF proxyVars, ProxyTypeOK, Explained
<1> QED BY <1>1, <1>2, StageInv, ReceiveInv DEF ProxyNext, ApplyProxyFault, RevertProxyFault

(* A request is touched by no fault but the one that was in force when it
   came and that names its host, however faults are switched while the proxy
   sleeps or waits, and a client that sees an injected failure was touched. *)
THEOREM ProxyTouchesOnlyItsOwn == ASSUME ProxyConstants PROVE ProxySpec => []TouchedByItsFault
<1>1. ProxyInit => ProxyTypeOK /\ Explained
  BY DEF ProxyInit, ProxyTypeOK, Explained, Stages, Outcomes
<1>2. ProxyTypeOK /\ Explained /\ [ProxyNext]_proxyVars => ProxyTypeOK' /\ Explained'
  BY ProxyNextInv
<1>3. Explained => TouchedByItsFault
  BY DEF Explained, TouchedByItsFault
<1> QED BY <1>1, <1>2, <1>3, PTL DEF ProxySpec

-----------------------------------------------------------------------------
(* The system log.  Numbers in a growing sequence, none above a bound. *)
Growing(s, n) ==
    /\ \A i, j \in 1..Len(s) : i < j => s[i] < s[j]
    /\ \A i \in 1..Len(s) : s[i] <= n

LEMMA AppendGrows ==
    ASSUME NEW s \in Seq(Nat), NEW n \in Nat, Growing(s, n)
    PROVE  Append(s, n + 1) \in Seq(Nat) /\ Growing(Append(s, n + 1), n + 1)
<1> DEFINE t == Append(s, n + 1)
<1>1. /\ t \in Seq(Nat) /\ Len(t) = Len(s) + 1 /\ t[Len(s) + 1] = n + 1 /\ Len(s) \in Nat
      /\ \A i \in 1..Len(s) : t[i] = s[i] /\ s[i] \in Nat
  OBVIOUS
<1> HIDE DEF t
<1>2. \A i \in 1..Len(t) : i \in 1..Len(s) \/ i = Len(s) + 1
  BY <1>1
<1>3. ASSUME NEW i \in 1..Len(t), NEW j \in 1..Len(t), i < j PROVE t[i] < t[j]
  <2>0. i \in 1..Len(s)
    BY <1>1, <1>3
  <2>1. t[i] = s[i] /\ s[i] <= n /\ s[i] \in Nat
    BY <1>1, <2>0 DEF Growing
  <2>2. CASE j \in 1..Len(s)
    <3>1. s[i] < s[j]
      BY <1>3, <2>0, <2>2 DEF Growing
    <3> QED BY <1>1, <2>1, <2>2, <3>1
  <2>3. CASE j = Len(s) + 1
    BY <1>1, <2>1, <2>3
  <2> QED BY <1>2, <2>2, <2>3
<1>4. ASSUME NEW i \in 1..Len(t) PROVE t[i] <= n + 1
  <2>1. CASE i \in 1..Len(s)
    BY <1>1, <2>1 DEF Growing
  <2>2. CASE i = Len(s) + 1
    BY <1>1, <2>2
  <2> QED BY <1>2, <2>1, <2>2
<1>5. Growing(t, n + 1)
  BY <1>3, <1>4 DEF Growing
<1> QED BY <1>1, <1>5 DEF t

LEMMA TailGrows ==
    ASSUME NEW s \in Seq(Nat), NEW n \in Nat, Growing(s, n), s # <<>>
    PROVE  Tail(s) \in Seq(Nat) /\ Growing(Tail(s), n)
BY DEF Growing

LEMMA SubSeqGrows ==
    ASSUME NEW s \in Seq(Nat), NEW n \in Nat, Growing(s, n), NEW m \in 1..(Len(s) + 1)
    PROVE  SubSeq(s, m, Len(s)) \in Seq(Nat) /\ Growing(SubSeq(s, m, Len(s)), n)
<1> DEFINE t == SubSeq(s, m, Len(s))
<1>1. /\ t \in Seq(Nat) /\ Len(t) = Len(s) - m + 1 /\ Len(s) \in Nat
      /\ \A i \in 1..Len(t) : t[i] = s[m + i - 1]
  OBVIOUS
<1> HIDE DEF t
<1>2. \A i \in 1..Len(t) : m + i - 1 \in 1..Len(s)
  BY <1>1
<1>3. ASSUME NEW i \in 1..Len(t), NEW j \in 1..Len(t), i < j PROVE t[i] < t[j]
  <2>1. m + i - 1 \in 1..Len(s) /\ m + j - 1 \in 1..Len(s) /\ m + i - 1 < m + j - 1
    BY <1>2, <1>3
  <2>2. s[m + i - 1] < s[m + j - 1]
    BY <2>1 DEF Growing
  <2> QED BY <1>1, <2>2
<1>4. ASSUME NEW i \in 1..Len(t) PROVE t[i] <= n
  <2>1. s[m + i - 1] <= n
    BY <1>2 DEF Growing
  <2> QED BY <1>1, <2>1
<1>5. Growing(t, n)
  BY <1>3, <1>4 DEF Growing
<1> QED BY <1>1, <1>5 DEF t

(* What is kept and what is shown grows up to the last entry, a follower's
   handler streams, and an entry logged since was shown to it or dropped. *)
Shown ==
    /\ Growing(entries, lastEntry)
    /\ \A c \in Readers :
          /\ Growing(page[c], lastEntry)
          /\ reader[c] \in {"idle", "copied"} => c \notin followers
    /\ LogIsFollowed

LEMMA AddInv ==
    ASSUME LogConstants, LogTypeOK, Shown, Add
    PROVE  LogTypeOK' /\ Shown'
<1> DEFINE entry == lastEntry + 1
<1>1. /\ lastEntry \in Nat /\ lastEntry' = entry
      /\ UNCHANGED <<followers, reader, written, copiedAt, followsFrom>>
      /\ unwritten' \in Nat
  BY DEF Add, LogTypeOK
<1>2. Kept \in Seq(Nat) /\ Growing(Kept, lastEntry)
  <2>1. CASE Len(entries) >= LogCapacity
    <3>1. entries # <<>>
      BY <2>1 DEF LogConstants, LogTypeOK
    <3> QED BY <2>1, <3>1, TailGrows DEF Kept, LogTypeOK, Shown
  <2>2. CASE ~(Len(entries) >= LogCapacity)
    BY <2>2 DEF Kept, LogTypeOK, Shown
  <2> QED BY <2>1, <2>2
<1>3. entries' \in Seq(Nat) /\ Growing(entries', lastEntry')
  BY <1>1, <1>2, AppendGrows DEF Add
<1>4. ASSUME NEW c \in Readers
      PROVE  /\ page'[c] \in Seq(Nat) /\ Growing(page'[c], lastEntry')
             /\ page'[c] = page[c] \/ page'[c] = Append(page[c], entry)
             /\ c \in followers => page'[c] = Append(page[c], entry) \/ entry \in overflow'[c]
             /\ overflow[c] \subseteq overflow'[c] /\ overflow'[c] \in SUBSET Nat
  <2>1. page[c] \in Seq(Nat) /\ Growing(page[c], lastEntry)
    BY DEF LogTypeOK, Shown
  <2>2. Append(page[c], entry) \in Seq(Nat) /\ Growing(Append(page[c], entry), entry)
    BY <1>1, <2>1, AppendGrows
  <2>3. Growing(page[c], entry)
    BY <1>1, <2>1 DEF Growing
  <2>4. page'[c] = IF c \in followers /\ Room(c) THEN Append(page[c], entry) ELSE page[c]
    BY DEF Add
  <2>5. overflow'[c] = IF c \in followers /\ ~Room(c) THEN overflow[c] \cup {entry}
                       ELSE overflow[c]
    BY DEF Add
  <2>6. overflow'[c] \in SUBSET Nat
    BY <1>1, <2>5 DEF LogTypeOK
  <2> QED BY <1>1, <2>1, <2>2, <2>3, <2>4, <2>5, <2>6
<1>5. page' \in [Readers -> Seq(Nat)] /\ overflow' \in [Readers -> SUBSET Nat]
  <2>1. page' = [c \in Readers |-> page'[c]] /\ overflow' = [c \in Readers |-> overflow'[c]]
    BY DEF Add
  <2> QED BY <1>4, <2>1
<1>6. LogTypeOK'
  BY <1>1, <1>3, <1>5 DEF LogTypeOK
<1>7. LogIsFollowed'
  <2> SUFFICES ASSUME NEW c \in followers, NEW n \in (followsFrom[c] + 1)..entry
               PROVE  n \in overflow'[c] \/ \E i \in 1..Len(page'[c]) : page'[c][i] = n
    BY <1>1 DEF LogIsFollowed
  <2>1. c \in Readers /\ page[c] \in Seq(Nat)
    BY DEF LogTypeOK
  <2>2. CASE n = entry
    <3>1. CASE page'[c] = Append(page[c], entry)
      <4>1. /\ Len(page[c]) + 1 \in 1..Len(page'[c])
            /\ page'[c][Len(page[c]) + 1] = entry
        BY <2>1, <3>1
      <4> QED BY <2>2, <4>1
    <3>2. CASE entry \in overflow'[c]
      BY <2>2, <3>2
    <3> QED BY <1>4, <2>1, <3>1, <3>2
  <2>3. CASE n # entry
    <3>1. n \in (followsFrom[c] + 1)..lastEntry
      BY <1>1, <2>1, <2>3 DEF LogTypeOK
    <3>2. n \in overflow[c] \/ \E i \in 1..Len(page[c]) : page[c][i] = n
      BY <3>1 DEF Shown, LogIsFollowed
    <3>3. CASE n \in overflow[c]
      BY <1>4, <2>1, <3>3
    <3>4. CASE \E i \in 1..Len(page[c]) : page[c][i] = n
      <4>1. PICK i \in 1..Len(page[c]) : page[c][i] = n
        BY <3>4
      <4>2. page'[c] = page[c] \/ page'[c] = Append(page[c], entry)
        BY <1>4, <2>1
      <4>3. /\ Len(Append(page[c], entry)) = Len(page[c]) + 1 /\ Len(page[c]) \in Nat
            /\ Append(page[c], entry)[i] = page[c][i]
        BY <2>1
      <4>4. i \in 1..Len(page'[c]) /\ page'[c][i] = n
        BY <4>1, <4>2, <4>3
      <4> QED BY <4>4
    <3> QED BY <3>2, <3>3, <3>4
  <2> QED BY <2>2, <2>3
<1>8. Shown'
  BY <1>1, <1>3, <1>4, <1>7 DEF Shown
<1> QED BY <1>6, <1>8

LEMMA RecentGrows ==
    ASSUME LogConstants, LogTypeOK, Shown
    PROVE  GetRecent(Backlog) \in Seq(Nat) /\ Growing(GetRecent(Backlog), lastEntry)
<1> DEFINE total == Len(entries)
           count == IF Backlog <= 0 \/ Backlog > total THEN total ELSE Backlog
<1>1. entries \in Seq(Nat) /\ lastEntry \in Nat /\ Growing(entries, lastEntry)
  BY DEF LogTypeOK, Shown
<1>2. total - count + 1 \in 1..(Len(entries) + 1)
  <2>1. total \in Nat /\ Backlog \in Nat
    BY <1>1 DEF LogConstants
  <2>2. count \in 0..total
    BY <2>1
  <2> HIDE DEF count
  <2> QED BY <2>1, <2>2
<1>3. GetRecent(Backlog) = SubSeq(entries, total - count + 1, Len(entries))
  BY DEF GetRecent
<1> HIDE DEF total, count
<1> QED BY <1>1, <1>2, <1>3, SubSeqGrows

(* The copy is made before the subscription, which starts with nothing owed. *)
LEMMA OpenInv ==
    ASSUME LogConstants, LogTypeOK, Shown, NEW c \in Readers, OpenLogStream(c),
           UNCHANGED <<lastEntry, unwritten, entries, overflow>>
    PROVE  LogTypeOK' /\ Shown'
<1> DEFINE recent == GetRecent(Backlog)
<1>1. recent \in Seq(Nat) /\ Growing(recent, lastEntry) /\ Len(recent) \in Nat
  BY RecentGrows
<1> HIDE DEF recent
<1>2. CASE reader[c] = "idle"
  <2>1. /\ page' = [page EXCEPT ![c] = recent] /\ written' = [written EXCEPT ![c] = Len(recent)]
        /\ copiedAt' = [copiedAt EXCEPT ![c] = lastEntry]
        /\ reader' = [reader EXCEPT ![c] = "copied"]
        /\ UNCHANGED <<followers, followsFrom, lastEntry, unwritten, entries, overflow>>
    BY <1>2 DEF OpenLogStream, recent
  <2>2. LogTypeOK'
    BY <1>1, <2>1 DEF LogTypeOK
  <2>3. c \notin followers
    BY <1>2 DEF Shown
  <2>4. LogIsFollowed'
    BY <2>1, <2>3 DEF Shown, LogIsFollowed, LogTypeOK
  <2>5. Shown'
    BY <1>1, <2>1, <2>3, <2>4 DEF Shown, LogTypeOK
  <2> QED BY <2>2, <2>5
<1>3. CASE reader[c] = "copied"
  <2>1. /\ followers' = followers \cup {c}
        /\ followsFrom' = [followsFrom EXCEPT ![c] = lastEntry]
        /\ reader' = [reader EXCEPT ![c] = "streaming"]
        /\ UNCHANGED <<page, written, copiedAt, lastEntry, unwritten, entries, overflow>>
    BY <1>3 DEF OpenLogStream
  <2>2. LogTypeOK'
    BY <2>1 DEF LogTypeOK
  <2>3. LogIsFollowed'
    BY <2>1 DEF Shown, LogIsFollowed, LogTypeOK
  <2>4. Shown'
    BY <2>1, <2>3 DEF Shown, LogTypeOK
  <2> QED BY <2>2, <2>4
<1> QED BY <1>2, <1>3 DEF OpenLogStream

LEMMA LogNextInv ==
    ASSUME LogConstants, LogTypeOK, Shown, [LogNext]_logVars
    PROVE  LogTypeOK' /\ Shown'
<1>1. ASSUME NEW lines \in 1..2, WriteMessage(lines) PROVE LogTypeOK' /\ Shown'
  BY <1>1 DEF WriteMessage, LogTypeOK, Shown, LogIsFollowed, readerVars
<1>2. CASE Clear
  <2>1. entries' = <<>> /\ UNCHANGED <<lastEntry, unwritten, readerVars>>
    BY <1>2 DEF Clear
  <2>2. Growing(entries', lastEntry')
    BY <2>1 DEF Growing
  <2> QED BY <2>1, <2>2 DEF LogTypeOK, Shown, LogIsFollowed, readerVars
<1>3. ASSUME NEW c \in Readers, StreamLogs(c), UNCHANGED <<lastEntry, unwritten, entries, overflow>>
      PROVE  LogTypeOK' /\ Shown'
  <2>1. followers' \subseteq followers /\ UNCHANGED <<page, copiedAt, followsFrom>>
    BY <1>3 DEF StreamLogs
  <2>2. LogTypeOK'
    <3>1. written' \in [Readers -> Nat]
      <4>1. written' = written \/ written' = [written EXCEPT ![c] = @ + 1]
        BY <1>3 DEF StreamLogs
      <4>2. written \in [Readers -> Nat] /\ written[c] + 1 \in Nat
        BY DEF LogTypeOK
      <4> QED BY ONLY <4>1, <4>2
    <3>2. reader' \in [Readers -> {"idle", "copied", "streaming", "done"}]
      <4>1. reader' = reader \/ reader' = [reader EXCEPT ![c] = "done"]
        BY <1>3 DEF StreamLogs
      <4> QED BY <4>1 DEF LogTypeOK
    <3> QED BY <1>3, <2>1, <3>1, <3>2 DEF LogTypeOK
  <2>3. LogIsFollowed'
    BY <1>3, <2>1 DEF Shown, LogIsFollowed
  <2>4. \A x \in Readers : reader'[x] \in {"idle", "copied"} => x \notin followers'
    BY <1>3, <2>1 DEF StreamLogs, Shown, LogTypeOK
  <2> QED BY <1>3, <2>1, <2>2, <2>3, <2>4 DEF Shown
<1>4. CASE UNCHANGED logVars
  BY <1>4 DEF logVars, LogTypeOK, Shown, LogIsFollowed
<1> QED
  BY <1>1, <1>2, <1>3, <1>4, AddInv, OpenInv DEF LogNext

(* A browser is shown the log in order, nothing twice, across the seam between
   what the handler copied and what it then follows, and while it follows it
   misses only what the full channel made the buffer drop: for any capacity. *)
THEOREM LogStreamIsFaithful == ASSUME LogConstants PROVE LogSpec => []LogIsFaithful
<1>1. LogInit => LogTypeOK /\ Shown
  BY DEF LogInit, LogTypeOK, Shown, Growing, LogIsFollowed
<1>2. LogTypeOK /\ Shown /\ [LogNext]_logVars => LogTypeOK' /\ Shown'
  BY LogNextInv
<1>3. Shown => LogIsFaithful
  BY DEF Shown, Growing, LogIsFaithful, LogIsInOrder
<1> QED BY <1>1, <1>2, <1>3, PTL DEF LogSpec

-----------------------------------------------------------------------------
(* The stress of the host.                                                 *)

LEMMA StressInitInv == ASSUME StressConstants, StressInit PROVE StressTypeOK
BY DEF StressConstants, StressInit, StressTypeOK, StressIsHeld, Stresses, StressStatus, NoStress

LEMMA ApplyInv ==
    ASSUME StressConstants, StressTypeOK, NEW f \in StressFaults, NEW hasDirectory \in BOOLEAN,
           ApplyStress(f, hasDirectory)
    PROVE  StressTypeOK'
<1> DEFINE n == started + 1
           fails == "disk" \in StressKinds[f] /\ ~hasDirectory
           begun == IF fails THEN StressKinds[f] \ {"disk"} ELSE StressKinds[f]
<1>1. /\ n \in Stresses /\ started' = n /\ current' = n
      /\ n \in 1..started' /\ 1..started \subseteq 1..started' /\ started' \in 0..MaxStresses
  BY DEF ApplyStress, StressConstants, StressTypeOK, Stresses
<1>2. stressFault' \in [Stresses -> StressFaults \cup {NoStressFault}]
  BY <1>1 DEF ApplyStress, StressTypeOK
<1>3. /\ ended' = ended \cup Superseded \cup (IF fails THEN {n} ELSE {})
      /\ Superseded = {current} \ {0}
  BY DEF ApplyStress, Superseded, NoStress
<1>4. ended' \subseteq 1..started'
  BY <1>1, <1>3 DEF StressTypeOK
<1>5. begun \subseteq {"cpu", "memory", "disk"} /\ workers' = workers \cup ({n} \X begun)
  BY DEF ApplyStress, StressConstants
<1>6. workers' \subseteq (1..started') \X {"cpu", "memory", "disk"}
  BY <1>1, <1>5 DEF StressTypeOK
<1>7. /\ watchers' \subseteq 1..started'
      /\ stress' \in [state : {"idle", "injected", "reverted"},
                      fault : StressFaults \cup {NoStressFault}]
  <2>1. /\ watchers' = watchers \/ watchers' = watchers \cup {n}
        /\ stress' = stress \/ stress' = StressStatus("injected", f)
    BY DEF ApplyStress
  <2>2. StressStatus("injected", f) \in [state : {"idle", "injected", "reverted"},
                                        fault : StressFaults \cup {NoStressFault}]
    BY DEF StressStatus
  <2> QED BY <1>1, <2>1, <2>2 DEF StressTypeOK
<1>8. tempDir' \in 0..started' /\ directories' \subseteq 1..started'
  <2>1. \/ tempDir' = tempDir /\ directories' = directories
        \/ tempDir' = n /\ directories' = directories \cup {n}
    BY DEF ApplyStress
  <2>2. n \in 0..started' /\ 0..started \subseteq 0..started'
    BY <1>1 DEF StressTypeOK
  <2> QED BY <1>1, <2>1, <2>2 DEF StressTypeOK
<1>9. StressIsHeld'
  <2> SUFFICES ASSUME NEW m \in 1..started', m \notin ended' PROVE m = n
    BY <1>1 DEF StressIsHeld
  <2>1. m = n \/ m \in 1..started
    BY <1>1 DEF StressTypeOK
  <2>2. ASSUME m \in 1..started PROVE m \in ended'
    <3>1. m \in ended \/ m = current
      BY <2>2 DEF StressTypeOK, StressIsHeld
    <3>2. m # 0
      BY <2>2 DEF StressTypeOK
    <3> QED BY <1>3, <3>1, <3>2
  <2> QED BY <2>1, <2>2
<1>10. current' \in 0..started'
  BY <1>1
<1> QED BY <1>1, <1>2, <1>4, <1>6, <1>7, <1>8, <1>9, <1>10 DEF StressTypeOK

LEMMA StressNextInv ==
    ASSUME StressConstants, StressTypeOK, [StressNext]_stressVars
    PROVE  StressTypeOK'
<1>1. CASE RevertStress
  <2>1. /\ ended' = ended \cup ({current} \ {0}) /\ current' = 0 /\ tempDir' = 0
        /\ directories' \subseteq directories
        /\ UNCHANGED <<started, stressFault, workers, watchers>>
        /\ stress' = StressStatus("reverted", NoStressFault)
    BY <1>1 DEF RevertStress, Superseded, NoStress
  <2>2. ended' = 1..started
    <3>1. current \in 0..started /\ ended \subseteq 1..started
      BY DEF StressTypeOK
    <3>2. \A n \in 1..started : n \in ended \/ n = current
      BY DEF StressTypeOK, StressIsHeld
    <3>3. \A n \in 0..started : n # 0 => n \in 1..started
      BY DEF StressTypeOK
    <3>4. \A n \in 1..started : n # 0
      BY DEF StressTypeOK
    <3> QED BY <2>1, <3>1, <3>2, <3>3, <3>4
  <2> QED BY <2>1, <2>2 DEF StressTypeOK, StressIsHeld, StressStatus
<1>2. ASSUME NEW n \in Stresses, StressExpires(n) \/ Watch(n) PROVE StressTypeOK'
  <2>1. CASE StressExpires(n)
    BY <2>1 DEF StressExpires, StressTypeOK, StressIsHeld
  <2>2. CASE Watch(n)
    <3>1. /\ watchers' \subseteq watchers
          /\ stress' = stress \/ stress' = StressStatus("reverted", NoStressFault)
          /\ UNCHANGED <<started, ended, stressFault, current, workers, tempDir, directories>>
      BY <2>2 DEF Watch
    <3> QED BY <3>1 DEF StressTypeOK, StressIsHeld, StressStatus
  <2> QED BY <1>2, <2>1, <2>2
<1>3. ASSUME NEW n \in Stresses, NEW kind \in {"cpu", "memory", "disk"}, WorkerReturns(n, kind)
      PROVE  StressTypeOK'
  BY <1>3 DEF WorkerReturns, StressTypeOK, StressIsHeld
<1>4. CASE UNCHANGED stressVars
  BY <1>4 DEF stressVars, StressTypeOK, StressIsHeld
<1> QED BY <1>1, <1>2, <1>3, <1>4, ApplyInv DEF StressNext

(* Whatever still burdens the host and was not told to stop, the driver holds
   the cancel function of, so that Revert ends it: for any faults, applied in
   any order over one another, also when Apply fails half way. *)
THEOREM StressCanBeEnded == ASSUME StressConstants PROVE StressSpec => []StressTypeOK
BY StressInitInv, StressNextInv, PTL DEF StressSpec

-----------------------------------------------------------------------------
(* The killing of pods.                                                    *)

LEMMA MaxOfTwo == \A a, b \in Int : Max({a, b}) = IF a >= b THEN a ELSE b
BY DEF Max

LEMMA MinOfTwo == \A a, b \in Int : Min({a, b}) = IF a <= b THEN a ELSE b
BY DEF Min

LEMMA AskedType == \A percent \in Int : Asked(percent) \in Nat /\ Asked(percent) > 0
BY DEF Asked

(* What a listing of n pods may lose: no more than the share rounded up. *)
LEMMA KillCountBound ==
    ASSUME NEW n \in Nat \ {0}, NEW percent \in Int
    PROVE  /\ KillCount(n, percent) \in Int
           /\ 100 * (KillCount(n, percent) - 1) < n * Asked(percent)
<1> DEFINE product == n * Asked(percent)
           share == product \div 100
<1>1. product \in Nat /\ product > 0
  <2>1. Asked(percent) \in Nat /\ Asked(percent) > 0
    BY AskedType
  <2> HIDE DEF product
  <2>2. \A k, m \in Nat : k > 0 /\ m > 0 => k * m \in Nat /\ k * m > 0
    OBVIOUS
  <2> QED BY <2>1, <2>2 DEF product
<1> HIDE DEF product
<1>2. share \in Nat /\ 100 * share <= product
  BY <1>1
<1>3. KillCount(n, percent) = Min({n, Max({1, share})})
  BY DEF KillCount, product
<1> HIDE DEF share
<1>4. KillCount(n, percent) \in Int /\ (KillCount(n, percent) <= 1 \/ KillCount(n, percent) <= share)
  BY <1>2, <1>3, MaxOfTwo, MinOfTwo
<1>5. 100 * (KillCount(n, percent) - 1) < product
  BY <1>1, <1>2, <1>4
<1> QED BY <1>4, <1>5 DEF product

(* The victims that are left and those that are gone were listed together,
   no more of them than the request asked for. *)
KillWithin ==
    LET all == podKill.victims \cup deleted IN
    /\ pods \subseteq Pods
    /\ podKill \in [state : {"idle", "refused", "killing", "injected", "failed", "reverted"},
                    percent : Int, listed : SUBSET Pods, victims : SUBSET Pods]
    /\ killed \subseteq deleted /\ all \subseteq podKill.listed
    /\ all # {} => 100 * (Cardinality(all) - 1) < Cardinality(podKill.listed) * Asked(podKill.percent)
    /\ podKill.state = "idle" => all = {}
    /\ podKill.state = "injected" => killed # {}
    /\ podKill.state = "failed" => killed = {}

(* The polls are numbered; the report knows the first one, and whether one
   saw more. *)
PollsRead ==
    /\ report \in [start : Nat, peak : Nat, scaledUp : BOOLEAN,
                   verdict : {"none", "error", "scaled", "never"}]
    /\ IsFiniteSet(samples)
    /\ samples \subseteq (1..Cardinality(samples)) \X Nat
    /\ \A s, t \in samples : s[1] = t[1] => s = t
    /\ samples # {} => <<1, report.start>> \in samples
    /\ report.scaledUp <=> \E s \in samples : s[2] > report.start

LEMMA PodInitInv == ASSUME PodConstants, PodInit PROVE KillWithin /\ PollsRead
<1>1. KillWithin
  <2>1. podKill.victims \cup deleted = {} /\ Cardinality({}) = 0
    BY FS_EmptySet DEF PodInit
  <2> QED BY <2>1 DEF PodInit, KillWithin
<1>2. PollsRead
  BY FS_EmptySet DEF PodInit, PollsRead
<1> QED BY <1>1, <1>2

LEMMA ListPodsInv ==
    ASSUME PodConstants, KillWithin, NEW percent \in KillPercents, NEW allowed \in BOOLEAN,
           ListPods(percent, allowed)
    PROVE  KillWithin'
<1>1. /\ podKill.state = "idle" /\ podKill.victims = {} /\ killed = {} /\ deleted = {}
      /\ killed' = {} /\ deleted' = {}
      /\ UNCHANGED pods /\ pods \subseteq Pods
  BY DEF ListPods, KillWithin
<1>2. CASE podKill' = [podKill EXCEPT !.state = "refused"]
  <2>1. /\ podKill'.victims = {} /\ podKill'.state = "refused"
        /\ podKill' \in [state : {"idle", "refused", "killing", "injected", "failed", "reverted"},
                        percent : Int, listed : SUBSET Pods, victims : SUBSET Pods]
    BY <1>1, <1>2 DEF KillWithin
  <2>2. Cardinality({}) = 0
    BY FS_EmptySet
  <2> QED BY <1>1, <2>1, <2>2 DEF KillWithin
<1>3. CASE podKill' # [podKill EXCEPT !.state = "refused"]
  <2>1. PICK victims \in kSubset(KillCount(Cardinality(pods), percent), pods) :
           podKill' = [state |-> "killing", percent |-> percent, listed |-> pods, victims |-> victims]
    BY <1>3 DEF ListPods
  <2>2. victims \subseteq pods /\ Cardinality(victims) = KillCount(Cardinality(pods), percent)
    BY <2>1 DEF kSubset
  <2>3. Cardinality(pods) \in Nat \ {0}
    <3>1. pods # {} /\ IsFiniteSet(pods)
      BY <1>1, <1>3, FS_Subset DEF PodConstants, ListPods
    <3> QED BY <3>1, FS_EmptySet, FS_CardinalityType
  <2>4. victims # {} => 100 * (Cardinality(victims) - 1) < Cardinality(pods) * Asked(percent)
    BY <2>2, <2>3, KillCountBound DEF PodConstants
  <2>5. victims \cup deleted' = victims
    BY <1>1
  <2>6. percent \in Int
    BY DEF PodConstants
  <2> QED BY <1>1, <2>1, <2>2, <2>4, <2>5, <2>6 DEF KillWithin
<1> QED BY <1>2, <1>3

LEMMA DeletePodInv ==
    ASSUME PodConstants, KillWithin, NEW p \in Pods, NEW answer \in Outcome, DeletePod(p, answer)
    PROVE  KillWithin'
<1> DEFINE all == podKill.victims \cup deleted
           left == podKill.victims \ {p}
<1>1. /\ podKill.state = "killing" /\ p \in podKill.victims
      /\ podKill' = [podKill EXCEPT !.victims = left]
      /\ deleted' \subseteq deleted \cup {p} /\ killed' \subseteq deleted'
      /\ pods' \subseteq pods
  BY DEF DeletePod, KillWithin, Outcome
<1>2. /\ podKill' \in [state : {"idle", "refused", "killing", "injected", "failed", "reverted"},
                       percent : Int, listed : SUBSET Pods, victims : SUBSET Pods]
      /\ podKill'.listed = podKill.listed /\ podKill'.percent = podKill.percent
      /\ podKill'.state = "killing" /\ podKill'.victims = left
  BY <1>1 DEF KillWithin
<1>3. left \cup deleted' \subseteq all
  BY <1>1
<1>4. all \subseteq podKill.listed /\ podKill.listed \subseteq Pods
  BY DEF KillWithin
<1>5. IsFiniteSet(all)
  BY <1>4, FS_Subset DEF PodConstants
<1>6. /\ Cardinality(left \cup deleted') \in Nat /\ Cardinality(all) \in Nat
      /\ Cardinality(left \cup deleted') <= Cardinality(all)
  BY <1>3, <1>5, FS_Subset, FS_CardinalityType
<1>7. all # {} => 100 * (Cardinality(all) - 1) < Cardinality(podKill.listed) * Asked(podKill.percent)
  BY DEF KillWithin
<1>8. Cardinality(podKill.listed) * Asked(podKill.percent) \in Int
  <2>1. Cardinality(podKill.listed) \in Nat
    BY <1>4, FS_Subset, FS_CardinalityType DEF PodConstants
  <2>2. Asked(podKill.percent) \in Int
    <3>1. podKill.percent \in Int
      BY DEF KillWithin
    <3> QED BY <3>1, AskedType
  <2> QED BY <2>1, <2>2
<1>9. left \cup deleted' # {} =>
         100 * (Cardinality(left \cup deleted') - 1) < Cardinality(podKill.listed) * Asked(podKill.percent)
  BY ONLY <1>3, <1>6, <1>7, <1>8
<1>10. pods' \subseteq Pods /\ left \cup deleted' \subseteq podKill.listed
  BY <1>1, <1>3, <1>4 DEF KillWithin
<1> QED BY <1>1, <1>2, <1>9, <1>10 DEF KillWithin

LEMMA PollInv ==
    ASSUME PodConstants, PollsRead, NEW replicas \in 1..MaxReplicas, Poll(replicas)
    PROVE  PollsRead'
<1> DEFINE n == Cardinality(samples)
           s0 == <<n + 1, replicas>>
           first == Start(replicas)
<1>1. /\ samples' = samples \cup {s0}
      /\ report' = [report EXCEPT !.start = first, !.peak = Max({@, replicas}),
                                  !.scaledUp = @ \/ replicas > first]
  BY DEF Poll
<1>2. n \in Nat /\ replicas \in Nat /\ IsFiniteSet(samples) /\ samples \subseteq (1..n) \X Nat
  BY FS_CardinalityType DEF PollsRead, PodConstants
<1>3. s0 \notin samples
  BY <1>2
<1>4. IsFiniteSet(samples') /\ Cardinality(samples') = n + 1
  BY <1>1, <1>2, <1>3, FS_AddElement
<1> HIDE DEF n
<1>5. samples' \subseteq (1..(n + 1)) \X Nat
  BY <1>1, <1>2
<1>6. \A s, t \in samples' : s[1] = t[1] => s = t
  <2>1. \A s \in samples : s[1] # s0[1]
    BY <1>2
  <2> QED BY <1>1, <2>1 DEF PollsRead
<1>7. first \in Nat /\ (samples # {} => first = report.start) /\ (samples = {} => first = replicas)
  BY <1>2 DEF Start, PollsRead
<1> HIDE DEF first
<1>8. /\ report' \in [start : Nat, peak : Nat, scaledUp : BOOLEAN,
                     verdict : {"none", "error", "scaled", "never"}]
      /\ report'.start = first
      /\ report'.scaledUp <=> report.scaledUp \/ replicas > first
  <2>1. report.peak \in Nat /\ report.scaledUp \in BOOLEAN
    BY DEF PollsRead
  <2>2. Max({report.peak, replicas}) \in Nat
    BY <1>2, <2>1, MaxOfTwo
  <2>3. (report.scaledUp \/ replicas > first) \in BOOLEAN
    OBVIOUS
  <2> QED BY <1>1, <1>7, <2>2, <2>3 DEF PollsRead
<1>9. <<1, report'.start>> \in samples'
  <2>1. CASE samples = {}
    <3>1. n = 0
      BY <2>1, FS_EmptySet DEF n
    <3> QED BY <1>1, <1>7, <1>8, <2>1, <3>1
  <2>2. CASE samples # {}
    BY <1>1, <1>7, <1>8, <2>2 DEF PollsRead
  <2> QED BY <2>1, <2>2
<1>10. report'.scaledUp <=> \E s \in samples' : s[2] > report'.start
  <2>1. report.scaledUp <=> \E s \in samples : s[2] > first
    BY <1>7 DEF PollsRead
  <2>2. s0[2] = replicas /\ s0 \in samples'
    BY <1>1
  <2>3. (\E s \in samples' : s[2] > first) <=> (\E s \in samples : s[2] > first) \/ replicas > first
    BY <1>1, <2>2
  <2> HIDE DEF s0
  <2> QED BY <1>8, <2>1, <2>3, Zenon
<1> QED BY <1>4, <1>5, <1>6, <1>8, <1>9, <1>10 DEF PollsRead

LEMMA PodNextInv ==
    ASSUME PodConstants, KillWithin, PollsRead, [PodNext]_podVars
    PROVE  KillWithin' /\ PollsRead'
<1>1. ASSUME NEW percent \in KillPercents, NEW allowed \in BOOLEAN, ListPods(percent, allowed)
      PROVE  KillWithin' /\ PollsRead'
  BY <1>1, ListPodsInv DEF ListPods, PollsRead
<1>2. ASSUME NEW p \in Pods, NEW answer \in Outcome, DeletePod(p, answer)
      PROVE  KillWithin' /\ PollsRead'
  BY <1>2, DeletePodInv DEF DeletePod, PollsRead
<1>3. ASSUME NEW p \in Pods, Cluster(p) PROVE KillWithin' /\ PollsRead'
  <2>1. pods' \subseteq Pods /\ UNCHANGED <<podKill, killed, deleted, report, samples>>
    BY <1>3 DEF Cluster, KillWithin
  <2> QED BY <2>1 DEF KillWithin, PollsRead
<1>4. ASSUME ReportKill \/ RevertKill PROVE KillWithin' /\ PollsRead'
  <2>1. PICK s \in {"injected", "failed", "reverted"} :
          /\ podKill' = [podKill EXCEPT !.state = s]
          /\ s = "injected" => killed # {}
          /\ s = "failed" => killed = {}
    BY <1>4 DEF ReportKill, RevertKill
  <2>2. UNCHANGED <<pods, killed, deleted, report, samples>>
    BY <1>4 DEF ReportKill, RevertKill
  <2>3. /\ podKill' \in [state : {"idle", "refused", "killing", "injected", "failed", "reverted"},
                         percent : Int, listed : SUBSET Pods, victims : SUBSET Pods]
        /\ podKill'.state = s /\ podKill'.listed = podKill.listed
        /\ podKill'.percent = podKill.percent /\ podKill'.victims = podKill.victims
    BY <2>1 DEF KillWithin
  <2> QED BY <2>1, <2>2, <2>3 DEF KillWithin, PollsRead
<1>5. ASSUME NEW replicas \in 1..MaxReplicas, Poll(replicas) PROVE KillWithin' /\ PollsRead'
  BY <1>5, PollInv DEF Poll, KillWithin
<1>6. CASE EndMonitor
  <2>1. PICK v \in {"error", "scaled", "never"} : report' = [report EXCEPT !.verdict = v]
    BY <1>6 DEF EndMonitor
  <2>2. UNCHANGED <<pods, podKill, killed, deleted, samples>>
    BY <1>6 DEF EndMonitor
  <2>3. /\ report' \in [start : Nat, peak : Nat, scaledUp : BOOLEAN,
                        verdict : {"none", "error", "scaled", "never"}]
        /\ report'.start = report.start /\ report'.scaledUp = report.scaledUp
    BY <2>1 DEF PollsRead
  <2> QED BY <2>2, <2>3 DEF KillWithin, PollsRead
<1>7. CASE UNCHANGED podVars
  BY <1>7 DEF podVars, KillWithin, PollsRead
<1> QED BY <1>1, <1>2, <1>3, <1>4, <1>5, <1>6, <1>7 DEF PodNext

LEMMA PodReports ==
    ASSUME PodConstants, KillWithin, PollsRead
    PROVE  KubernetesIsReported /\ PodTypeOK
<1>1. KillIsBounded
  <2> DEFINE all == podKill.victims \cup deleted
             allowance == Cardinality(podKill.listed) * Asked(podKill.percent)
  <2>1. /\ all \subseteq podKill.listed /\ podKill.listed \subseteq Pods
        /\ all # {} => 100 * (Cardinality(all) - 1) < allowance
    BY DEF KillWithin
  <2>2. IsFiniteSet(all) /\ deleted \subseteq all
    BY <2>1, FS_Subset DEF PodConstants
  <2>3. /\ Cardinality(deleted) \in Nat /\ Cardinality(all) \in Nat
        /\ Cardinality(deleted) <= Cardinality(all)
    BY <2>2, FS_Subset, FS_CardinalityType
  <2>4. allowance \in Int
    <3>1. Cardinality(podKill.listed) \in Nat
      BY <2>1, FS_Subset, FS_CardinalityType DEF PodConstants
    <3>2. Asked(podKill.percent) \in Int
      <4>1. podKill.percent \in Int
        BY DEF KillWithin
      <4> QED BY <4>1, AskedType
    <3> QED BY <3>1, <3>2
  <2>5. deleted # {} => 100 * (Cardinality(deleted) - 1) < allowance
    BY ONLY <2>1, <2>2, <2>3, <2>4
  <2> QED BY <2>1, <2>2, <2>5 DEF KillIsBounded, KillWithin
<1>2. ScalingIsSeen
  <2>1. ASSUME NEW s \in samples, s[2] > report.start
        PROVE  \E t, first \in samples : first[1] = 1 /\ t[2] > first[2]
    <3>1. <<1, report.start>> \in samples
      BY <2>1 DEF PollsRead
    <3> QED BY <2>1, <3>1
  <2>2. ASSUME NEW s \in samples, NEW first \in samples, first[1] = 1, s[2] > first[2]
        PROVE  s[2] > report.start
    <3>1. first = <<1, report.start>>
      BY <2>2 DEF PollsRead
    <3> QED BY <2>2, <3>1
  <2> QED BY <2>1, <2>2 DEF ScalingIsSeen, PollsRead
<1>3. PodTypeOK
  BY DEF KillWithin, PollsRead, PodTypeOK
<1> QED BY <1>1, <1>2, <1>3 DEF KubernetesIsReported

(* A request kills none but the pods it listed and no more of them than asked
   for, and claims none it has not killed, whatever the cluster does meanwhile
   and whichever of its answers are lost; the autoscaler
   is reported to have scaled up exactly if a poll saw more replicas than the
   first one answered: for any pods, percentages and polls. *)
THEOREM KubernetesReportCorrect == ASSUME PodConstants PROVE PodSpec => []KubernetesIsReported
BY PodInitInv, PodNextInv, PodReports, PTL DEF PodSpec

-----------------------------------------------------------------------------
(* The parts together: each keeps its own invariant while it is in focus, and
   has it untouched while another is.                                      *)

PartsInv ==
    /\ BusTypeOK
    /\ LogTypeOK /\ Shown
    /\ StressTypeOK
    /\ ProxyTypeOK /\ Explained
    /\ KillWithin /\ PollsRead

PartsConstants ==
    BusConstants /\ LogConstants /\ StressConstants /\ ProxyConstants /\ PodConstants

LEMMA PartsInit == ASSUME PartsConstants, Init PROVE PartsInv
<1>1. LogTypeOK /\ Shown
  BY DEF Init, LogInit, LogTypeOK, Shown, Growing, LogIsFollowed
<1>2. ProxyTypeOK /\ Explained
  BY DEF Init, ProxyInit, ProxyTypeOK, Explained, Stages, Outcomes
<1> QED
  BY <1>1, <1>2, BusTypeInit, StressInitInv, PodInitInv DEF Init, PartsConstants, PartsInv

LEMMA PartsNext == ASSUME PartsConstants, PartsInv, [Next]_vars PROVE PartsInv'
<1>1. [BusNext]_busVars /\ [LogNext]_logVars /\ [StressNext]_stressVars
      /\ [ProxyNext]_proxyVars /\ [PodNext]_podVars
  BY DEF Next, Bus, Log, Stress, Proxy, Kubernetes, vars
<1>2. BusTypeOK'
  BY <1>1, BusTypeNext DEF PartsInv, PartsConstants
<1>3. LogTypeOK' /\ Shown'
  BY <1>1, LogNextInv DEF PartsInv, PartsConstants
<1>4. StressTypeOK'
  BY <1>1, StressNextInv DEF PartsInv, PartsConstants
<1>5. ProxyTypeOK' /\ Explained'
  BY <1>1, ProxyNextInv DEF PartsInv, PartsConstants
<1>6. KillWithin' /\ PollsRead'
  BY <1>1, PodNextInv DEF PartsInv, PartsConstants
<1> QED BY <1>2, <1>3, <1>4, <1>5, <1>6 DEF PartsInv

(* Whichever of the parts goes on, every variable of every one of them keeps
   its type, and the stress that goes on is the one its driver holds. *)
THEOREM BackgroundTypeCorrect == ASSUME PartsConstants PROVE Spec => []TypeOK
<1>1. PartsInv => TypeOK
  BY PodReports DEF PartsInv, PartsConstants, TypeOK
<1> QED BY <1>1, PartsInit, PartsNext, PTL DEF Spec
=============================================================================
