--------------------------- MODULE ScenarioImport ---------------------------
(***************************************************************************)
(* Scenarios made from what a team already has (pkg/generator): recordings *)
(* of a browser, collections of Postman and Insomnia, plans of JMeter,     *)
(* scripts of k6, a trace of production, pages found on a site, an OpenAPI *)
(* document with mined traces, and the fuzz variant of a scenario.         *)
(*                                                                         *)
(* A request is known by its place in the source and by what its path says *)
(* to the enricher: "login" and "token" are steps that authenticate,       *)
(* "cart" carries an Authorization header of its own.  A host "" stands    *)
(* for a URL that is not absolute; the importers keep the path of the      *)
(* others, and send it to the base of the scenario.  The base of a replay, *)
(* a crawl, a document or a text is the caller's and left out.  What is    *)
(* recorded of the source beside the scenario, in told, is there for the   *)
(* properties only.                                                        *)
(***************************************************************************)
EXTENDS Journey, SequencesExt

CONSTANTS
    Recordings,    \* sequences of [host, page]
    Collections,   \* trees: sequences of [host, page] and of folders [folder |-> tree]
    Exports,       \* sequences of [type, host, page, key]
    Bases,         \* hosts a caller may ask for; "" is none
    Traces,        \* sequences of [trace, start, end, route]; the route <<>> is none
    Sites,         \* [home, robots, sitemaps, links]: what the crawler may find
    Specs,         \* sequences of [id, route, page, needs, gives], with distinct routes
    Authored,      \* scenarios somebody, or a language model, has written
    MaxPages,      \* maxAutoDiscoverEndpoints
    MaxFolders,    \* bound on how deep folders lie in each other
    VariableNames  \* the variables a step may leave for later ones

VARIABLE told   \* [walks, pairs, hosts, limits]: what the source says of order, place and time

importVars == <<journeyVars, told>>

Silent == [walks |-> {}, pairs |-> {}, hosts |-> {}, limits |-> {}]
ImportInit == JourneyInit /\ told = Silent

Good == Answers \cap 200..399

Request(place, page) ==
    [request |-> place, page |-> page, needs |-> {}, gives |-> <<>>, accepts |-> Good, pause |-> 0,
     next |-> <<>>, onFailure |-> "abort", fallback |-> END]

(* Mutant: the last but one request leads to the end *)
Chained_Short(base, ids, steps) ==
    [base |-> base, initial |-> ids[1],
     steps |-> [id \in ToSet(ids) |->
                   LET i == CHOOSE n \in DOMAIN ids : ids[n] = id
                   IN [steps[id] EXCEPT !.next = <<To(IF i + 1 < Len(ids) THEN ids[i + 1] ELSE END)>>]]]

(* One step after the other in the given order, and then the end. *)
Chained(base, ids, steps) ==
    [base |-> base, initial |-> ids[1],
     steps |-> [id \in ToSet(ids) |->
                   LET i == CHOOSE n \in DOMAIN ids : ids[n] = id
                   IN [steps[id] EXCEPT !.next = <<To(IF i < Len(ids) THEN ids[i + 1] ELSE END)>>]]]

Authenticates(step) == step.page \in {"login", "token"}

GivesToken(step) == "jwt_token" \in Vars(step.gives, Len(step.gives))

(* HeuristicEnricher: a step that authenticates gives a token, and once there
   is one every step but a login, the earlier ones too, asks for it. *)
Enrich(sc) ==
    LET auth == {id \in DOMAIN sc.steps : Authenticates(sc.steps[id])}
        asks(step) == auth # {} /\ step.page \notin {"login", "cart"}
    IN [sc EXCEPT !.steps =
          [id \in DOMAIN sc.steps |-> [sc.steps[id] EXCEPT
              !.gives = IF id \in auth /\ ~GivesToken(sc.steps[id]) THEN Append(@, Given("jwt_token")) ELSE @,
              !.needs = IF asks(sc.steps[id]) THEN @ \cup {"jwt_token"} ELSE @]]]

(* What an importer hands back: an error, or a valid scenario. *)
Hand(sc, truth) ==
    /\ ValidateScenario(sc)
    /\ scenario' = sc /\ told' = truth
    /\ UNCHANGED user

Walks(set, hosts) == [walks |-> set, pairs |-> {}, hosts |-> hosts, limits |-> {0}]

(* Numbers in their order. *)
Places(S) ==
    CHOOSE at \in [1..Cardinality(S) -> S] : \A i, j \in DOMAIN at : i < j => at[i] < at[j]

(* Of a sequence what is in the set. *)
Kept(order, S) ==
    LET at == Places({n \in DOMAIN order : order[n] \in S}) IN [k \in DOMAIN at |-> order[at[k]]]

StepId(place) == <<"step", place>>

(* The base of the caller, or the host of the first request that is kept. *)
BaseOf(list, kept, base) == IF base # "" THEN base ELSE list[kept[1]].host

(* The common end of the importers: a step of each request, chained, enriched
   and validated.  Steps are named after their place, in Insomnia's export
   after their place among the sorted ones; the names tell nothing else. *)
ImportSteps(list, kept, base, truth) ==
    /\ kept # <<>>
    /\ LET ids == [n \in DOMAIN kept |-> StepId(kept[n])]
           steps == [id \in ToSet(ids) |-> Request(id[2], list[id[2]].page)]
       IN Hand(Enrich(Chained(BaseOf(list, kept, base), ids, steps)), truth)

(* ImportHAR goes through the entries: the first absolute URL sets the base
   unless the caller has, and requests to other origins are left out. *)
SameOrigin(entries, base) ==
    LET known[i \in 0..Len(entries)] ==
            IF i = 0 THEN base ELSE IF known[i - 1] = "" THEN entries[i].host ELSE known[i - 1]
    IN {i \in DOMAIN entries : entries[i].host # "" /\ entries[i].host = known[i]}

Absolute(list) == {i \in DOMAIN list : list[i].host # ""}

Origin(list, base) ==
    IF base # "" \/ Absolute(list) = {} THEN base ELSE list[Min(Absolute(list))].host

ImportHAR(entries, base) ==
    ImportSteps(entries, Places(SameOrigin(entries, base)), base,
                Walks({Places({i \in Absolute(entries) : entries[i].host = Origin(entries, base)})},
                      {Origin(entries, base)}))

(* Folders are flattened depth first: what is in a folder takes its place. *)
Opened(items) ==
    FlattenSeq([i \in DOMAIN items |->
        IF "folder" \in DOMAIN items[i] THEN items[i].folder ELSE <<items[i]>>])

flattenPostmanItems(items) ==
    LET level[n \in 0..MaxFolders] == IF n = 0 THEN items ELSE Opened(level[n - 1])
    IN level[MaxFolders]

Extractors == [var : VariableNames, default : BOOLEAN]

Fields == {"request", "page", "needs", "gives", "accepts", "pause", "next", "onFailure", "fallback"}
IsStep(step) == DOMAIN step = Fields /\ step.pause \in Nat /\ step.gives \in Seq(Extractors)

Listed(S) == \A list \in S : list \in Seq(ToSet(list))

(* Documents are read into lists, no folder lies deeper than the bound, an
   operation has a name and, by its method and path, a place of its own, and
   what is written by hand has the fields of a step.  Names may collide, and
   spans may end before they start. *)
ASSUME ImportConstants ==
    /\ Listed(Recordings) /\ Listed(Exports) /\ Listed(Traces) /\ Listed(Specs)
    /\ Listed({flattenPostmanItems(tree) : tree \in Collections})
    /\ \A spans \in Traces : \A i \in DOMAIN spans :
          spans[i].start \in Nat /\ spans[i].end \in Nat
    /\ \A spec \in Specs : \A i \in DOMAIN spec :
          /\ spec[i].id # <<>> /\ spec[i].route # END /\ spec[i].gives \in Seq(Extractors)
          /\ \A j \in DOMAIN spec : spec[i].route = spec[j].route => i = j
    /\ \A sc \in Authored : IsFiniteSet(DOMAIN sc.steps) /\ \A id \in DOMAIN sc.steps : IsStep(sc.steps[id])
    /\ "jwt_token" \in VariableNames /\ MaxPages \in Nat /\ MaxFolders \in Nat

(* The requests of a collection, the calls of a script and the samplers of a
   plan come in the order of the document; one whose URL is not absolute, or
   holds a variable, is skipped.  Those of other hosts than the first come
   along, and go to the first host as well. *)
ImportListed(list, base) ==
    ImportSteps(list, Places(Absolute(list)), base, Walks({Places(Absolute(list))}, {Origin(list, base)}))

ImportPostmanCollection(tree, base) == ImportListed(flattenPostmanItems(tree), base)
ImportK6Script(calls, base) == ImportListed(calls, base)
ImportJMeterPlan(samplers, base) == ImportListed(samplers, base)

(* sort.Slice is not stable: any order that respects the keys. *)
Sorted(S, list, key) ==
    {order \in [1..Cardinality(S) -> S] :
        /\ IsInjective(order)
        /\ \A i, j \in DOMAIN order : i < j => list[order[i]][key] <= list[order[j]][key]}

(* Requests sorted by metaSortKey; what is not a request does not count, and a
   URL without a host is skipped afterwards. *)
ImportInsomniaCollection(resources, base) ==
    LET requests == {i \in DOMAIN resources : resources[i].type = "request"}
        orders == Sorted(requests, resources, "key")
        walks == {Kept(o, Absolute(resources)) : o \in orders}
    IN \E order \in orders :
          ImportSteps(resources, Kept(order, Absolute(resources)), base,
                      Walks(walks, {BaseOf(resources, w, base) : w \in walks \ {<<>>}}))

Routed(spans) == {i \in DOMAIN spans : spans[i].route # <<>>}

(* The recorded gap, at the speed of the recording. *)
thinkTime(span, previous) == IF span.start > previous.end THEN span.start - previous.end ELSE 0

(* BuildReplayScenario: the spans of one trace by their start, those without a
   route left out, each after the pause its recording had.  Of a recording
   whose spans end before they start nothing is said of the time. *)
BuildReplayScenario(traceID, spans) ==
    LET Steps(order) == Kept(order, Routed(spans))
        trace == {i \in DOMAIN spans : spans[i].trace = traceID}
        orders == Sorted(trace, spans, "start")
        sound == \A i \in trace : spans[i].start <= spans[i].end
        Pause(order, place) ==
            LET i == CHOOSE n \in DOMAIN order : order[n] = place
            IN IF i = 1 THEN 0 ELSE thinkTime(spans[place], spans[order[i - 1]])
    IN \E order \in orders :
          LET ids == [n \in DOMAIN Steps(order) |-> StepId(Steps(order)[n])] IN
          /\ ids # <<>>
          /\ Hand(Chained("", ids, [id \in ToSet(ids) |->
                 [Request(id[2], "") EXCEPT !.accepts = Answers, !.pause = Pause(order, id[2])]]),
                 [Silent EXCEPT !.walks = {Steps(o) : o \in orders},
                                !.limits = IF sound THEN {spans[Last(order)].start - spans[order[1]].start} ELSE {}])

(* Paths in the order they are found, each once, until there are enough. *)
Gather(found, more) ==
    FoldLeft(LAMBDA acc, path :
        IF Len(acc) >= MaxPages \/ path \in ToSet(acc) THEN acc ELSE Append(acc, path), found, more)

(* fetch and the first break of AutoDiscover: of every sitemap at least one
   entry is taken, the limit is looked at afterwards. *)
GatherSitemap(found, entries) ==
    LET first == IF entries # <<>> /\ entries[1] \notin ToSet(found) THEN Append(found, entries[1]) ELSE found
    IN IF entries = <<>> THEN found ELSE Gather(first, Tail(entries))

(* robots.txt names the sitemaps, or there is the usual one; the links of the
   home page fill up.  A map is walked in no order, and cut at the limit. *)
AutoDiscover(site) ==
    LET named == IF site.robots = <<>> THEN <<"usual">> ELSE site.robots
        mapped == FoldLeft(LAMBDA acc, map : GatherSitemap(acc, site.sitemaps[map]),
                           IF site.home = "" THEN <<"", "/">> ELSE <<site.home>>, named)
        pages == ToSet(Gather(mapped, site.links))
        walks == {w \in UNION {[1..n -> pages] : n \in 0..MaxPages} :
                     IsInjective(w) /\ (Len(w) = MaxPages \/ ToSet(w) = pages)}
    IN \E walk \in walks :
          LET ids == [n \in DOMAIN walk |-> <<"page", n>>]
          IN Hand(Chained("", ids, [id \in ToSet(ids) |-> Request(walk[id[2]], "")]), Walks(walks, {}))

(* The spans of a trace that have a route. *)
RoutedSpans(spans, t) == {i \in DOMAIN spans : spans[i].trace = t /\ spans[i].route # <<>>}

Transitions(spans, order) ==
    {<<spans[order[i]].route, IF i = Len(order) THEN END ELSE spans[order[i + 1]].route>> : i \in DOMAIN order}

(* MineBehavioralTransitions: what follows what in some trace, by start; of
   counts and probabilities it matters only that they are positive. *)
MineBehavioralTransitions(spans) ==
    LET ids == {spans[i].trace : i \in DOMAIN spans}
        Of(t) == {Transitions(spans, order) : order \in Sorted(RoutedSpans(spans, t), spans, "start")}
    IN {UNION {f[t] : t \in ids} : f \in {g \in [ids -> UNION {Of(t) : t \in ids}] : \A t \in ids : g[t] \in Of(t)}}

(* What a reader of the spans would say: which ones may come right after a
   span, and whether it may be the last of its trace.  Spans that start
   together may come in any order. *)
Rivals(spans, i) == RoutedSpans(spans, spans[i].trace) \ {i}
MayFollow(spans, i) ==
    {j \in Rivals(spans, i) :
        /\ spans[i].start <= spans[j].start
        /\ \A k \in Rivals(spans, i) : ~(spans[i].start < spans[k].start /\ spans[k].start < spans[j].start)}
MayBeLast(spans, i) == \A k \in Rivals(spans, i) : spans[k].start <= spans[i].start

Follows(spans) ==
    (UNION {{<<spans[i].route, spans[j].route>> : j \in MayFollow(spans, i)} : i \in Routed(spans)})
    \cup {<<spans[i].route, END>> : i \in {k \in Routed(spans) : MayBeLast(spans, k)}}

(* Of some request of the route it is open what came after it. *)
Open(spans, route) ==
    \E i \in Routed(spans) :
        /\ spans[i].route = route
        /\ \E j \in MayFollow(spans, i) : MayBeLast(spans, i) \/ \E k \in MayFollow(spans, i) : k # j

Operations(spec) == {spec[i].id : i \in DOMAIN spec}
Routes(spec) == {spec[i].route : i \in DOMAIN spec}

(* Where the traces lead from an endpoint, as far as the document knows it,
   and else to the next endpoint. *)
Known(spec, pairs, route) == {p[2] : p \in {q \in pairs : q[1] = route}} \cap (Routes(spec) \cup {END})
Leads(spec, pairs, i) ==
    IF Known(spec, pairs, spec[i].route) # {} THEN Known(spec, pairs, spec[i].route)
    ELSE {IF i < Len(spec) THEN spec[i + 1].route ELSE END}

(* Steps are named after the operation.  Of several with one name the last
   overwrites the others, in the map of steps. *)
Named(spec, route) == IF route = END THEN END ELSE spec[CHOOSE i \in DOMAIN spec : spec[i].route = route].id
Standing(spec, id) ==
    CHOOSE i \in DOMAIN spec : spec[i].id = id /\ \A j \in DOMAIN spec : spec[j].id = id => j <= i

(* What a reader of the document would say: the last operation of each name
   is the one that is sent, and a user that is led to a route comes to the one
   of that name.  An operation may be named like the end. *)
LastOfName(spec) == {i \in DOMAIN spec : \A j \in DOMAIN spec : spec[j].id = spec[i].id => j <= i}
Lands(spec, route) ==
    IF Named(spec, route) = END THEN {END}
    ELSE {spec[i].route : i \in {k \in LastOfName(spec) : spec[k].id = Named(spec, route)}}

MayGo(spec, spans, i) ==
    Leads(spec, Follows(spans), i) \cup (IF Open(spans, spec[i].route) THEN Leads(spec, {}, i) ELSE {})

MayLead(spec, spans) ==
    UNION {{spec[i].route} \X UNION {Lands(spec, target) : target \in MayGo(spec, spans, i)} : i \in LastOfName(spec)}

(* Synthesize: a step of every endpoint. *)
Synthesize(spec, spans) ==
    LET auth == {i \in DOMAIN spec : spec[i].page \in {"login", "token"}}
        Step(pairs, i) == [Request(spec[i].route, spec[i].page) EXCEPT
                              !.needs = spec[i].needs, !.gives = spec[i].gives, !.accepts = Answers \cap 200..299,
                              !.next = SetToSeq({To(Named(spec, target)) : target \in Leads(spec, pairs, i)})]
    IN \E pairs \in MineBehavioralTransitions(spans) :
          Hand(Enrich([base |-> "", initial |-> spec[IF auth # {} THEN Min(auth) ELSE 1].id,
                       steps |-> [id \in Operations(spec) |-> Step(pairs, Standing(spec, id))]]),
               [Silent EXCEPT !.pairs = MayLead(spec, spans), !.limits = {0}])

(* A scenario written by hand, or drafted by a language model from a
   description, is taken if it is valid. *)
ParseScenario(sc) == Hand(sc, Silent)

HasBody(step) == step.page \in {"login", "token", "cart"}

FuzzVariants == <<"missing_field", "type_mismatch", "oversized_string", "unicode_control_chars", "empty_object">>

(* BuildFuzzScenario: every request with a body once for each variant, in the
   order of the steps' names.  The headers come along, and with them what
   they need; the extractors do not. *)
BuildFuzzScenario ==
    LET steps == scenario.steps
        Variants == Len(FuzzVariants)
        Fuzzed(id) == [steps[id[2]] EXCEPT !.request = <<@, id[3]>>, !.gives = <<>>, !.accepts = Answers \cap 100..499,
                                           !.pause = 0, !.onFailure = "abort"]
    IN
    /\ user = Nobody /\ "fuzz" \notin {id[1] : id \in DOMAIN steps}
    /\ \E targets \in Sorted({id \in DOMAIN steps : HasBody(steps[id])}, [id \in DOMAIN steps |-> id], 2) :
          LET ids == [n \in 1..(Variants * Len(targets)) |->
                         <<"fuzz", targets[1 + ((n - 1) \div Variants)], 1 + ((n - 1) % Variants)>>]
              fuzz == Chained(scenario.base, ids, [id \in ToSet(ids) |-> Fuzzed(id)])
          IN /\ ids # <<>> /\ ValidateScenario(fuzz)
             /\ scenario' = fuzz
             /\ told' = Walks({[i \in DOMAIN ids |-> <<steps[ids[i][2]].request, ids[i][3]>>]}, told.hosts)
    /\ UNCHANGED user

Import ==
    /\ scenario = NoScenario
    /\ \/ \E base \in Bases :
             \/ \E entries \in Recordings : ImportHAR(entries, base)
             \/ \E tree \in Collections : ImportPostmanCollection(tree, base)
             \/ \E calls \in Recordings : ImportK6Script(calls, base)
             \/ \E samplers \in Recordings : ImportJMeterPlan(samplers, base)
             \/ \E resources \in Exports : ImportInsomniaCollection(resources, base)
       \/ \E spans \in Traces : \E i \in DOMAIN spans : BuildReplayScenario(spans[i].trace, spans)
       \/ \E site \in Sites : AutoDiscover(site)
       \/ \E spec \in Specs, spans \in Traces \cup {<<>>} : Synthesize(spec, spans)
       \/ \E sc \in Authored : ParseScenario(sc)

ImportNext ==
    \/ Import
    \/ BuildFuzzScenario
    \/ Walk /\ UNCHANGED told

ImportSpec == ImportInit /\ [][ImportNext]_importVars

States == {"absent", "walking", "finished", "failed"}

(* A scenario that has been handed out is valid, and the session stays within
   its limit of steps. *)
ImportTypeOK ==
    /\ scenario = NoScenario \/ ValidateScenario(scenario)
    /\ user.state \in States /\ user.steps \in 0..MaxStepTransitions /\ user.paused \in Nat
    /\ user.vars \subseteq VariableNames
    /\ Len(user.sent) <= user.steps

(* A user comes to a step that does not exist only in a scenario somebody has
   written, and only by a target with spaces around it.  The paths it sends
   are those of the source, in the order the source has them (one of the
   orders, where the source has none), nothing twice and nothing left out by
   the time it finishes.  They go to the base of the caller, or else to the
   first host of the source: a recording is cut down to that host, of the
   other formats the requests of all hosts go there.  A user of mined traffic
   goes from one request only to one that followed it in a trace, or to the
   next where no trace knows better; of operations with one name only the last
   is sent.  The pauses of a replay are never longer than the recording,
   unless spans end before they start. *)
JourneyIsFaithful ==
    /\ user.state = "walking" /\ user.at \notin DOMAIN scenario.steps => told = Silent /\ Trimmed(user.at) # user.at
    /\ told.walks # {} =>
          \E walk \in told.walks : IsPrefix(user.sent, walk) /\ (user.state = "finished" => user.sent = walk)
    /\ told.pairs # {} =>
          /\ \A i \in 1..(Len(user.sent) - 1) : <<user.sent[i], user.sent[i + 1]>> \in told.pairs
          /\ user.state = "finished" => <<Last(user.sent), END>> \in told.pairs
    /\ told.hosts # {} => scenario.base \in told.hosts
    /\ \A limit \in told.limits : user.paused <= limit
=============================================================================
