----------------------------- MODULE MCServices -----------------------------
(***************************************************************************)
(* Small instances of the services of the server that answer one request   *)
(* at a time, or work with a lock or atomic words only.  They share no     *)
(* state: every behaviour has one of them in focus, as in MCBackground.    *)
(***************************************************************************)
EXTENDS GameDay, TargetVerification, PresetStore, LatencyMetrics, ScenarioImport, Diagnostics

VARIABLE focus

-----------------------------------------------------------------------------
(* GameDay: a time of the week, and one on a weekday that is none. *)

Evening == {[weekday |-> 3, minute |-> 2], [weekday |-> -1, minute |-> 2]}

(* Verification: runs that declare the host they go to, and runs that do not. *)

Asked(kind, target, base, urls) == [kind |-> kind, target |-> target, base |-> base, urls |-> urls]
Wanted == {Asked("openapi", "search", "shop", {}), Asked("scenario", NoHost, "shop", {}),
           Asked("scenario", "shop", "search", {})}

(* Presets. *)

Beginnings == {"", "custom_preset", "sale", "harbolnas", "gajian", "lebaran_mudik", "selebgram_viral"}
Names == {PresetId(""), PresetId("sale"), Numbered(PresetId("sale"), 1), Gajian}
Curves == {<<>>, <<[percent |-> 40, multiplier |-> 3], [percent |-> 60, multiplier |-> 1]>>,
           <<[percent |-> 40, multiplier |-> 3]>>}

(* Metrics: a fast failure, a slow success, and another step; buckets that
   grow by a factor of four. *)

Bounds == [b \in 0..2 |-> IF b = 0 THEN 0 ELSE 4^(b - 1)]

Results == {[step |-> "a", micros |-> 1, error |-> TRUE], [step |-> "a", micros |-> 5, error |-> FALSE],
            [step |-> "b", micros |-> 0, error |-> FALSE]}

-----------------------------------------------------------------------------
(* Scenario imports: short documents of each format. *)

UpTo(S, n) == UNION {[1..k -> S] : k \in 0..n}

Recorded == UpTo([host : {"", "shop", "ads"}, page : {"home", "cart", "login", "token"}], 2)
            \cup [1..3 -> [host : {"shop", "ads"}, page : {"home", "login"}]]

Sent == {[host |-> "", page |-> "home"], [host |-> "shop", page |-> "login"], [host |-> "ads", page |-> "home"]}
Folder(t) == [folder |-> t]
Nested == {<<x, Folder(<<y, Folder(<<z>>)>>)>> : x, y, z \in Sent}
          \cup {<<Folder(<<Folder(<<x>>), y>>), z, Folder(<<>>)>> : x, y, z \in Sent}

Exported == UpTo({[type |-> "request", host |-> sent.host, page |-> sent.page, key |-> k] : sent \in Sent, k \in 0..1}
                 \cup {[type |-> "environment", host |-> "shop", page |-> "home", key |-> 0]}, 2)

Op(n) == <<"op", n>>
Span(trace, start, end, route) == [trace |-> trace, start |-> start, end |-> end, route |-> route]
Traced == UpTo({Span("t1", 0, 2, Op(1)), Span("t1", 1, 2, Op(2)), Span("t1", 4, 5, Op(3)),
                Span("t1", 3, 3, <<>>), Span("t2", 1, 3, Op(9)), Span("t2", 3, 0, Op(2))}, 2)
          \cup {<<Span("t2", 1, 2, Op(1)), Span("t1", 0, 2, Op(1)), Span("t2", 2, 4, Op(2))>>,
                <<Span("t1", 4, 5, Op(3)), Span("t1", 3, 3, <<>>), Span("t1", 0, 2, Op(1))>>,
                <<Span("t1", 0, 2, Op(1)), Span("t1", 1, 2, Op(9)), Span("t1", 1, 3, Op(3))>>}

Variables == {"jwt_token", "id", "item_id"}

Found == [home : {"", "/"}, robots : {<<>>, <<"a", "b">>}, links : UpTo({"/", "/x", "/y"}, 2),
          sitemaps : [{"usual", "a", "b"} -> {<<>>, <<"/y", "/z">>}]]

Endpoint(id, n, page, needs, gives) == [id |-> id, route |-> Op(n), page |-> page, needs |-> needs, gives |-> gives]
Documented ==
    {<<Endpoint(Op(1), 1, "home", {}, <<>>)>>,
     <<Endpoint(Op(1), 1, "home", {}, <<>>), Endpoint(Op(2), 2, "cart", {}, <<Given("item_id")>>),
       Endpoint(Op(3), 3, "home", {"item_id"}, <<>>)>>,
     <<Endpoint(Op(1), 1, "home", {"id"}, <<>>), Endpoint(Op(2), 2, "login", {}, <<>>),
       Endpoint(Op(3), 3, "home", {}, <<>>)>>,
     <<Endpoint(Op(1), 1, "home", {}, <<>>), Endpoint(END, 2, "home", {}, <<>>), Endpoint(Op(1), 3, "home", {}, <<>>)>>,
     <<Endpoint(Op(2), 1, "home", {}, <<>>), Endpoint(Op(1), 2, "cart", {}, <<>>), Endpoint(Op(1), 3, "home", {}, <<>>)>>}

Condition(left, op, right) == [left |-> left, op |-> op, right |-> right]
Conditions ==
    {Always, Condition("status", "==", 200), Condition("status", ">=", 400),
     Condition("success", "==", "false"), Condition("jwt_token", "!=", "")}
Own(n) == <<"a", n>>
Padded(id) == <<"padded", id>>
TwoSteps(there, condition, after, action, fallback) ==
    [base |-> "shop", initial |-> Own(1),
     steps |-> [id \in {Own(1), Own(2)} |->
         IF id = Own(1)
         THEN [Request(1, "login") EXCEPT
                  !.next = <<[target |-> there, condition |-> condition], To(after)>>,
                  !.onFailure = action, !.fallback = fallback,
                  !.accepts = Answers \cap 100..499]
         ELSE [Request(2, "home") EXCEPT
                  !.gives = <<Given("id"), [Given("jwt_token") EXCEPT !.default = FALSE]>>,
                  !.next = <<To(Own(1)), [target |-> END, condition |-> condition]>>]]]
Handwritten ==
    {TwoSteps(there, condition, after, action, fallback) :
        there \in {Own(1), Own(2), Own(3), Padded(Own(2))}, condition \in Conditions,
        after \in {Own(2), Padded(END), END, <<>>},
        action \in {"abort", "transition"}, fallback \in {Own(2), Own(3)}}

-----------------------------------------------------------------------------
(* Diagnostics: summaries on both sides of every threshold. *)

Summary(errors, fatal, p99, tripped) ==
    [requests |-> 20, errors |-> errors, fatal |-> fatal, p99 |-> p99, tripped |-> tripped,
     late |-> 0, limited |-> 0, reason |-> ""]
Summaries ==
    {Summary(0, 0, p99, FALSE) : p99 \in {300, 900, 4000}}
    \cup {Summary(3, fatal, p99, FALSE) : fatal \in {0, 2, 3}, p99 \in {300, 900}}
    \cup {Summary(12, fatal, p99, tripped) :
             fatal \in {0, 3}, p99 \in {300, 900, 4000}, tripped \in BOOLEAN}
    \cup {[Summary(12, 4, 900, TRUE) EXCEPT !.late = 3, !.reason = "timeout"],
          [Summary(2, 0, 1600, TRUE) EXCEPT !.limited = 2, !.reason = "connection refused"]}
Configurations ==
    {[vus |-> 60, chaos |-> FALSE, category |-> "saas"], [vus |-> 0, chaos |-> TRUE, category |-> ""]}
Elsewhere == {[score |-> 60, p99 |-> 900]}

-----------------------------------------------------------------------------
Init ==
    /\ GameDayInit /\ VerificationInit /\ PresetInit /\ ImportInit /\ DiagInit
    /\ focus \in {"gameday", "verification", "presets", "metrics", "import", "diagnostics"}
    /\ MetricsInit
    /\ focus # "metrics" => \A r \in Recorders : recorder[r].result = CHOOSE x \in Results : TRUE

GameDays == focus = "gameday" /\ GameDayNext
            /\ UNCHANGED <<focus, verificationVars, presetVars, metricsVars, importVars, diagVars>>
Verification == focus = "verification" /\ VerificationNext
            /\ UNCHANGED <<focus, gameDayVars, presetVars, metricsVars, importVars, diagVars>>
Presets == focus = "presets" /\ PresetNext
            /\ UNCHANGED <<focus, gameDayVars, verificationVars, metricsVars, importVars, diagVars>>
Metrics == focus = "metrics" /\ MetricsNext
            /\ UNCHANGED <<focus, gameDayVars, verificationVars, presetVars, importVars, diagVars>>
Imports == focus = "import" /\ ImportNext
            /\ UNCHANGED <<focus, gameDayVars, verificationVars, presetVars, metricsVars, diagVars>>
Diagnosis == focus = "diagnostics" /\ DiagNext
            /\ UNCHANGED <<focus, gameDayVars, verificationVars, presetVars, metricsVars, importVars>>

Next == GameDays \/ Verification \/ Presets \/ Metrics \/ Imports \/ Diagnosis

Spec == Init /\ [][Next]_<<focus, gameDayVars, verificationVars, presetVars, metricsVars,
                           importVars, diagVars>>

(* Every variable of every part has its type, and the list of presets names
   those there are. *)
TypeOK ==
    GameDayTypeOK /\ VerificationTypeOK /\ PresetTypeOK /\ MetricsTypeOK /\ ImportTypeOK /\ DiagTypeOK
=============================================================================
