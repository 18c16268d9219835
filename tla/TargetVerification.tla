------------------------ MODULE TargetVerification -------------------------
(***************************************************************************)
(* The proof that a target is the operator's own                           *)
(* (pkg/server/verification.go, pkg/verify/ownership.go), the handlers     *)
(* that ask for it, and the gate a run has to pass (coordinator.go).       *)
(*                                                                         *)
(* A request reads the maps, looks into the DNS and fetches a file with    *)
(* no lock held, so every access is a step of its own.  The DNS and the    *)
(* file of a host are in the hands of its owner, who may publish a token   *)
(* that was issued, also long ago and by another server, at any time.      *)
(*                                                                         *)
(* The gate checks one host of a request for a run, the one it declares,   *)
(* while the run sends to the hosts that its scenario names.               *)
(***************************************************************************)
EXTENDS Integers

CONSTANTS
    Hosts,
    Blocked,     \* IsBlockedTarget
    Private,     \* IsPrivateOrLocalTarget
    CloudHosts,  \* the hosts whose addresses belong to the operator's account
    Requests,    \* the requests that are under way at a time
    RunRequests, \* the runs that may be asked for
    MaxTokens,   \* bound: tokens issued
    MaxRequests  \* bound: requests made

NoHost == "none"

(* What the gate and the run read of a CreateRunRequest: target is the host of
   target_base_url; base that of the base_url of its YAML or JSON scenario, and
   urls those of the steps of it that have an absolute URL. *)
CreateRunRequest ==
    [kind : {"openapi", "scenario"}, target : Hosts \cup {NoHost}, base : Hosts \cup {NoHost},
     urls : SUBSET Hosts]

ASSUME VerificationConstants ==
    /\ NoHost \notin Hosts
    /\ RunRequests \subseteq CreateRunRequest
    /\ Blocked \subseteq Hosts /\ Private \subseteq Hosts
    /\ MaxTokens \in Nat /\ MaxRequests \in Nat

VARIABLES
    challenges,  \* VerificationStore.challenges: the outstanding token, or NoToken
    records,     \* VerificationStore.records: the method of a proof, or "none"
    txt,         \* the token in the DNS of a host, or NoToken
    file,        \* the token in the well-known file of a host, or NoToken
    request,     \* per request: what it is and how far it has come
    issued,      \* the number of the last token drawn
    made,        \* history: how many requests were made
    owned,       \* history: the hosts whose owner has published a token or
                 \* proved the ownership of its addresses
    tested       \* history: the requests whose runs were started

verificationVars == <<challenges, records, txt, file, request, issued, made, owned, tested>>

NoToken == -1
OldToken == 0    \* in the DNS already, from an earlier server
Tokens == 0..MaxTokens
Methods == {"dns_txt", "well_known", "cloud_ip_ownership"}
Idle == [op |-> "none", pc |-> "done"]

VerificationInit ==
    /\ challenges = [h \in Hosts |-> NoToken]
    /\ records = [h \in Hosts |-> "none"]
    /\ txt = [h \in Hosts |-> NoToken]
    /\ file = [h \in Hosts |-> NoToken]
    /\ request = [q \in Requests |-> Idle]
    /\ issued = OldToken
    /\ made = 0
    /\ owned = {}
    /\ tested = {}

-----------------------------------------------------------------------------
(* steady: the DNS of the host has held the same token, and answered, since
   the request began. *)
New(op, h, pc, token) ==
    [op |-> op, host |-> h, pc |-> pc, token |-> token, method |-> "none",
     steady |-> txt[h] # NoToken]

Begin(q, new) ==
    /\ made < MaxRequests
    /\ request[q].pc = "done"
    /\ made' = made + 1
    /\ request' = [request EXCEPT ![q] = new]
    /\ UNCHANGED <<challenges, records, txt, file, issued, owned, tested>>

(* Of a host that is verified, or blocked, the status is known at once. *)
Status(q, h) ==
    IF records[h] # "none" \/ h \in Blocked
    THEN Begin(q, [New("status", h, "done", NoToken) EXCEPT !.method = records[h]])
    ELSE Begin(q, New("status", h, "lookup", NoToken))

Challenge(q, h) ==
    /\ h \notin Blocked
    /\ Begin(q, New("challenge", h, "lookup", NoToken))

Confirm(q, h) ==
    /\ challenges[h] # NoToken
    /\ Begin(q, New("confirm", h, "dns", challenges[h]))

ConfirmCloud(q, h) ==
    /\ h \notin Blocked
    /\ Begin(q, New("confirm_cloud", h, "cloud", NoToken))

(* Mutant: a token that is published already is not looked for. *)
GenerateChallenge_Fresh(h, found) == issued + 1

(* A token that the DNS holds is adopted, else one is drawn. *)
GenerateChallenge(h, found) ==
    IF found /\ txt[h] # NoToken THEN txt[h] ELSE issued + 1

(* A lookup may fail, and is then as good as none. *)
Lookup(q, found) ==
    LET h == request[q].host
        token == GenerateChallenge(h, found)
    IN  /\ request[q].pc = "lookup"
        /\ token <= MaxTokens
        /\ issued' = IF token > issued THEN token ELSE issued
        /\ request' = [request EXCEPT ![q].pc = "store", ![q].token = token,
                                      ![q].steady = @ /\ found]
        /\ UNCHANGED <<challenges, records, txt, file, made, owned, tested>>

(* The challenge of a host is the last one that was stored. *)
Store(q) ==
    /\ request[q].pc = "store"
    /\ challenges' = [challenges EXCEPT ![request[q].host] = request[q].token]
    /\ request' = [request EXCEPT ![q].pc = IF request[q].op = "status" THEN "dns" ELSE "done"]
    /\ UNCHANGED <<records, txt, file, issued, made, owned, tested>>

Proved(q, method) ==
    request' = [request EXCEPT ![q].pc = "record", ![q].method = method]

verifyDNS(q, found) ==
    /\ request[q].pc = "dns"
    /\ IF found /\ txt[request[q].host] = request[q].token
       THEN Proved(q, "dns_txt")
       ELSE request' = [request EXCEPT ![q].pc = "file", ![q].steady = @ /\ found]
    /\ UNCHANGED <<challenges, records, txt, file, issued, made, owned, tested>>

verifyWellKnown(q, found) ==
    /\ request[q].pc = "file"
    /\ IF found /\ file[request[q].host] = request[q].token
       THEN Proved(q, "well_known")
       ELSE request' = [request EXCEPT ![q].pc = "done"]
    /\ UNCHANGED <<challenges, records, txt, file, issued, made, owned, tested>>

(* The addresses of the host are looked up and the cloud is asked for each; the
   first call that fails ends the request. *)
OwnsIP(q, answered) ==
    /\ request[q].pc = "cloud"
    /\ IF answered /\ request[q].host \in CloudHosts
       THEN Proved(q, "cloud_ip_ownership") /\ owned' = owned \cup {request[q].host}
       ELSE request' = [request EXCEPT ![q].pc = "done"] /\ UNCHANGED owned
    /\ UNCHANGED <<challenges, records, txt, file, issued, made, tested>>

Record(q) ==
    /\ request[q].pc = "record"
    /\ records' = [records EXCEPT ![request[q].host] = request[q].method]
    /\ request' = [request EXCEPT ![q].pc = "done"]
    /\ UNCHANGED <<challenges, txt, file, issued, made, owned, tested>>

-----------------------------------------------------------------------------
Change(h) ==
    [q \in Requests |->
       IF request[q] # Idle /\ request[q].host = h THEN [request[q] EXCEPT !.steady = FALSE]
       ELSE request[q]]

PublishTXT(h, token) ==
    /\ txt[h] # token
    /\ txt' = [txt EXCEPT ![h] = token]
    /\ request' = Change(h)
    /\ owned' = IF token = NoToken THEN owned ELSE owned \cup {h}
    /\ UNCHANGED <<challenges, records, file, issued, made, tested>>

PublishFile(h, token) ==
    /\ file[h] # token
    /\ file' = [file EXCEPT ![h] = token]
    /\ owned' = owned \cup {h}
    /\ UNCHANGED <<challenges, records, txt, request, issued, made, tested>>

(* The owner of a blocked host does not take part. *)
Owner ==
    \E h \in Hosts \ Blocked :
       \/ \E token \in {NoToken} \cup OldToken..issued : PublishTXT(h, token)
       \/ \E token \in OldToken..issued : PublishFile(h, token)

resolveTargetHost(run) == IF run.target # NoHost THEN run.target ELSE run.base

(* Where the run sends to: a synthesized scenario to the target, another to its
   own base and wherever its steps say. *)
Reached(run) ==
    (IF run.kind = "openapi" THEN {run.target} ELSE {run.base} \cup run.urls) \ {NoHost}

(* Mutant: an outstanding challenge is taken for a proof. *)
checkTargetAllowed_Challenged(run) ==
    LET h == resolveTargetHost(run) IN
    h # NoHost => /\ h \notin Blocked
                  /\ h \in Private \/ records[h] # "none" \/ challenges[h] # NoToken

(* A request that declares no host is let through. *)
checkTargetAllowed(run) ==
    LET h == resolveTargetHost(run) IN
    h # NoHost => /\ h \notin Blocked
                  /\ h \in Private \/ records[h] # "none"

StartRun(run) ==
    /\ checkTargetAllowed(run)
    /\ tested' = tested \cup {run}
    /\ UNCHANGED <<challenges, records, txt, file, request, issued, made, owned>>

VerificationNext ==
    \/ \E q \in Requests, h \in Hosts :
          Status(q, h) \/ Challenge(q, h) \/ Confirm(q, h) \/ ConfirmCloud(q, h)
    \/ \E q \in Requests, found \in BOOLEAN :
          Lookup(q, found) \/ verifyDNS(q, found) \/ verifyWellKnown(q, found)
    \/ \E q \in Requests, answered \in BOOLEAN : OwnsIP(q, answered)
    \/ \E q \in Requests : Store(q) \/ Record(q)
    \/ Owner
    \/ \E run \in RunRequests : StartRun(run)

VerificationSpec == VerificationInit /\ [][VerificationNext]_verificationVars

-----------------------------------------------------------------------------
VerificationTypeOK ==
    /\ challenges \in [Hosts -> Tokens \cup {NoToken}]
    /\ records \in [Hosts -> Methods \cup {"none"}]
    /\ txt \in [Hosts -> Tokens \cup {NoToken}]
    /\ file \in [Hosts -> Tokens \cup {NoToken}]
    /\ issued \in Tokens
    /\ made \in Nat
    /\ owned \subseteq Hosts
    /\ tested \subseteq RunRequests
    /\ \A q \in Requests : request[q] = Idle \/ request[q].host \in Hosts

Cleared(h) == h \notin Blocked /\ (h \in Private \/ h \in owned)

(* The request declares every host its run sends to.  Nothing in the code makes
   it do so: a scenario may have a base of its own next to the target declared,
   or steps with absolute URLs, and is then started unchecked. *)
Declared(run) == Reached(run) \subseteq {resolveTargetHost(run)}

(* No run is started whose request declares a public host before the owner of
   that host has published a token, or shown that its addresses are the
   operator's, and none ever that declares a blocked one, in whatever order
   challenges, confirmations and polls interleave; so a run sends to no other
   host than such a one if its request declares all that it sends to. *)
TestedIsOwned ==
    \A run \in tested :
       /\ resolveTargetHost(run) # NoHost => Cleared(resolveTargetHost(run))
       /\ Declared(run) => \A h \in Reached(run) : Cleared(h)

(* A poll of the status of a host whose DNS held a token all along ends with
   the host verified, also when others issue challenges for it meanwhile. *)
PollFindsProof ==
    \A q \in Requests :
       (request[q].op = "status" /\ request[q].pc = "done" /\ request[q].steady
          /\ request[q].host \notin Blocked)
          => records[request[q].host] # "none"
=============================================================================
