--------------------------------- MODULE Api ---------------------------------
(***************************************************************************)
(* The client of the API and what carries its requests: the methods of       *)
(* DefaultAPI and CDNAPI, the validation of what the server answers, the      *)
(* round tripper that tries HTTP/3 and falls back to HTTP/1.1, the transport  *)
(* that recreates its QUIC connections when they fail or the VPN connects,    *)
(* and the resolver that opens the firewall for its DNS queries.              *)
(***************************************************************************)
EXTENDS Naturals, FiniteSets

CONSTANTS
    Callers,      \* goroutines that use the API
    Ops,          \* the methods that are called
    Faults,       \* "args", "h3", "h1", "dns", "fw", "server": what may go wrong
    MaxFailures,  \* how many QUIC transports die
    MaxConnects,  \* how often the VPN connects
    MaxRevivals   \* how often the hour passes after which HTTP/3 is tried again

VARIABLES
    mu, cdnMu,    \* who holds DefaultAPI.mu and the mutex of CDNAPI
    rot,          \* RotatingRoundTripper: isCurrentH3, and whether the hour has passed
    quic,         \* QuicTransport: the number of its inner transport, shouldRecreate, who
                  \* holds the read lock
    h1,           \* HTTPReTransport: who holds the read lock, an idle connection
    resolver,     \* who holds the mutex of the resolver
    fw,           \* the rules the resolvers keep in the firewall
    notify,       \* NotifyConnect: whom the connect event is told next
    past,         \* how often the VPN connected and the hour passed, the transports that failed
    call          \* what every caller does

vars == <<mu, cdnMu, rot, quic, h1, resolver, fw, notify, past, call>>

None == "none"
May(fault) == fault \in Faults

\* A method: it sends the token, takes the mutex for the whole call, sends a body, refuses
\* some arguments, and reads from the answer nothing, a value, or a list that is long enough.
Method(auth, locks, body, checks, reads) ==
    [auth |-> auth, locks |-> locks, body |-> body, checks |-> checks, reads |-> reads]
Public(reads) == Method(FALSE, None, FALSE, FALSE, reads)
Authorized(body, reads) == Method(TRUE, None, body, FALSE, reads)
OfMesh(body, reads) == Method(TRUE, "mu", body, FALSE, reads)
OfCdn(reads) == Method(FALSE, "cdn", FALSE, FALSE, reads)

Plans == Public("value")
Servers == Public("value")
ServersCountries == Public("value")
RecommendedServers == Public("value")
Server == Public("one")
Insights == Public("value")
CreateUser == Method(FALSE, None, TRUE, FALSE, "value")
TokenRenew == Method(FALSE, None, TRUE, TRUE, "value")
ServiceCredentials == Authorized(FALSE, "value")
Services == Authorized(FALSE, "value")
CurrentUser == Authorized(FALSE, "value")
DeleteToken == Authorized(FALSE, "nothing")
TrustedPassToken == Authorized(FALSE, "value")
MultifactorAuthStatus == Authorized(FALSE, "value")
NotificationCredentials == Authorized(TRUE, "value")
NotificationCredentialsRevoke == Method(TRUE, None, TRUE, TRUE, "value")
Logout == Authorized(FALSE, "nothing")
Register == Method(TRUE, "mu", TRUE, TRUE, "one")
Update == OfMesh(TRUE, "nothing")
Configure == OfMesh(TRUE, "nothing")
Unregister == OfMesh(FALSE, "nothing")
Local == OfMesh(FALSE, "value")
Map == OfMesh(FALSE, "value")
List == OfMesh(FALSE, "value")
Unpair == OfMesh(FALSE, "nothing")
Invite == OfMesh(TRUE, "nothing")
Received == OfMesh(FALSE, "value")
Sent == OfMesh(FALSE, "value")
Accept == OfMesh(TRUE, "nothing")
Reject == OfMesh(FALSE, "nothing")
Revoke == OfMesh(FALSE, "nothing")
NotifyNewTransfer == OfMesh(TRUE, "nothing")
ThreatProtectionLite == OfCdn("value")
ConfigTemplate == OfCdn("nothing")
ConfigTemplateHead == OfCdn("head")

Methods ==
    [Plans |-> Plans, Servers |-> Servers, ServersCountries |-> ServersCountries,
     RecommendedServers |-> RecommendedServers, Server |-> Server, Insights |-> Insights,
     CreateUser |-> CreateUser, TokenRenew |-> TokenRenew, ServiceCredentials |-> ServiceCredentials,
     Services |-> Services, CurrentUser |-> CurrentUser, DeleteToken |-> DeleteToken,
     TrustedPassToken |-> TrustedPassToken, MultifactorAuthStatus |-> MultifactorAuthStatus,
     NotificationCredentials |-> NotificationCredentials,
     NotificationCredentialsRevoke |-> NotificationCredentialsRevoke, Logout |-> Logout,
     Register |-> Register, Update |-> Update, Configure |-> Configure, Unregister |-> Unregister,
     Local |-> Local, Map |-> Map, List |-> List, Unpair |-> Unpair, Invite |-> Invite,
     Received |-> Received, Sent |-> Sent, Accept |-> Accept, Reject |-> Reject, Revoke |-> Revoke,
     NotifyNewTransfer |-> NotifyNewTransfer, ThreatProtectionLite |-> ThreatProtectionLite,
     ConfigTemplate |-> ConfigTemplate, ConfigTemplateHead |-> ConfigTemplateHead]

-----------------------------------------------------------------------------
\* What the server answers: the status, what is wrong with the headers, and the body.
Defects == {"missing", "format", "algorithm", "digest", "digest of nothing", "expired", "key", "signature"}
Bodies == {"good", "short", "garbled", "no message", "message", "count reached", "nickname"}
Answers ==
    [status : {200}, wrong : {{}} \cup {{d} : d \in Defects}, body : {"good", "short", "garbled"}]
    \cup [status : {400, 401, 403, 404, 409, 429, 500, 503}, wrong : {{}, {"digest of nothing"}, {"signature"}},
          body : Bodies \ {"good", "short"}]

Good == [status |-> 200, wrong |-> {}, body |-> "good"]

\* NordValidator.Validate: for errors the backend may sign the digest of an empty body.
Validate(a) == a.wrong \subseteq (IF a.status \in 200..299 THEN {} ELSE {"digest of nothing"})
mandatoryHeadersExist(a) == "missing" \notin a.wrong

\* The error that callers tell apart by errors.Is; "error" is any other.
extractErrorForMeshnet(a) == IF a.body = "nickname" THEN "Nickname" ELSE "BadRequest"
ExtractError(a) ==
    CASE a.status < 400 -> None
      [] a.status = 500 -> "ServerInternal"
      [] a.status = 429 -> "TooManyRequests"
      [] a.body \in {"garbled", "no message"} -> "error"
      [] a.status = 400 -> IF a.body = "count reached" THEN "MaximumDeviceCount" ELSE extractErrorForMeshnet(a)
      [] a.status = 401 -> "Unauthorized"
      [] a.status = 403 -> "Forbidden"
      [] a.status = 404 -> "NotFound"
      [] a.status = 409 -> "Conflict"
      [] OTHER -> "error"

\* What the method returns for the answer that was read.
Result(m, a) ==
    IF ~(IF m.reads = "head" THEN mandatoryHeadersExist(a) ELSE Validate(a)) THEN "error"
    ELSE IF ExtractError(a) # None THEN ExtractError(a)
    ELSE IF (m.reads \in {"value", "one"} /\ a.body = "garbled") \/ (m.reads = "one" /\ a.body = "short") THEN "error"
    ELSE "ok"

-----------------------------------------------------------------------------
\* done counts how often the server has carried out the request, of the attempts that are
\* handed to the libraries; body is what is left to send: a reader that was read is not
\* rewound for another attempt, unless net/http does it.
Idle == [method |-> Public("nothing"), pc |-> "idle", body |-> None, on |-> None, inner |-> 0, done |-> 0, result |-> None]

Init ==
    /\ mu = None /\ cdnMu = None
    /\ rot = [h3 |-> FALSE, due |-> TRUE]
    /\ quic = [inner |-> 0, flag |-> FALSE, readers |-> {}]
    /\ h1 = [readers |-> {}, idle |-> FALSE]
    /\ resolver = None
    /\ fw = {}
    /\ notify = "idle"
    /\ past = [connects |-> 0, revivals |-> 0, failed |-> {}]
    /\ call = [c \in Callers |-> Idle]

At(c, pc) == call[c].pc = pc
To(c, pc) == call' = [call EXCEPT ![c].pc = pc]

\* The method returns, and the deferred Unlock.
Return(c, result) ==
    /\ call' = [call EXCEPT ![c] = [Idle EXCEPT !.method = call[c].method, !.body = call[c].body, !.done = call[c].done, !.result = result]]
    /\ mu' = IF mu = c THEN None ELSE mu

\* A method is called: it locks, refuses arguments, and builds its request.
request(c, m) ==
    /\ At(c, "idle")
    /\ m.locks = "mu" => mu = None
    /\ mu' = IF m.locks = "mu" THEN c ELSE mu
    /\ call' = [call EXCEPT ![c] =
           [Idle EXCEPT !.method = m, !.body = IF m.body THEN "unread" ELSE None,
                        !.pc = IF m.locks = "cdn" THEN "cdn" ELSE "rotate"]]
    /\ UNCHANGED <<cdnMu, rot, quic, h1, resolver, fw, notify, past>>

\* An argument or the token is missing.
Refuse(c, m) ==
    /\ At(c, "idle") /\ May("args") /\ (m.auth \/ m.checks)
    /\ m.locks = "mu" => mu = None
    /\ call' = [call EXCEPT ![c] = [Idle EXCEPT !.method = m, !.result = "refused"]]
    /\ UNCHANGED <<mu, cdnMu, rot, quic, h1, resolver, fw, notify, past>>

\* RotatingRoundTripper: HTTP/3 is tried again an hour after it last was.
Rotate(c) ==
    /\ At(c, "rotate") /\ To(c, IF ~rot.h3 /\ rot.due THEN "stamp" ELSE "choose")
    /\ UNCHANGED <<mu, cdnMu, rot, quic, h1, resolver, fw, notify, past>>

Stamp(c) ==
    /\ At(c, "stamp") /\ To(c, "revive")
    /\ rot' = [rot EXCEPT !.due = FALSE]
    /\ UNCHANGED <<mu, cdnMu, quic, h1, resolver, fw, notify, past>>

Revive(c) ==
    /\ At(c, "revive") /\ To(c, "choose")
    /\ rot' = [rot EXCEPT !.h3 = TRUE]
    /\ UNCHANGED <<mu, cdnMu, quic, h1, resolver, fw, notify, past>>

Choose(c) ==
    /\ At(c, "choose") /\ To(c, IF rot.h3 THEN "h3" ELSE "h1")
    /\ UNCHANGED <<mu, cdnMu, rot, quic, h1, resolver, fw, notify, past>>

FallBack(c) ==
    /\ At(c, "h3 failed") /\ To(c, "h1")
    /\ rot' = [rot EXCEPT !.h3 = FALSE]
    /\ UNCHANGED <<mu, cdnMu, quic, h1, resolver, fw, notify, past>>

\* How an attempt may end: answered, carried out but the answer lost, failed while it was
\* being sent, failed before.  What is not left whole to send is not carried out.
Whole(c) == call[c].body \notin {"spent", "rewound"}
Outcomes(c, fault) ==
    (IF Whole(c) THEN {"answered"} ELSE {})
    \cup (IF May(fault) /\ Whole(c) THEN {"lost"} ELSE {})
    \cup (IF May(fault) \/ ~Whole(c) THEN {"torn", "unsent"} ELSE {})

SpendMutant(c, outcome, on, pc) ==
    call' = [call EXCEPT ![c] = [@ EXCEPT !.pc = pc, !.on = on,
        !.done = IF outcome \in {"answered", "lost"} THEN @ + 1 ELSE @]]

\* The attempt reads the body.
Spend(c, outcome, on, pc) ==
    call' = [call EXCEPT ![c] = [@ EXCEPT !.pc = pc, !.on = on,
        !.done = IF outcome \in {"answered", "lost"} THEN @ + 1 ELSE @,
        !.body = IF @ = None \/ outcome = "unsent" THEN @ ELSE IF @ = "again" THEN "rewound" ELSE "spent"]]

\* QuicTransport.executeRequest: under the read lock; an error that tells of a dead
\* connection has the transport recreated, and the request is tried once more.
H3Begins(c) ==
    /\ call[c].pc \in {"h3", "h3 again"}
    /\ quic' = [quic EXCEPT !.readers = @ \cup {c}]
    /\ call' = [call EXCEPT ![c].pc = IF At(c, "h3") THEN "h3 sent" ELSE "h3 resent", ![c].inner = quic.inner]
    /\ UNCHANGED <<mu, cdnMu, rot, h1, resolver, fw, notify, past>>

executeRequest(c) ==
    /\ At(c, "h3 sent")
    /\ \E outcome \in Outcomes(c, "h3"), recreate \in {FALSE, May("h3")} :
          /\ outcome = "answered" => ~recreate
          /\ recreate => Cardinality(past.failed \cup {call[c].inner}) <= MaxFailures
          /\ Spend(c, outcome, "h3",
                   IF outcome = "answered" THEN "read" ELSE IF recreate THEN "recreate" ELSE "h3 failed")
          /\ quic' = [quic EXCEPT !.readers = @ \ {c}, !.flag = recreate]
          /\ past' = IF recreate THEN [past EXCEPT !.failed = @ \cup {call[c].inner}] ELSE past
    /\ UNCHANGED <<mu, cdnMu, rot, h1, resolver, fw, notify>>

executeAgain(c) ==
    /\ At(c, "h3 resent")
    /\ \E outcome \in Outcomes(c, "h3") :
          Spend(c, outcome, "h3", IF outcome = "answered" THEN "read" ELSE "h3 failed")
    /\ quic' = [quic EXCEPT !.readers = @ \ {c}]
    /\ UNCHANGED <<mu, cdnMu, rot, h1, resolver, fw, notify, past>>

\* recreateRoundTrip, under the write lock: one of the requests that failed recreates it.
recreateRoundTrip(force) ==
    /\ quic.readers = {}
    /\ quic' = IF force \/ quic.flag THEN [quic EXCEPT !.inner = @ + 1, !.flag = FALSE] ELSE quic

Recreate(c) ==
    /\ At(c, "recreate") /\ To(c, "h3 again")
    /\ recreateRoundTrip(FALSE)
    /\ UNCHANGED <<mu, cdnMu, rot, h1, resolver, fw, notify, past>>

\* The VPN has connected: HTTPReTransport and QuicTransport are told, one after the other.
Connects ==
    /\ notify = "idle" /\ past.connects < MaxConnects
    /\ notify' = "h1"
    /\ past' = [past EXCEPT !.connects = @ + 1]
    /\ UNCHANGED <<mu, cdnMu, rot, quic, h1, resolver, fw, call>>

NotifyConnectH1 ==
    /\ notify = "h1" /\ h1.readers = {}
    /\ notify' = "h3" /\ h1' = [h1 EXCEPT !.idle = FALSE]
    /\ UNCHANGED <<mu, cdnMu, rot, quic, resolver, fw, past, call>>

NotifyConnectH3 ==
    /\ notify = "h3" /\ notify' = "idle"
    /\ recreateRoundTrip(TRUE)
    /\ UNCHANGED <<mu, cdnMu, rot, h1, resolver, fw, past, call>>

HourPasses ==
    /\ past.revivals < MaxRevivals /\ ~rot.due
    /\ rot' = [rot EXCEPT !.due = TRUE]
    /\ past' = [past EXCEPT !.revivals = @ + 1]
    /\ UNCHANGED <<mu, cdnMu, quic, h1, resolver, fw, notify, call>>

\* HTTPReTransport.RoundTrip: an idle connection, or one that is dialled to an address
\* the resolver looks up.
H1Begins(c) ==
    /\ At(c, "h1")
    /\ \E reuse \in {FALSE, h1.idle} :
          /\ h1' = [h1 EXCEPT !.readers = @ \cup {c}]
          /\ To(c, IF reuse THEN "h1 reused" ELSE "resolve")
    /\ UNCHANGED <<mu, cdnMu, rot, quic, resolver, fw, notify, past>>

\* ResolveWithNameservers: the rule is there for the queries of one lookup.
ResolveWithNameservers(c) ==
    /\ At(c, "resolve") /\ resolver = None
    /\ \/ /\ resolver' = c /\ fw' = fw \cup {"allow_dns"}
          /\ To(c, "lookup")
          /\ UNCHANGED <<mu, h1>>
       \/ /\ May("fw")
          /\ Return(c, "error")
          /\ h1' = [h1 EXCEPT !.readers = @ \ {c}]
          /\ UNCHANGED <<resolver, fw>>
    /\ UNCHANGED <<cdnMu, rot, quic, notify, past>>

LookupEnds(c) ==
    /\ At(c, "lookup") /\ resolver' = None
    /\ \/ fw' = fw \ {"allow_dns"}
       \/ May("fw") /\ fw' = fw
    /\ \/ To(c, "h1 sent") /\ UNCHANGED <<mu, h1>>
       \/ /\ May("dns")
          /\ Return(c, "error")
          /\ h1' = [h1 EXCEPT !.readers = @ \ {c}]
    /\ UNCHANGED <<cdnMu, rot, quic, notify, past>>

\* http.Transport: on an idle connection that is used again nothing is written of a request
\* whose body is spent, and the request is made once more, on another connection and with
\* the body of GetBody, which http.NewRequest sets for a bytes.Buffer.
H1Rewinds(c) ==
    /\ At(c, "h1 reused")
    /\ IF call[c].body = "spent"
       THEN /\ call' = [call EXCEPT ![c].pc = "resolve", ![c].body = "again"]
            /\ h1' = [h1 EXCEPT !.idle = FALSE]
       ELSE To(c, "h1 sent") /\ UNCHANGED h1
    /\ UNCHANGED <<mu, cdnMu, rot, quic, resolver, fw, notify, past>>

H1Ends(c) ==
    /\ At(c, "h1 sent")
    /\ \E outcome \in Outcomes(c, "h1") :
          \/ /\ outcome = "answered" /\ Spend(c, outcome, "h1", "read")
             /\ h1' = [readers |-> h1.readers \ {c}, idle |-> TRUE]
          \/ /\ outcome # "answered" /\ Spend(c, outcome, "h1", "fail")
             /\ h1' = [readers |-> h1.readers \ {c}, idle |-> FALSE]
    /\ UNCHANGED <<mu, cdnMu, rot, quic, resolver, fw, notify, past>>

\* CDNAPI: one request at a time, over a client of its own.
CdnBegins(c) ==
    /\ At(c, "cdn") /\ cdnMu = None
    /\ cdnMu' = c /\ To(c, "cdn sent")
    /\ UNCHANGED <<mu, rot, quic, h1, resolver, fw, notify, past>>

CdnEnds(c) ==
    /\ At(c, "cdn sent") /\ cdnMu' = None
    /\ \E outcome \in Outcomes(c, "h1") : Spend(c, outcome, "cdn", IF outcome = "answered" THEN "read" ELSE "fail")
    /\ UNCHANGED <<mu, rot, quic, h1, resolver, fw, notify, past>>

\* The answer's body is read, when the locks are no longer held: the transport that
\* carries it may have been closed.
do(c) ==
    /\ At(c, "read")
    /\ \/ \E result \in {Result(call[c].method, a) : a \in IF May("server") THEN Answers ELSE {Good}} :
             /\ call[c].on = "h3" => call[c].inner = quic.inner
             /\ Return(c, result)
       \/ /\ May("server") \/ (call[c].on = "h3" /\ call[c].inner # quic.inner)
          /\ Return(c, "error")
    /\ UNCHANGED <<cdnMu, rot, quic, h1, resolver, fw, notify, past>>

Fail(c) ==
    /\ At(c, "fail") /\ Return(c, "error")
    /\ UNCHANGED <<cdnMu, rot, quic, h1, resolver, fw, notify, past>>

Calls(c) ==
    LET methods == Methods
    IN \E m \in {methods[op] : op \in Ops} : request(c, m) \/ Refuse(c, m)
Carries(c) ==
    \/ Rotate(c) \/ Stamp(c) \/ Revive(c) \/ Choose(c) \/ FallBack(c)
    \/ H3Begins(c) \/ executeRequest(c) \/ Recreate(c) \/ executeAgain(c)
    \/ H1Begins(c) \/ H1Rewinds(c) \/ ResolveWithNameservers(c) \/ LookupEnds(c) \/ H1Ends(c)
    \/ CdnBegins(c) \/ CdnEnds(c) \/ do(c) \/ Fail(c)
Next ==
    \/ \E c \in Callers : Calls(c) \/ Carries(c)
    \/ Connects \/ NotifyConnectH1 \/ NotifyConnectH3 \/ HourPasses
Spec == Init /\ [][Next]_vars

-----------------------------------------------------------------------------
TypeOK ==
    /\ mu \in Callers \cup {None} /\ cdnMu \in Callers \cup {None} /\ resolver \in Callers \cup {None}
    /\ rot \in [h3 : BOOLEAN, due : BOOLEAN]
    /\ quic \in [inner : Nat, flag : BOOLEAN, readers : SUBSET Callers]
    /\ h1 \in [readers : SUBSET Callers, idle : BOOLEAN]
    /\ fw \subseteq {"allow_dns"}
    /\ notify \in {"idle", "h1", "h3"}
    /\ past \in [connects : Nat, revivals : Nat, failed : SUBSET Nat]
    /\ \A c \in Callers : call[c].done \in Nat /\ call[c].inner \in Nat

\* executeRequest and FallBack: a request that has a body is carried out at most once,
\* however often the transports of the program retry it and fall back, unless the fall-back
\* found an idle connection and net/http rewound the body; then at most twice.  One without a
\* body is at most three times.  A method that succeeds has had its request carried out, one
\* that refuses its arguments has sent nothing.
CarriedOutOnce ==
    \A c \in Callers :
        /\ call[c].method.body => call[c].done <= IF call[c].body = "rewound" THEN 2 ELSE 1
        /\ call[c].done <= 3
        /\ call[c].result = "ok" => call[c].done >= 1
        /\ call[c].result = "refused" => call[c].done = 0

\* Requests in flight over HTTP/3 are on the transport that is there: none is closed under
\* a request, and however many requests fail together, it is recreated at most once for them.
\* A request that is alone is tried again on a new one.  (With others it may not be: one that
\* ends well before the write lock is taken stores FALSE, and the failed transport stays.)
RecreatedOnce ==
    /\ \A c \in Callers : Callers = {c} /\ At(c, "h3 again") => call[c].inner < quic.inner
    /\ \A c \in quic.readers : call[c].inner = quic.inner
    /\ quic.inner + (IF notify = "idle" THEN 0 ELSE 1) <= Cardinality(past.failed) + past.connects

\* The firewall is open for DNS while a lookup runs and at no other time, unless it fails
\* to delete the rule.
OpenForLookups == May("fw") \/ (("allow_dns" \in fw) <=> (resolver # None))

\* The mesh API serves one call at a time.
OneMeshCall ==
    \A c \in Callers : call[c].pc # "idle" /\ call[c].method.locks = "mu" => mu = c

ApiKept == CarriedOutOnce /\ RecreatedOnce /\ OpenForLookups /\ OneMeshCall
=============================================================================
