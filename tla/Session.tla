------------------------------- MODULE Session -------------------------------
(***************************************************************************)
(* The user's session in the daemon: logging in with a token and in the     *)
(* browser, the checker that renews what has expired, connecting, cancelling *)
(* and disconnecting, logging out and the job that connects at start.        *)
(* Handlers run concurrently; what keeps them apart is the mutex of the      *)
(* checker, that of the networker, that of the connection context, and the   *)
(* configuration file, which is loaded and saved in steps of their own.      *)
(***************************************************************************)
EXTENDS Naturals, FiniteSets, TLC

CONSTANTS
    Callers,      \* threads that run handlers
    Users,        \* accounts
    Ops,          \* the operations that are called
    Faults,       \* "api", "netw", "save", "load": what may fail; "time": what is saved
                  \* expires; "revoked": accounts are closed
    Contexts,     \* identities of contexts, more than there are threads
    MaxAttempts   \* logins that are begun in the browser

VARIABLES
    saved,        \* AutoConnectData.ID and TokensData of the configuration
    authMu,       \* who holds RenewingChecker.mu
    exec,         \* the connection context
    vpn,          \* the networker: who holds its mutex, whether the VPN is up and for whom
    nc,           \* the notification client, and the goroutines that are about to start it
    oauth,        \* attempts at logging in with the browser
    events,       \* the last event of a connection, a login and a logout
    revoked,      \* the accounts whose tokens the API refuses
    call          \* what every thread does

vars == <<saved, authMu, exec, vpn, nc, oauth, events, revoked, call>>

None == "none"
May(fault) == fault \in Faults

Idle == [op |-> None, pc |-> "idle", id |-> None, tokens |-> <<>>, fun |-> None, doomed |-> FALSE, answer |-> None]
Finished(c, answer) == [call EXCEPT ![c] = [Idle EXCEPT !.op = call[c].op, !.answer = answer]]
At(c, pc) == call[c].pc = pc
To(c, pc) == [call EXCEPT ![c].pc = pc]

\* A user's data: the token has not expired, it came from the browser, the
\* trusted pass and the VPN credentials are there, the service is paid for.
TokenData == [fresh : BOOLEAN, isOAuth : BOOLEAN, trusted : BOOLEAN, creds : BOOLEAN, paid : BOOLEAN]
NoData == [fresh |-> FALSE, isOAuth |-> FALSE, trusted |-> FALSE, creds |-> FALSE, paid |-> FALSE]
Data(tokens, u) == IF u \in DOMAIN tokens THEN tokens[u] ELSE NoData

\* auth.Logout deletes the data and leaves the ID.
Logout(s, u) == [s EXCEPT !.tokens = [v \in DOMAIN @ \ {u} |-> @[v]]]

\* The functions that save only what they renewed; data that is no longer there
\* comes back with the rest of it empty.
saveLoginToken(s, u, d) ==
    [s EXCEPT !.tokens = (u :> [Data(@, u) EXCEPT !.fresh = d.fresh, !.trusted = d.trusted]) @@ @]
saveVpnExpirationDate(s, u, d) == [s EXCEPT !.tokens = (u :> [Data(@, u) EXCEPT !.paid = d.paid]) @@ @]
saveVpnServerCredentials(s, u, d) == [s EXCEPT !.tokens = (u :> [Data(@, u) EXCEPT !.creds = d.creds]) @@ @]

Init ==
    /\ saved \in {[id |-> None, tokens |-> <<>>]} \cup
                 {[id |-> u, tokens |-> (u :> [NoData EXCEPT !.fresh = f, !.isOAuth = TRUE, !.trusted = f, !.creds = f, !.paid = f])] :
                     u \in Users, f \in IF May("time") THEN BOOLEAN ELSE {TRUE}}
    /\ authMu = None
    /\ exec = [busy |-> None, ctx |-> None, cancelled |-> FALSE, asked |-> FALSE]
    /\ vpn = [mu |-> None, active |-> FALSE, user |-> None]
    /\ nc = [started |-> FALSE, starting |-> 0]
    /\ oauth = [begun |-> 0, attempt |-> 0, verifier |-> 0, accepted |-> 0]
    /\ events = [connect |-> None, login |-> None, logout |-> None]
    /\ revoked = {}
    /\ call = [c \in Callers |-> Idle]

-----------------------------------------------------------------------------
(* The checker.                                                             *)

\* What an API call may come to.
Api(u) == {IF u \in revoked THEN "refused" ELSE "ok"} \cup (IF May("api") THEN {"error"} ELSE {})

renewLoginToken(d) == [d EXCEPT !.fresh = TRUE]
renewTrustedPassToken(d) == [d EXCEPT !.trusted = TRUE]
renewVpnCredentials(d) == [d EXCEPT !.creds = TRUE]

\* The first part of renew: a token that has expired.  What is returned is the
\* data, what is saved of it, and how renew goes on.
RenewedToken(u, d) ==
    IF d.fresh THEN {[data |-> d, end |-> "on"]}
    ELSE {[data |-> d, end |-> "out"] : a \in Api(u) \cap {"refused"}}
         \cup {[data |-> d, end |-> "in"] : a \in Api(u) \cap {"error"}}
         \cup (IF "ok" \notin Api(u) THEN {}
               ELSE {[data |-> IF d.isOAuth /\ a = "ok" THEN renewTrustedPassToken(renewLoginToken(d)) ELSE renewLoginToken(d),
                      end |-> "on"] : a \in Api(u)})

\* The second: the trusted pass of one that logged in with the browser.
RenewedPass(u, d) ==
    IF ~d.isOAuth \/ d.trusted THEN {[data |-> d, end |-> "on"]}
    ELSE {[data |-> IF a = "ok" THEN renewTrustedPassToken(d) ELSE d,
           end |-> IF a = "refused" THEN "out" ELSE "on"] : a \in Api(u)}

\* The third: the credentials of the VPN.
RenewedCredentials(u, d) ==
    IF d.creds THEN {[data |-> d, end |-> "in"]}
    ELSE {[data |-> IF a = "ok" THEN renewVpnCredentials(d) ELSE d, end |-> IF a = "ok" THEN "in" ELSE "error"] : a \in Api(u)}

\* A refusal is taken for a network error.
renewMutant(s, u, d) ==
    UNION {IF t.end # "on" THEN {[saved |-> s, ok |-> TRUE]}
           ELSE {[saved |-> s, ok |-> k.end = "in"] : k \in RenewedCredentials(u, t.data)} : t \in RenewedToken(u, d)}

\* What SaveWith of f comes to, and whether renew goes on.
Saves(s, f) == {[saved |-> f, ok |-> TRUE]} \cup (IF May("save") THEN {[saved |-> s, ok |-> FALSE]} ELSE {})

\* renew: every part saves what it renewed, and the first save that fails ends it.
RenewCredentials(s, u, d) ==
    UNION {IF d.creds THEN {[saved |-> s, ok |-> TRUE]}
           ELSE IF k.end = "error" THEN {[saved |-> s, ok |-> FALSE]}
           ELSE Saves(s, saveVpnServerCredentials(s, u, k.data)) : k \in RenewedCredentials(u, d)}
RenewPass(s, u, d) ==
    UNION {IF p.end = "out" THEN Saves(s, Logout(s, u))
           ELSE IF ~d.isOAuth \/ d.trusted THEN RenewCredentials(s, u, d)
           ELSE UNION {IF r.ok THEN RenewCredentials(r.saved, u, p.data) ELSE {r} : r \in Saves(s, saveLoginToken(s, u, p.data))} :
           p \in RenewedPass(u, d)}
renew(s, u, d) ==
    UNION {CASE t.end = "out" -> Saves(s, Logout(s, u))
             [] t.end = "in" -> {[saved |-> s, ok |-> TRUE]}
             [] d.fresh -> RenewPass(s, u, d)
             [] OTHER -> UNION {IF r.ok THEN RenewPass(r.saved, u, t.data) ELSE {r} : r \in Saves(s, saveLoginToken(s, u, t.data))} :
           t \in RenewedToken(u, d)}

\* Where a handler goes on when the user is, or is not, logged in.
WhenIn(op) ==
    CASE op \in {"Connect", "Auto", "AccountInfo"} -> "expired"
      [] op = "Logout" -> "load"
      [] op = "TokenInfo" -> "info"
      [] op = "IsLoggedIn" -> "yes"
      [] OTHER -> "already"
WhenOut(op) ==
    CASE op = "IsLoggedIn" -> "no"
      [] op = "LoginWithToken" -> "credentials"
      [] op = "LoginOAuth2" -> "begin"
      [] op = "LoginOAuth2Callback" -> "token"
      [] OTHER -> "not"

\* IsLoggedIn locks, and loads.  A token that is no token is refused before that.
IsLoggedIn(c) ==
    /\ At(c, "auth") /\ authMu = None
    /\ \/ authMu' = c /\ call' = [call EXCEPT ![c].pc = "renew", ![c].id = saved.id, ![c].tokens = saved.tokens]
       \/ May("load") /\ UNCHANGED authMu /\ call' = To(c, WhenOut(call[c].op))
       \/ call[c].op = "LoginWithToken" /\ UNCHANGED authMu /\ call' = Finished(c, "token invalid")
    /\ UNCHANGED <<saved, exec, vpn, nc, oauth, events, revoked>>

\* The early return when there is nobody's data does not unlock.
IsLoggedInRenewsMutant(c) ==
    /\ At(c, "renew")
    /\ DOMAIN call[c].tokens = {}
    /\ call' = To(c, WhenOut(call[c].op))
    /\ UNCHANGED <<authMu, saved, exec, vpn, nc, oauth, events, revoked>>

\* It renews what was loaded, one account after the other, saves and unlocks.
IsLoggedInRenews(c) ==
    /\ At(c, "renew")
    /\ IF DOMAIN call[c].tokens = {}
       THEN /\ authMu' = None /\ UNCHANGED saved
            /\ call' = To(c, WhenOut(call[c].op))
       ELSE \E u \in DOMAIN call[c].tokens : \E r \in renew(saved, u, call[c].tokens[u]) :
              /\ saved' = r.saved
              /\ LET rest == [v \in DOMAIN call[c].tokens \ {u} |-> call[c].tokens[v]]
                     in == r.ok /\ call[c].id # None
                 IN IF DOMAIN rest = {}
                    THEN /\ authMu' = None
                         /\ call' = To(c, IF in THEN WhenIn(call[c].op) ELSE WhenOut(call[c].op))
                    ELSE /\ UNCHANGED authMu
                         /\ call' = [call EXCEPT ![c].tokens = rest, ![c].id = IF r.ok THEN @ ELSE None]
    /\ UNCHANGED <<exec, vpn, nc, oauth, events, revoked>>

\* IsVPNExpired: a service that is thought to have expired is asked for again.
IsVPNExpired(c) ==
    /\ At(c, "expired") /\ authMu = None
    /\ LET d == Data(saved.tokens, saved.id) IN
         \/ /\ d.paid
            /\ call' = To(c, IF call[c].op = "AccountInfo" THEN "services" ELSE "select")
            /\ UNCHANGED saved
         \/ /\ ~d.paid /\ saved.id \in DOMAIN saved.tokens \ revoked
            /\ \E paid \in BOOLEAN :
                 /\ saved' = saveVpnExpirationDate(saved, saved.id, [d EXCEPT !.paid = paid])
                 /\ call' = To(c, IF call[c].op = "AccountInfo" THEN "services" ELSE IF paid THEN "select" ELSE "account expired")
         \/ /\ ~d.paid /\ (Api(saved.id) # {"ok"} \/ saved.id \notin DOMAIN saved.tokens)
            /\ call' = To(c, "renew error")
            /\ UNCHANGED saved
    /\ UNCHANGED <<authMu, exec, vpn, nc, oauth, events, revoked>>

-----------------------------------------------------------------------------
(* Connecting.                                                              *)

\* The two clients' requests and the job that connects at start.
Issue(c) ==
    /\ At(c, "idle")
    /\ \E op \in Ops :
         /\ op = "LoginOAuth2" => oauth.begun < MaxAttempts
         /\ call' = [call EXCEPT ![c] = [Idle EXCEPT !.op = op,
                       !.doomed = saved.id \in revoked /\ ~Data(saved.tokens, saved.id).fresh,
                       !.pc = CASE op = "Connect" -> "try" [] op = "Auto" -> "loop" [] op = "ConnectCancel" -> "fetch"
                                [] op = "Disconnect" -> "active" [] OTHER -> "auth"]]
    /\ UNCHANGED <<saved, authMu, exec, vpn, nc, oauth, events, revoked>>

\* StartAutoConnect, before every try
StartAutoConnect(c) ==
    /\ At(c, "loop")
    /\ \/ vpn.active /\ call' = Finished(c, "connected")
       \/ May("load") /\ call' = Finished(c, "error")
       \/ ~vpn.active /\ call' = To(c, "try")
    /\ UNCHANGED <<saved, authMu, exec, vpn, nc, oauth, events, revoked>>

\* A context that nobody has the cancel function of.
NewContext == CHOOSE x \in Contexts : x # exec.ctx /\ \A d \in Callers : call[d].fun # x

\* The lock is not tried.
TryExecuteWithMutant(c) ==
    /\ At(c, "try")
    /\ exec' = [busy |-> c, ctx |-> NewContext, cancelled |-> FALSE, asked |-> FALSE]
    /\ call' = To(c, "auth")
    /\ UNCHANGED <<saved, authMu, vpn, nc, oauth, events, revoked>>

\* TryExecuteWith, and Connect that says there is nothing to do when it fails
TryExecuteWith(c) ==
    /\ At(c, "try")
    /\ IF exec.busy # None
       THEN call' = Finished(c, "nothing to do") /\ UNCHANGED exec
       ELSE /\ exec' = [busy |-> c, ctx |-> NewContext, cancelled |-> FALSE, asked |-> FALSE]
            /\ call' = To(c, "auth")
    /\ UNCHANGED <<saved, authMu, vpn, nc, oauth, events, revoked>>

\* The configuration is loaded, one that cannot be is used as it is; a server is
\* selected; the attempt is published.
selectServer(c) ==
    /\ At(c, "select")
    /\ \E id \in {saved.id} \cup (IF May("load") THEN {None} ELSE {}) :
         \/ /\ call' = [call EXCEPT ![c].pc = "start", ![c].id = id]
            /\ events' = [events EXCEPT !.connect = "attempt"]
            /\ UNCHANGED saved
         \/ /\ id \in revoked
            /\ saved' = Logout(saved, id) /\ call' = To(c, "not") /\ UNCHANGED events
         \/ /\ \E end \in {"error", "dedicated ip"} : call' = To(c, end)
            /\ UNCHANGED <<saved, events>>
    /\ UNCHANGED <<authMu, exec, vpn, nc, oauth, revoked>>

\* netw.Start under its mutex, until it is up, fails, is cancelled or has taken
\* thirty seconds
Start(c) ==
    /\ At(c, "start") /\ vpn.mu = None
    /\ vpn' = [vpn EXCEPT !.mu = c]
    /\ call' = To(c, "starting")
    /\ UNCHANGED <<saved, authMu, exec, nc, oauth, events, revoked>>

\* The event of a cancelled attempt is forgotten.
StartEndsMutant(c) ==
    /\ At(c, "starting")
    /\ \E end \in {"connected", "failure", "disconnected"} :
         /\ end = "disconnected" => exec.cancelled
         /\ vpn' = [mu |-> None, active |-> end = "connected", user |-> IF end = "connected" THEN call[c].id ELSE None]
         /\ events' = IF end = "disconnected" THEN events ELSE [events EXCEPT !.connect = end]
         /\ call' = To(c, end)
    /\ UNCHANGED <<saved, authMu, exec, nc, oauth, revoked>>

StartEnds(c) ==
    /\ At(c, "starting")
    /\ \E end \in {"connected", "failure", "disconnected"} :
         /\ end = "disconnected" => exec.cancelled
         /\ vpn' = [mu |-> None, active |-> end = "connected", user |-> IF end = "connected" THEN call[c].id ELSE None]
         /\ events' = [events EXCEPT !.connect = end]
         /\ call' = To(c, end)
    /\ UNCHANGED <<saved, authMu, exec, nc, oauth, revoked>>

\* The end of a connection: the context is given up.  The job tries again after
\* an RPC error or a failure, and takes every other answer for success.
Answers == {"connected", "failure", "disconnected", "not", "renew error", "account expired", "error", "dedicated ip"}
ConnectReturns(c) ==
    /\ call[c].op \in {"Connect", "Auto"} /\ call[c].pc \in Answers
    /\ exec' = [exec EXCEPT !.busy = None, !.cancelled = FALSE, !.asked = FALSE]
    /\ call' = IF call[c].op = "Auto" /\ call[c].pc \in {"failure", "not", "error"} THEN To(c, "loop")
               ELSE Finished(c, call[c].pc)
    /\ UNCHANGED <<saved, authMu, vpn, nc, oauth, events, revoked>>

\* ConnectCancel takes the function of the connection there is ...
CancelFunc(c) ==
    /\ At(c, "fetch")
    /\ IF exec.busy = None
       THEN call' = Finished(c, "nothing to do") /\ UNCHANGED exec
       ELSE /\ call' = [call EXCEPT ![c].pc = "cancel", ![c].fun = exec.ctx]
            /\ exec' = [exec EXCEPT !.asked = TRUE]
    /\ UNCHANGED <<saved, authMu, vpn, nc, oauth, events, revoked>>

\* The function is that of the context, whoever has it.
ConnectCancelMutant(c) ==
    /\ At(c, "cancel")
    /\ exec' = [exec EXCEPT !.cancelled = exec.busy # None]
    /\ call' = Finished(c, "success")
    /\ UNCHANGED <<saved, authMu, vpn, nc, oauth, events, revoked>>

\* ... and calls it; by then another connection may have begun.
ConnectCancel(c) ==
    /\ At(c, "cancel")
    /\ exec' = [exec EXCEPT !.cancelled = @ \/ (exec.busy # None /\ exec.ctx = call[c].fun)]
    /\ call' = Finished(c, "success")
    /\ UNCHANGED <<saved, authMu, vpn, nc, oauth, events, revoked>>

\* Disconnect
Disconnect(c) ==
    /\ At(c, "active") /\ vpn.mu = None
    /\ call' = IF vpn.active THEN To(c, "stop") ELSE Finished(c, "not running")
    /\ UNCHANGED <<saved, authMu, exec, vpn, nc, oauth, events, revoked>>

\* netw.Stop: of Disconnect, and of Logout, which goes on
Stop(c) ==
    /\ At(c, "stop") /\ vpn.mu = None
    /\ \/ /\ vpn' = [vpn EXCEPT !.active = FALSE, !.user = None]
          /\ call' = IF call[c].op = "Logout" THEN To(c, "mesh") ELSE Finished(c, "disconnected")
       \/ /\ May("netw") /\ vpn.active /\ UNCHANGED vpn
          /\ call' = IF call[c].op = "Logout" THEN To(c, "failure") ELSE Finished(c, "error")
    /\ UNCHANGED <<saved, authMu, exec, nc, oauth, events, revoked>>

-----------------------------------------------------------------------------
(* Logging in and out.                                                      *)

\* Another user's data is saved and becomes the current one.
LoginSaves(c, u, isOAuth) ==
    saved' = [id |-> u, tokens |-> (u :> [NoData EXCEPT !.fresh = TRUE, !.isOAuth = isOAuth, !.creds = TRUE]) @@ saved.tokens]

\* loginCommon: the attempt is published, the credentials are fetched
LoginWithToken(c) ==
    /\ At(c, "credentials")
    /\ \/ call' = To(c, "save") /\ events' = [events EXCEPT !.login = "attempt"]
       \/ \E end \in {"no token"} \cup (IF May("api") THEN {"internal", "gateway"} ELSE {})
                     \cup (IF May("revoked") THEN {"token invalid"} ELSE {}) :
            call' = Finished(c, end) /\ events' = [events EXCEPT !.login = "failure"]
    /\ UNCHANGED <<saved, authMu, exec, vpn, nc, oauth, revoked>>

\* The data is saved, whether or not someone else has logged in meanwhile.
LoginEnds(c) ==
    /\ At(c, "save") /\ call[c].op \in {"LoginWithToken", "LoginOAuth2Callback"}
    /\ \/ /\ \E u \in Users \ revoked : LoginSaves(c, u, call[c].op = "LoginOAuth2Callback")
          /\ call' = To(c, "mfa") /\ UNCHANGED events
       \/ /\ May("save") \/ (May("load") /\ call[c].op = "LoginWithToken")
          /\ UNCHANGED saved
          /\ events' = [events EXCEPT !.login = "failure"]
          /\ call' = Finished(c, "config error")
    /\ UNCHANGED <<authMu, exec, vpn, nc, oauth, revoked>>

\* IsMFAEnabled takes the checker's mutex; then the notification client is started
\* in a goroutine of its own.
IsMFAEnabled(c) ==
    /\ At(c, "mfa") /\ authMu = None
    /\ nc' = [nc EXCEPT !.starting = 1]
    /\ events' = [events EXCEPT !.login = "success"]
    /\ call' = Finished(c, "success")
    /\ UNCHANGED <<saved, authMu, exec, vpn, oauth, revoked>>

\* The verifier is replaced when the attempt was begun.
LoginOAuth2Mutant(c) ==
    /\ At(c, "begin") /\ oauth.begun < MaxAttempts
    /\ \E ok \in {TRUE} \cup (IF May("api") THEN {FALSE} ELSE {}) :
         LET n == oauth.begun + 1
         IN /\ oauth' = [oauth EXCEPT !.begun = n, !.verifier = IF ok THEN n ELSE @, !.attempt = IF ok THEN n ELSE @]
            /\ call' = Finished(c, IF ok THEN "url" ELSE "error")
    /\ events' = [events EXCEPT !.login = "attempt"]
    /\ UNCHANGED <<saved, authMu, exec, vpn, nc, revoked>>

\* LoginOAuth2: OAuth2.Login makes a new verifier and asks for an attempt; one
\* that fails leaves the attempt that was begun before with the new verifier.
LoginOAuth2(c) ==
    /\ At(c, "begin") /\ oauth.begun < MaxAttempts
    /\ \E ok \in {TRUE} \cup (IF May("api") THEN {FALSE} ELSE {}) :
         LET n == oauth.begun + 1
         IN /\ oauth' = [oauth EXCEPT !.begun = n, !.verifier = n, !.attempt = IF ok THEN n ELSE @]
            /\ call' = Finished(c, IF ok THEN "url" ELSE "error")
    /\ events' = [events EXCEPT !.login = "attempt"]
    /\ UNCHANGED <<saved, authMu, exec, vpn, nc, revoked>>

\* LoginOAuth2Callback with the exchange token of one of the links: the API
\* gives a token for it only if attempt, verifier and link are of a kind.
Token(c) ==
    /\ At(c, "token")
    /\ \/ \E link \in 1 .. oauth.begun :
            /\ link = oauth.attempt /\ link = oauth.verifier
            /\ oauth' = [oauth EXCEPT !.accepted = link]
            /\ call' = To(c, "save") /\ UNCHANGED events
       \/ /\ call' = Finished(c, "error")
          /\ events' = [events EXCEPT !.login = "failure"]
          /\ UNCHANGED oauth
    /\ UNCHANGED <<saved, authMu, exec, vpn, nc, revoked>>

\* StartNC
StartNC ==
    /\ nc.starting > 0
    /\ nc' = [started |-> TRUE, starting |-> 0]
    /\ UNCHANGED <<saved, authMu, exec, vpn, oauth, events, revoked, call>>

\* The VPN is left as it is.
LogoutLoadsMutant(c) ==
    /\ At(c, "load")
    /\ call' = [call EXCEPT ![c].pc = "mesh", ![c].id = IF saved.id \in DOMAIN saved.tokens THEN saved.id ELSE None]
    /\ events' = [events EXCEPT !.logout = "attempt"]
    /\ UNCHANGED <<saved, authMu, exec, vpn, nc, oauth, revoked>>

\* Logout publishes, and loads.
LogoutLoads(c) ==
    /\ At(c, "load")
    /\ call' \in {[call EXCEPT ![c].pc = "stop", ![c].id = IF saved.id \in DOMAIN saved.tokens THEN saved.id ELSE None]}
                 \cup (IF May("load") THEN {To(c, "failure")} ELSE {})
    /\ events' = [events EXCEPT !.logout = "attempt"]
    /\ UNCHANGED <<saved, authMu, exec, vpn, nc, oauth, revoked>>

\* UnSetMesh and the end of the notification client; a user who had no data when
\* it was loaded is not logged out.
LogoutStops(c) ==
    /\ At(c, "mesh")
    /\ \/ /\ nc' = [nc EXCEPT !.started = FALSE]
          /\ call' = To(c, IF call[c].id = None THEN "failure" ELSE "delete")
       \/ May("netw") /\ call' = To(c, "failure") /\ UNCHANGED nc
    /\ UNCHANGED <<saved, authMu, exec, vpn, oauth, events, revoked>>

\* DeleteToken and Logout of the API, unless the token is to be kept
LogoutDeletes(c) ==
    /\ At(c, "delete")
    /\ call' \in {To(c, "forget")} \cup (IF May("api") THEN {To(c, "failure")} ELSE {})
    /\ UNCHANGED <<saved, authMu, exec, vpn, nc, oauth, events, revoked>>

\* The data is left.
LogoutForgetsMutant(c) ==
    /\ At(c, "forget")
    /\ saved' = [saved EXCEPT !.id = None]
    /\ events' = [events EXCEPT !.logout = "success"]
    /\ call' = Finished(c, "success")
    /\ UNCHANGED <<authMu, exec, vpn, nc, oauth, revoked>>

\* The user who is current by now is forgotten.
LogoutForgets(c) ==
    /\ At(c, "forget")
    /\ \/ /\ saved' = [Logout(saved, saved.id) EXCEPT !.id = None]
          /\ events' = [events EXCEPT !.logout = "success"]
          /\ call' = Finished(c, "success")
       \/ /\ May("save") /\ UNCHANGED saved
          /\ events' = [events EXCEPT !.logout = "failure"]
          /\ call' = Finished(c, "error")
    /\ UNCHANGED <<authMu, exec, vpn, nc, oauth, revoked>>

LogoutFails(c) ==
    /\ At(c, "failure") /\ call[c].op = "Logout"
    /\ events' = [events EXCEPT !.logout = "failure"]
    /\ call' = Finished(c, "failure")
    /\ UNCHANGED <<saved, authMu, exec, vpn, nc, oauth, revoked>>

\* AccountInfo asks for the services ...
GetDedicatedIPServices(c) ==
    /\ At(c, "services") /\ authMu = None
    /\ \E a \in Api(saved.id) : call' = To(c, IF a = "ok" THEN "user" ELSE "renew error")
    /\ UNCHANGED <<saved, authMu, exec, vpn, nc, oauth, events, revoked>>

\* ... for the status of MFA and for the user; an account that is refused by now is logged out.
AccountInfo(c) ==
    /\ At(c, "user") /\ authMu = None
    /\ \E a \in Api(saved.id) :
         /\ saved' = IF a = "refused" THEN Logout(saved, saved.id) ELSE saved
         /\ call' = Finished(c, IF a = "refused" THEN "not" ELSE IF a = "error" THEN "error" ELSE "success")
    /\ UNCHANGED <<authMu, exec, vpn, nc, oauth, events, revoked>>

\* The other handlers answer as soon as they know whether the user is logged in.
Return(c) ==
    /\ \/ call[c].op \notin {"Connect", "Auto"} /\ call[c].pc \in {"not", "already", "yes", "no", "info"}
       \/ call[c].op = "AccountInfo" /\ call[c].pc \in {"renew error", "account expired"}
    /\ call' = Finished(c, call[c].pc)
    /\ UNCHANGED <<saved, authMu, exec, vpn, nc, oauth, events, revoked>>

-----------------------------------------------------------------------------
(* Time and the service.                                                    *)

Expire ==
    /\ May("time")
    /\ \E u \in DOMAIN saved.tokens :
         \/ saved.tokens[u].fresh /\ saved.tokens[u].isOAuth /\ saved' = [saved EXCEPT !.tokens[u].fresh = FALSE]
         \/ saved.tokens[u].paid /\ saved' = [saved EXCEPT !.tokens[u].paid = FALSE]
    /\ UNCHANGED <<authMu, exec, vpn, nc, oauth, events, revoked, call>>

Revoke ==
    /\ May("revoked")
    /\ \E u \in Users \ revoked : revoked' = revoked \cup {u}
    /\ UNCHANGED <<saved, authMu, exec, vpn, nc, oauth, events, call>>

Step(c) ==
    \/ IsLoggedIn(c) \/ IsLoggedInRenews(c) \/ IsVPNExpired(c) \/ StartAutoConnect(c) \/ TryExecuteWith(c)
    \/ selectServer(c) \/ Start(c) \/ StartEnds(c) \/ ConnectReturns(c) \/ CancelFunc(c) \/ ConnectCancel(c)
    \/ Disconnect(c) \/ Stop(c) \/ LoginWithToken(c) \/ LoginEnds(c) \/ IsMFAEnabled(c) \/ LoginOAuth2(c) \/ Token(c)
    \/ LogoutLoads(c) \/ LogoutStops(c) \/ LogoutDeletes(c) \/ LogoutForgets(c) \/ LogoutFails(c)
    \/ GetDedicatedIPServices(c) \/ AccountInfo(c) \/ Return(c)

Next == (\E c \in Callers : Issue(c) \/ Step(c)) \/ StartNC \/ Expire \/ Revoke

Spec == Init /\ [][Next]_vars

\* Every handler goes on.  One that waits for a mutex gets it even when others
\* take it again and again: sync.Mutex hands over in order once a goroutine has
\* waited for a millisecond.
Fairness == \A c \in Callers : SF_vars(Step(c))
FairSpec == Spec /\ Fairness

-----------------------------------------------------------------------------
(* Properties.                                                              *)

SessionTypeOK ==
    /\ saved.id \in Users \cup {None} /\ DOMAIN saved.tokens \subseteq Users
    /\ \A u \in DOMAIN saved.tokens : saved.tokens[u] \in TokenData
    /\ vpn.mu \in Callers \cup {None} /\ exec.ctx \in Contexts \cup {None}

Connecting(c) == call[c].op \in {"Connect", "Auto"} /\ call[c].pc \notin {"idle", "try", "loop"}

\* Whoever connects has the connection context to itself, and it is free when
\* nobody does: a second Connect is told that there is nothing to do.
OneConnection ==
    \A c \in Callers : Connecting(c) <=> exec.busy = c

\* A connection is cancelled only by a request that was made while it lasted: a
\* ConnectCancel that was slow to call the function it took does not cancel the
\* next connection.
CancelsItsOwn == exec.cancelled => exec.asked

\* An attempt at a connection that was announced is followed by its outcome
\* before there is room for another.
AttemptIsSettled == exec.busy = None => events.connect # "attempt"

\* OAuth2.Login and Token: a login in the browser is completed only by the link of
\* the last attempt that was begun.  An attempt that the API refused closes the links
\* of the earlier ones too, though the program keeps the earlier attempt: its
\* verifier is gone.
LastAttemptLogsIn ==
    \A c \in Callers : At(c, "token") /\ call'[c].pc = "save" => oauth'.accepted = oauth.begun

\* LoginEnds and LogoutForgets, when one handler runs at a time: the configuration
\* has no data of anyone but the current user.  With several users this takes an API
\* that answers: one whose renewal failed reads as logged out, and another may then
\* log in beside them.
OneUser == DOMAIN saved.tokens \subseteq {saved.id}

\* Logout, when one handler runs at a time: once it has removed the ID of the user
\* the VPN is down.  (A refused account is logged out without it: the ID and the VPN stay.)
LoggedOutIsDown == (\A c \in Callers : At(c, "idle")) /\ saved.id = None => ~vpn.active

\* Under the assumptions of OneUser the VPN that is up is the current user's.
ConnectedAsCurrent == (\A c \in Callers : At(c, "idle")) /\ vpn.active => vpn.user = saved.id

\* A user whose token had expired and whose account was closed before the command
\* was given does not connect, although IsLoggedIn says yes once more when it
\* forgets them.
ClosedDoesNotConnect == \A c \in Callers : call[c].doomed => ~At(c, "starting")

\* Every call is answered: no two handlers wait for each other.
Answered == \A c \in Callers : []<>(At(c, "idle") \/ At(c, "loop"))
=============================================================================
