------------------------------ MODULE MCSession ------------------------------
(***************************************************************************)
(* What a user does with the daemon over a session: logging in and out,    *)
(* connecting and cancelling, the notification service, file sharing, the  *)
(* the commands of file sharing, the choice of a server and the API; one scenario per behaviour.*)
(***************************************************************************)
EXTENDS Naturals, Sequences, TLC

VARIABLES
    scenario,
    saved, authMu, exec, vpn, nc, oauth, events, revoked, handlers,
    ncClient, loop, mqtt, pending, ncData, handled, ncCalls,
    drop, queue, handler, live, subs, nm, peer, main, shareCalls, asked,
    fleet, memory, disk, release, tunnel, pick,
    apiMu, cdnMu, rot, quic, h1, resolver, fw, notify, apiPast, apiCalls,
    cliTransfer, cliWatcher, cliStream, cliCmd, cliLoop

sessionVars == <<saved, authMu, exec, vpn, nc, oauth, events, revoked, handlers>>
ncVars == <<ncClient, loop, mqtt, pending, ncData, handled, ncCalls>>
shareVars == <<drop, queue, handler, live, subs, nm, peer, main, shareCalls, asked>>
serversVars == <<fleet, memory, disk, release, tunnel, pick>>
apiVars == <<apiMu, cdnMu, rot, quic, h1, resolver, fw, notify, apiPast, apiCalls>>
cliVars == <<cliTransfer, cliWatcher, cliStream, cliCmd, cliLoop>>
vars == <<scenario, sessionVars, ncVars, shareVars, serversVars, apiVars, cliVars>>

ServerList ==
    LET Srv(country, city, groups, technologies, virtual) ==
            [country |-> country, city |-> city, groups |-> groups, technologies |-> technologies, virtual |-> virtual]
    IN [de1 |-> Srv("de", "berlin", {"standard", "p2p"}, {"wg", "udp", "tcp"}, FALSE),
        de2 |-> Srv("de", "berlin", {"dedicated"}, {"wg", "udp", "tcp"}, FALSE),
        de3 |-> Srv("de", "berlin", {"obfuscated"}, {"udp xor", "tcp xor"}, FALSE),
        de4 |-> Srv("de", "berlin", {"dedicated"}, {"wg", "udp", "tcp"}, FALSE),
        de5 |-> Srv("de", "berlin", {"standard", "obfuscated"}, {"udp xor"}, FALSE),
        de6 |-> Srv("de", "berlin", {"standard"}, {"wg", "udp", "udp xor", "tcp xor"}, FALSE),
        in1 |-> Srv("in", "mumbai", {"standard"}, {"wg", "udp"}, TRUE)]
ServerTags ==
    {[kind |-> "none"], [kind |-> "other"], [kind |-> "country", country |-> "de"], [kind |-> "city", city |-> "mumbai"],
     [kind |-> "place", country |-> "de", city |-> "berlin"]}
    \cup [kind : {"name"}, name : {"de2", "de5", "in1"}] \cup [kind : {"group"}, group : {"p2p", "dedicated"}]
ServerSettings ==
    LET Set(t, p, o, v) == [technology |-> t, protocol |-> p, obfuscate |-> o, virtual |-> v]
    IN {Set("nordlynx", "udp", FALSE, FALSE), Set("openvpn", "tcp", FALSE, TRUE), Set("openvpn", "udp", FALSE, TRUE), Set("openvpn", "udp", TRUE, TRUE)}

Failures == INSTANCE Session WITH Users <- {"u1"}, Contexts <- {"x1", "x2", "x3", "x4"}, MaxAttempts <- 2,
    Callers <- {"c1"}, Ops <- {"Connect", "Disconnect", "LoginWithToken", "Logout", "AccountInfo", "Auto"},
    Faults <- {"api", "netw", "save", "load", "time"}, call <- handlers
Connects == INSTANCE Session WITH Users <- {"u1"}, Contexts <- {"x1", "x2", "x3", "x4"}, MaxAttempts <- 2,
    Callers <- {"c1", "c2"}, Ops <- {"Connect", "ConnectCancel"}, Faults <- {}, call <- handlers
Accounts == INSTANCE Session WITH Users <- {"u1"}, Contexts <- {"x1", "x2", "x3", "x4"}, MaxAttempts <- 2,
    Callers <- {"c1"},
    Ops <- {"Connect", "LoginOAuth2", "LoginOAuth2Callback", "Logout", "AccountInfo", "TokenInfo", "IsLoggedIn"},
    Faults <- {"revoked", "time"}, call <- handlers
TwoUsers == INSTANCE Session WITH Users <- {"u1", "u2"}, Contexts <- {"x1", "x2", "x3", "x4"},
    MaxAttempts <- 2, Callers <- {"c1"}, Ops <- {"Connect", "Disconnect", "LoginWithToken", "Logout"},
    Faults <- {}, call <- handlers
Browser == INSTANCE Session WITH Users <- {"u1"}, Contexts <- {"x1", "x2", "x3", "x4"}, MaxAttempts <- 2,
    Callers <- {"c1"}, Ops <- {"LoginOAuth2", "LoginOAuth2Callback", "Logout"}, Faults <- {"api"},
    call <- handlers
Notifications == INSTANCE Nc WITH Callers <- {"c1"}, Ops <- {"Start", "Stop", "Revoke"}, Mine <- {"m1"},
    Others <- {"m2"}, Faults <- {"api", "save", "load", "broker", "lost"}, client <- ncClient, call <- ncCalls
Incoming == INSTANCE Fileshare WITH Transfers <- {"t1"}, Clients <- {"c1"}, TransferFileLimit <- 2,
    MaxEvents <- 2, PathPrefixes <- {<<"f2", "f1">>}, Files <- {"f1", "f2"}, Ops <- {"Accept", "Cancel"},
    Faults <- {"fail"}, call <- shareCalls
Outgoing == INSTANCE Fileshare WITH Transfers <- {"t1"}, Clients <- {"c1"}, TransferFileLimit <- 2,
    MaxEvents <- 2, PathPrefixes <- {}, Files <- {"f1", "f2"}, Ops <- {"Send"}, Faults <- {"fail"},
    call <- shareCalls
TransferFailures == INSTANCE Fileshare WITH Transfers <- {"t1"}, Clients <- {"c1"}, TransferFileLimit <- 2,
    MaxEvents <- 1, PathPrefixes <- {}, Files <- {"f1"}, Ops <- {"Accept", "Send", "Cancel", "Stop"},
    Faults <- {"mesh", "storage", "lib", "fail", "stop"}, call <- shareCalls
ButtonPresses == INSTANCE Fileshare WITH Transfers <- {"t1"}, Clients <- {"c1"}, TransferFileLimit <- 2,
    MaxEvents <- 2, PathPrefixes <- {}, Files <- {"f1"},
    Ops <- {"NotifyAccept", "NotifyCancel", "NotifyClose", "SetNotifications", "CancelFile", "PurgeTransfersUntil"},
    Faults <- {"mesh", "paused", "storage", "lib"}, call <- shareCalls
Selection == INSTANCE Servers WITH Server <- ServerList, Settings <- ServerSettings,
    Fleets <- {{"de1", "de2", "de3", "in1"}, {"de1", "de2"}, {"de2", "de4", "de5", "de6"}}, Tags <- ServerTags,
    GroupFlags <- {"none", "p2p", "dedicated"}, Services <- {{}, {"no server"}, {"de2", "no server"}},
    Versions <- {1}, Faults <- {"api"}, vpn <- tunnel
ServerLists == INSTANCE Servers WITH Server <- ServerList, Settings <- ServerSettings,
    Fleets <- {{"de1"}, {"de1", "in1"}}, Tags <- {}, GroupFlags <- {}, Services <- {}, Versions <- {1, 2},
    Faults <- {"api", "disk", "crash"}, vpn <- tunnel
InsightsJob == INSTANCE Servers WITH Server <- ServerList, Settings <- ServerSettings, Fleets <- {{"de1"}},
    Tags <- {}, GroupFlags <- {}, Services <- {}, Versions <- {1}, Faults <- {"api", "disk", "crash", "vpn"},
    vpn <- tunnel
Transports == INSTANCE Api WITH Callers <- {"c1", "c2"}, Ops <- {"Insights", "Register"}, Faults <- {"h3"},
    MaxFailures <- 2, MaxConnects <- 0, MaxRevivals <- 0, mu <- apiMu, past <- apiPast, call <- apiCalls
Reconnects == INSTANCE Api WITH Callers <- {"c1", "c2"}, Ops <- {"Insights"}, Faults <- {"h3"},
    MaxFailures <- 1, MaxConnects <- 1, MaxRevivals <- 0, mu <- apiMu, past <- apiPast, call <- apiCalls
Lookups == INSTANCE Api WITH Callers <- {"c1", "c2"}, Ops <- {"Insights", "Update"}, Faults <- {"h1", "dns"},
    MaxFailures <- 0, MaxConnects <- 1, MaxRevivals <- 1, mu <- apiMu, past <- apiPast, call <- apiCalls
ApiMethods == INSTANCE Api WITH Callers <- {"c1"}, Ops <- DOMAIN Transports!Methods,
    Faults <- {"args", "server"}, MaxFailures <- 0, MaxConnects <- 0, MaxRevivals <- 0, mu <- apiMu,
    past <- apiPast, call <- apiCalls
ApiFailures == INSTANCE Api WITH Callers <- {"c1"}, Ops <- {"Plans", "Register", "ConfigTemplateHead"},
    Faults <- {"h3", "h1", "dns", "fw"}, MaxFailures <- 1, MaxConnects <- 1, MaxRevivals <- 1, mu <- apiMu,
    past <- apiPast, call <- apiCalls
ShareCommands == INSTANCE CliFileshare WITH Terminals <- {"a", "b"}, MaxMessages <- 2, MaxListed <- 5,
    ChunkSize <- 2, Commands <- {"send", "cancel", "cancel file", "list"}, Faults <- {},
    transfer <- cliTransfer, watcher <- cliWatcher, stream <- cliStream, cmd <- cliCmd, loop <- cliLoop
CommandFailures == INSTANCE CliFileshare WITH Terminals <- {"a"}, MaxMessages <- 2, MaxListed <- 5,
    ChunkSize <- 2, Commands <- {"send", "accept", "cancel", "cancel file", "clear", "list"},
    Faults <- {"rpc", "answer", "eof", "args"}, transfer <- cliTransfer, watcher <- cliWatcher,
    stream <- cliStream, cmd <- cliCmd, loop <- cliLoop

Init ==
    /\ scenario \in {"failures", "connects", "accounts", "two users", "browser", "notifications", "incoming",
                    "outgoing", "transfer failures", "buttons", "selection", "server lists", "insights",
                    "transports", "reconnects", "lookups", "methods", "api failures", "commands",
                    "command failures"}
    /\ (IF scenario = "connects" THEN Connects!Init ELSE IF scenario = "accounts" THEN Accounts!Init ELSE IF scenario = "two users" THEN TwoUsers!Init ELSE IF scenario = "browser" THEN Browser!Init ELSE Failures!Init)
    /\ scenario \in {"failures", "connects", "accounts", "two users", "browser"} \/ saved.id = "none"
    /\ Notifications!Init
    /\ (IF scenario = "outgoing" THEN Outgoing!Init ELSE IF scenario = "transfer failures" THEN TransferFailures!Init ELSE IF scenario = "buttons" THEN ButtonPresses!Init ELSE Incoming!Init)
    /\ scenario \in {"incoming", "outgoing", "transfer failures", "buttons"} \/ (peer = [allowed |-> TRUE, always |-> TRUE] /\ ~nm.on)
    /\ (IF scenario = "server lists" THEN ServerLists!Init ELSE IF scenario = "insights" THEN InsightsJob!Init ELSE Selection!Init)
    /\ scenario \in {"selection", "server lists", "insights"} \/ fleet = {"de1", "de2"}
    /\ (IF scenario = "reconnects" THEN Reconnects!Init ELSE IF scenario = "lookups" THEN Lookups!Init ELSE IF scenario = "methods" THEN ApiMethods!Init ELSE IF scenario = "api failures" THEN ApiFailures!Init ELSE Transports!Init)
    /\ (IF scenario = "command failures" THEN CommandFailures!Init ELSE ShareCommands!Init)

Next ==
    \/ scenario = "failures" /\ Failures!Next /\ UNCHANGED <<scenario, ncVars, shareVars, serversVars, apiVars, cliVars>>
    \/ scenario = "connects" /\ Connects!Next /\ UNCHANGED <<scenario, ncVars, shareVars, serversVars, apiVars, cliVars>>
    \/ scenario = "accounts" /\ Accounts!Next /\ UNCHANGED <<scenario, ncVars, shareVars, serversVars, apiVars, cliVars>>
    \/ scenario = "two users" /\ TwoUsers!Next /\ UNCHANGED <<scenario, ncVars, shareVars, serversVars, apiVars, cliVars>>
    \/ scenario = "browser" /\ Browser!Next /\ UNCHANGED <<scenario, ncVars, shareVars, serversVars, apiVars, cliVars>>
    \/ scenario = "notifications" /\ Notifications!Next /\ UNCHANGED <<scenario, sessionVars, shareVars, serversVars, apiVars, cliVars>>
    \/ scenario = "incoming" /\ Incoming!Next /\ UNCHANGED <<scenario, sessionVars, ncVars, serversVars, apiVars, cliVars>>
    \/ scenario = "outgoing" /\ Outgoing!Next /\ UNCHANGED <<scenario, sessionVars, ncVars, serversVars, apiVars, cliVars>>
    \/ scenario = "transfer failures" /\ TransferFailures!Next /\ UNCHANGED <<scenario, sessionVars, ncVars, serversVars, apiVars, cliVars>>
    \/ scenario = "buttons" /\ ButtonPresses!Next /\ UNCHANGED <<scenario, sessionVars, ncVars, serversVars, apiVars, cliVars>>
    \/ scenario = "selection" /\ Selection!Next /\ UNCHANGED <<scenario, sessionVars, ncVars, shareVars, apiVars, cliVars>>
    \/ scenario = "server lists" /\ ServerLists!Next /\ UNCHANGED <<scenario, sessionVars, ncVars, shareVars, apiVars, cliVars>>
    \/ scenario = "insights" /\ InsightsJob!Next /\ UNCHANGED <<scenario, sessionVars, ncVars, shareVars, apiVars, cliVars>>
    \/ scenario = "transports" /\ Transports!Next /\ UNCHANGED <<scenario, sessionVars, ncVars, shareVars, serversVars, cliVars>>
    \/ scenario = "reconnects" /\ Reconnects!Next /\ UNCHANGED <<scenario, sessionVars, ncVars, shareVars, serversVars, cliVars>>
    \/ scenario = "lookups" /\ Lookups!Next /\ UNCHANGED <<scenario, sessionVars, ncVars, shareVars, serversVars, cliVars>>
    \/ scenario = "methods" /\ ApiMethods!Next /\ UNCHANGED <<scenario, sessionVars, ncVars, shareVars, serversVars, cliVars>>
    \/ scenario = "api failures" /\ ApiFailures!Next /\ UNCHANGED <<scenario, sessionVars, ncVars, shareVars, serversVars, cliVars>>
    \/ scenario = "commands" /\ ShareCommands!Next /\ UNCHANGED <<scenario, sessionVars, ncVars, shareVars, serversVars, apiVars>>
    \/ scenario = "command failures" /\ CommandFailures!Next /\ UNCHANGED <<scenario, sessionVars, ncVars, shareVars, serversVars, apiVars>>

Spec == Init /\ [][Next]_vars

OfSession == {"failures", "connects", "accounts", "two users", "browser"}
OneAtATime == {"failures", "accounts", "two users"}
OfShare == {"incoming", "outgoing", "transfer failures", "buttons"}

\* Session: one attempt to connect at a time, which ConnectCancel cancels and which ends in an
\* event.  When handlers run one at a time, the data saved is the current user's (of one user
\* with failing calls, of two without), a Logout that removed the user disconnected them, and
\* one whose account is closed does not connect.
OneUserConnects ==
    /\ scenario = "connects" => Connects!SessionTypeOK /\ Connects!OneConnection /\ Connects!CancelsItsOwn
    /\ scenario \in OneAtATime \cup {"browser"} => TwoUsers!SessionTypeOK
    /\ scenario \in OfSession => Connects!AttemptIsSettled
    /\ scenario \in OneAtATime => Failures!OneUser /\ Failures!LoggedOutIsDown
    /\ scenario = "two users" => TwoUsers!ConnectedAsCurrent
    /\ scenario = "accounts" => Accounts!ClosedDoesNotConnect

\* Nc: nothing is left of a client that was stopped, and what was acknowledged is published
\* or about to be.
QuietWhenStopped ==
    scenario = "notifications" => Notifications!NcTypeOK /\ Notifications!QuietWhenStopped /\ Notifications!AckedIsPublished

\* Fileshare: only what was accepted is received, the progress is the sum of the files', what
\* is listed is what is stored, and a transfer that was finalized is forgotten.  CliFileshare: a
\* command that waits succeeds when its transfer has ended, says once how, and lists them all.
TransfersAsStored ==
    /\ scenario \in {"incoming", "outgoing"} =>
          Incoming!FileshareTypeOK /\ Incoming!ProgressAdds /\ Incoming!ReportedAsStored /\ Incoming!EndedIsForgotten
    /\ scenario \in {"transfer failures", "buttons"} =>
          ButtonPresses!FileshareTypeOK /\ ButtonPresses!AcceptedOnly /\ ButtonPresses!ProgressAdds
    /\ scenario = "incoming" => Incoming!AcceptedOnly /\ Incoming!DownloadedIsFinalized
    /\ scenario = "commands" =>
          /\ ShareCommands!CliFileshareTypeOK /\ ShareCommands!ToldOnce
          /\ ShareCommands!SucceedsWhenEnded /\ ShareCommands!ListedInFull
    /\ scenario = "command failures" =>
          CommandFailures!CliFileshareTypeOK /\ CommandFailures!ToldOnce /\ CommandFailures!ListedInFull

\* Servers: the server that is selected suits the settings, the user's services and what was
\* asked for, one is picked unless all there are were deleted, what is listed can be named, and the jobs load what is valid and newer.
SelectedSuits ==
    /\ scenario = "selection" =>
          /\ Selection!ServersTypeOK /\ Selection!SelectedSuits /\ Selection!PanicsAmongDedicated /\ Selection!VirtualWhenAllowed
          /\ Selection!DedicatedIsOwn /\ Selection!AsAsked
          /\ pick.result = "none" => Selection!ListedIsFound
    /\ scenario = "server lists" => ServerLists!ServersTypeOK /\ ServerLists!ValidIsLoaded /\ ServerLists!NewerIsNewer
    /\ scenario = "insights" => ServerLists!ServersTypeOK /\ InsightsJob!LocationIsHome

\* Api: a request with a body is carried out at most once unless net/http rewinds it, a QUIC
\* transport is recreated at most once for all that failed on it and never under a request,
\* and the firewall is open for DNS during a lookup only.
RequestsCarriedOut ==
    /\ scenario = "transports" => Transports!TypeOK /\ Transports!ApiKept
    /\ scenario = "reconnects" => Reconnects!TypeOK /\ Reconnects!ApiKept
    /\ scenario = "lookups" => Lookups!TypeOK /\ Lookups!ApiKept
    /\ scenario = "methods" => ApiMethods!TypeOK /\ ApiMethods!ApiKept
    /\ scenario = "api failures" => ApiFailures!TypeOK /\ ApiFailures!ApiKept

\* Session: a login is completed only by the link of the last attempt.  Nc: credentials are
\* revoked only when nothing uses them.  Fileshare: a transfer whose files are not paused is
\* finalized only when they are done.
NothingTooEarly ==
    [][/\ Browser!LastAttemptLogsIn
       /\ Notifications!NotRevokedInUse
       /\ scenario = "incoming" => Incoming!FinalizesWhenDone]_vars
=============================================================================
