----------------------------- MODULE MCLiveness -----------------------------
(***************************************************************************)
(* What must eventually happen: the registry and the firewall agree, calls *)
(* are answered, what is told to stop stops, what failed is tried again.   *)
(* One scenario per behaviour.                                             *)
(***************************************************************************)
EXTENDS Meshnet

VARIABLES
    scenario,
    sessionSaved, sessionAuthMu, sessionExec, sessionVpn, sessionNc, sessionOauth, sessionEvents, sessionRevoked, sessionCall,
    ncClient, ncLoop, ncMqtt, ncPending, ncNcData, ncHandled, ncCall,
    dropDrop, dropQueue, dropHandler, dropLive, dropSubs, dropNm, dropPeer, dropMain, dropCall, dropAsked,
    userHost, userEvents, userMonitor, userProc, userMesh, userCall, userFs, userSocket, userAddress,
    lifeDisk, lifeMain, lifeNetw, lifeRules, lifeHost, lifeAuto, lifeMesh, lifeCall

sessionVars == <<sessionSaved, sessionAuthMu, sessionExec, sessionVpn, sessionNc, sessionOauth, sessionEvents,
    sessionRevoked, sessionCall>>
ncVars == <<ncClient, ncLoop, ncMqtt, ncPending, ncNcData, ncHandled, ncCall>>
dropVars == <<dropDrop, dropQueue, dropHandler, dropLive, dropSubs, dropNm, dropPeer, dropMain, dropCall,
    dropAsked>>
userVars == <<userHost, userEvents, userMonitor, userProc, userMesh, userCall, userFs, userSocket, userAddress>>
lifeVars == <<lifeDisk, lifeMain, lifeNetw, lifeRules, lifeHost, lifeAuto, lifeMesh, lifeCall>>
benchVars == <<scenario, sessionVars, ncVars, dropVars, userVars, lifeVars, vars>>

MeshOps == {"permission", "join", "enable", "disable", "refresh", "getPeers"}

Calling == INSTANCE Session WITH Users <- {"u1"}, Contexts <- {"x1", "x2", "x3", "x4"}, MaxAttempts <- 2,
    Callers <- {"s1", "s2"}, Ops <- {"Connect", "Logout", "ConnectCancel"}, Faults <- {},
    saved <- sessionSaved, authMu <- sessionAuthMu, exec <- sessionExec, vpn <- sessionVpn, nc <- sessionNc,
    oauth <- sessionOauth, events <- sessionEvents, revoked <- sessionRevoked, call <- sessionCall
Notified == INSTANCE Nc WITH Callers <- {"s1"}, Ops <- {"Start", "Stop", "Revoke"}, Mine <- {"m1"},
    Others <- {}, Faults <- {"broker", "lost"}, client <- ncClient, loop <- ncLoop, mqtt <- ncMqtt,
    pending <- ncPending, ncData <- ncNcData, handled <- ncHandled, call <- ncCall
Sharing == INSTANCE Fileshare WITH Transfers <- {"t1"}, Clients <- {"s1"}, TransferFileLimit <- 2,
    MaxEvents <- 2, PathPrefixes <- {}, Files <- {"f1"}, Ops <- {"Accept", "Cancel"}, Faults <- {"send"},
    drop <- dropDrop, queue <- dropQueue, handler <- dropHandler, live <- dropLive, subs <- dropSubs,
    nm <- dropNm, peer <- dropPeer, main <- dropMain, call <- dropCall, asked <- dropAsked
Stopping == INSTANCE Norduser WITH Users <- {"u1"}, Fids <- {"f1", "f2"}, Snap <- FALSE,
    Faults <- {"mesh", "lib", "restart"}, host <- userHost, events <- userEvents, monitor <- userMonitor,
    proc <- userProc, mesh <- userMesh, call <- userCall, fs <- userFs, socket <- userSocket,
    address <- userAddress
Living == INSTANCE Lifecycle WITH MaxDeaths <- 1, MaxTries <- 2, Faults <- {"term", "connect", "auto"},
    disk <- lifeDisk, main <- lifeMain, netw <- lifeNetw, rules <- lifeRules, host <- lifeHost,
    auto <- lifeAuto, mesh <- lifeMesh, call <- lifeCall
MeshRules == INSTANCE Meshnet WITH Grantable <- {"inbound"}, Ops <- MeshOps
MeshExit == INSTANCE Meshnet WITH Grantable <- {"routing"}, Ops <- MeshOps

BenchInit ==
    /\ scenario \in {"session", "nc", "drop", "user", "life", "meshnet rules", "meshnet exit", "meshnet"}
    /\ Init /\ (scenario \in {"meshnet", "meshnet rules", "meshnet exit"} \/ registry.peer["p1"].listed)
    /\ Calling!Init
    /\ scenario \in {"session"} \/ sessionSaved.id = "none"
    /\ Notified!Init
    /\ Sharing!Init
    /\ scenario \in {"drop"} \/ (dropPeer = [allowed |-> TRUE, always |-> TRUE] /\ ~dropNm.on)
    /\ Stopping!Init
    /\ scenario \in {"user"} \/ userHost.members = {}
    /\ Living!Init
    /\ scenario \in {"life"} \/ lifeDisk = [state |-> "ok", ks |-> FALSE, auto |-> FALSE, mesh |-> FALSE]

BenchNext ==
    \/ scenario = "meshnet" /\ Next /\ UNCHANGED <<scenario, sessionVars, ncVars, dropVars, userVars, lifeVars>>
    \/ scenario = "session" /\ Calling!Next /\ UNCHANGED <<scenario, ncVars, dropVars, userVars, lifeVars, vars>>
    \/ scenario = "nc" /\ Notified!Next /\ UNCHANGED <<scenario, sessionVars, dropVars, userVars, lifeVars, vars>>
    \/ scenario = "drop" /\ Sharing!Next /\ UNCHANGED <<scenario, sessionVars, ncVars, userVars, lifeVars, vars>>
    \/ scenario = "user" /\ Stopping!Next /\ UNCHANGED <<scenario, sessionVars, ncVars, dropVars, lifeVars, vars>>
    \/ scenario = "life" /\ Living!Next /\ UNCHANGED <<scenario, sessionVars, ncVars, dropVars, userVars, vars>>
    \/ scenario = "meshnet rules" /\ MeshRules!Next /\ UNCHANGED <<scenario, sessionVars, ncVars, dropVars, userVars, lifeVars>>
    \/ scenario = "meshnet exit" /\ MeshExit!Next /\ UNCHANGED <<scenario, sessionVars, ncVars, dropVars, userVars, lifeVars>>

BenchSpec == BenchInit /\ [][BenchNext]_benchVars

-----------------------------------------------------------------------------
(* Fairness, as in the modules.  An action of a scenario that is not active is *)
(* never enabled, so a condition on one action of each scenario is a condition *)
(* on the action of the active one.                                            *)

InMeshnet(A) == scenario = "meshnet" /\ A /\ UNCHANGED <<scenario, sessionVars, ncVars, dropVars, userVars, lifeVars>>
InRules(A) == scenario = "meshnet rules" /\ A /\ UNCHANGED <<scenario, sessionVars, ncVars, dropVars, userVars, lifeVars>>
InExit(A) == scenario = "meshnet exit" /\ A /\ UNCHANGED <<scenario, sessionVars, ncVars, dropVars, userVars, lifeVars>>
InSession(A) == scenario = "session" /\ A /\ UNCHANGED <<scenario, ncVars, dropVars, userVars, lifeVars, vars>>
InNc(A) == scenario = "nc" /\ A /\ UNCHANGED <<scenario, sessionVars, dropVars, userVars, lifeVars, vars>>
InDrop(A) == scenario = "drop" /\ A /\ UNCHANGED <<scenario, sessionVars, ncVars, userVars, lifeVars, vars>>
InUser(A) == scenario = "user" /\ A /\ UNCHANGED <<scenario, sessionVars, ncVars, dropVars, lifeVars, vars>>
InLife(A) == scenario = "life" /\ A /\ UNCHANGED <<scenario, sessionVars, ncVars, dropVars, userVars, vars>>

FairBenchSpec ==
    /\ BenchSpec
    /\ SF_benchVars(\/ InMeshnet(RefreshMeshnet("c1")) \/ InRules(MeshRules!RefreshMeshnet("c1"))
                    \/ InExit(MeshExit!RefreshMeshnet("c1")) \/ InSession(Calling!Step("s1")) \/ InNc(Notified!LoopEnds)
                    \/ InDrop(Sharing!Steps("s1")))
    /\ SF_benchVars(\/ InMeshnet(RefreshMeshnet("c2")) \/ InRules(MeshRules!RefreshMeshnet("c2"))
                    \/ InExit(MeshExit!RefreshMeshnet("c2")) \/ InSession(Calling!Step("s2")) \/ InNc(Notified!Steps("s1")))
    /\ WF_benchVars(\/ InMeshnet(Step("c1")) \/ InRules(MeshRules!Step("c1")) \/ InExit(MeshExit!Step("c1"))
                    \/ InNc(Notified!Loop) \/ InDrop(Sharing!OnEvent) \/ InUser(Stopping!OfMain("u1"))
                    \/ InLife(Living!StartAutoConnect))
    /\ WF_benchVars(\/ InMeshnet(Step("c2")) \/ InRules(MeshRules!Step("c2")) \/ InExit(MeshExit!Step("c2"))
                    \/ InNc(Notified!HandlersEnd) \/ InDrop(Sharing!Receive) \/ InUser(Stopping!OfLoop("u1")))
    /\ WF_benchVars(\/ InNc(Notified!StopEnds("s1")) \/ InDrop(Sharing!CancelLiveTransfers) \/ InUser(Stopping!OfFileshare("f1")))
    /\ WF_benchVars(InDrop(Sharing!GracefulStop) \/ InUser(Stopping!OfFileshare("f2")))

\* A call is answered (Session), Stop returns (Nc), the handler of an event gives its mutex
\* back (Fileshare) and a process that was told to stop does (Norduser), whatever the other
\* goroutines do; what an inactive scenario waits for is there.
WaitsEnd == Calling!Answered /\ Notified!StopReturns /\ Sharing!EventsGoOn /\ Stopping!StopsEnd

\* StartAutoConnect keeps trying (Lifecycle).
AutoConnects == Living!AutoConnects
=============================================================================
