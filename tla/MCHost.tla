------------------------------- MODULE MCHost -------------------------------
(***************************************************************************)
(* The services of the host the daemon configures: the firewall and what it*)
(* means to packets, the exit node's forwarding, the policy routing, the name*)
(* resolution, the processes of its users, the tray, the daemon's          *)
(* socket and the life of its process; one scenario per behaviour.         *)
(***************************************************************************)
EXTENDS Firewall

VARIABLES
    scenario,
    exitChain, exitForward, exitEn, exitAl, exitOk, exitFaults,
    fmTables, fmRules, fmFaults,
    iptChains, iptInstalled, iptMangle, iptPorts, iptFaults,
    routeRules, routeRp, routeGroups, routeIfgroup, routeIprule, routePolicy, routeRouter, routeAgent, routeHost, routeNetw, routeFaults,
    dnsHost, dnsUser, dnsSet, dnsTold, dnsAlive, dnsRet, dnsFaults,
    userHost, userEvents, userMonitor, userProc, userMesh, userCall, userFs, userSocket, userAddress,
    trayDaemon, trayTi, trayCache, trayPoll, trayMenu, trayItem, trayCalls, trayNotes,
    streamSubscribers, streamChan, streamStop, streams, streamGone, streamClient, streamVpn, streamEvents,
    lifeDisk, lifeMain, lifeNetw, lifeRules, lifeHost, lifeAuto, lifeMesh, lifeCall,
    sockPidfile, sockSocket, sockProc, sockDead, sockConns

exitVars == <<exitChain, exitForward, exitEn, exitAl, exitOk, exitFaults>>
fmVars == <<fmTables, fmRules, fmFaults>>
iptVars == <<iptChains, iptInstalled, iptMangle, iptPorts, iptFaults>>
routeVars == <<routeRules, routeRp, routeGroups, routeIfgroup, routeIprule, routePolicy, routeRouter,
    routeAgent, routeHost, routeNetw, routeFaults>>
dnsVars == <<dnsHost, dnsUser, dnsSet, dnsTold, dnsAlive, dnsRet, dnsFaults>>
userVars == <<userHost, userEvents, userMonitor, userProc, userMesh, userCall, userFs, userSocket, userAddress>>
trayVars == <<trayDaemon, trayTi, trayCache, trayPoll, trayMenu, trayItem, trayCalls, trayNotes>>
streamVars == <<streamSubscribers, streamChan, streamStop, streams, streamGone, streamClient, streamVpn,
    streamEvents>>
lifeVars == <<lifeDisk, lifeMain, lifeNetw, lifeRules, lifeHost, lifeAuto, lifeMesh, lifeCall>>
sockVars == <<sockPidfile, sockSocket, sockProc, sockDead, sockConns>>
benchVars == <<scenario, exitVars, fmVars, iptVars, routeVars, dnsVars, userVars, trayVars, streamVars,
    lifeVars, sockVars, vars>>

SocketClients ==
    LET Client(uid, groups, known) == [uid |-> uid, groups |-> groups, known |-> known]
    IN {Client(0, {}, FALSE), Client(1, {"nordvpn"}, TRUE), Client(2, {"users"}, TRUE), Client(5, {"nordvpn"}, TRUE)}

\* The bodies of a rule share a line, as those of a rule do when an interface
\* or a subnet is added to it.
MCNames == {"drop", "api_allowlist"}
MCBodies == {<<"eth0", "lo">>, <<"eth0", "wlan0">>}

Permits(r, n) == [routing |-> r, localNetwork |-> n]
FewExitMaps == {[p1 |-> Permits(TRUE, TRUE)], [p2 |-> Permits(TRUE, FALSE)]}
ExitMaps == {[p1 |-> Permits(TRUE, FALSE), p2 |-> Permits(FALSE, TRUE)],
             [p1 |-> Permits(TRUE, TRUE), p2 |-> Permits(FALSE, FALSE)], [p2 |-> Permits(TRUE, TRUE)]}
ExitAllowlists == {[subnets |-> {}, ports |-> {}], [subnets |-> {"lan1"}, ports |-> {1, 2, 4}]}

Exit == INSTANCE Exitnode WITH Peers <- {"p1", "p2"}, Private <- {"lan1", "lan2"}, Ports <- 1..4,
    Allowlists <- ExitAllowlists, PeerMaps <- ExitMaps, Faults <- {}, MaxFaults <- 0, chain <- exitChain,
    forward <- exitForward, en <- exitEn, al <- exitAl, ok <- exitOk, faults <- exitFaults
ExitFaults == INSTANCE Exitnode WITH Peers <- {"p1", "p2"}, Private <- {"lan1"}, Ports <- 1..4,
    Allowlists <- {[subnets |-> {"lan1"}, ports |-> {1}]}, PeerMaps <- FewExitMaps,
    Faults <- {"iptables", "sysctl", "crash"}, MaxFaults <- 1, chain <- exitChain, forward <- exitForward,
    en <- exitEn, al <- exitAl, ok <- exitOk, faults <- exitFaults
ManagerPeers == INSTANCE FirewallManager WITH Lans <- {"lan1", "lan2"}, Ifaces <- {"eth0"},
    PortSets <- {{}, {1, 2, 4}}, ip6tablesSupported <- TRUE, MaxForeign <- 1, Peers <- {"p1", "p2"},
    Ops <- {"incoming", "fileshare", "block"}, MaxListed <- 0, MaxFaults <- 0, tables <- fmTables,
    f <- fmRules, faults <- fmFaults
ManagerList == INSTANCE FirewallManager WITH Lans <- {"lan1", "lan2"}, Ifaces <- {"eth0"},
    PortSets <- {{}, {1, 2, 4}}, ip6tablesSupported <- TRUE, MaxForeign <- 1, Peers <- {"p1"},
    Ops <- {"block", "allowlist"}, MaxListed <- 12, MaxFaults <- 0, tables <- fmTables, f <- fmRules,
    faults <- fmFaults
ManagerApi == INSTANCE FirewallManager WITH Lans <- {"lan1", "lan2"}, Ifaces <- {"eth0"},
    PortSets <- {{}, {1, 2, 4}}, ip6tablesSupported <- TRUE, MaxForeign <- 1, Peers <- {"p1"},
    Ops <- {"incoming", "block", "api"}, MaxListed <- 6, MaxFaults <- 1, tables <- fmTables, f <- fmRules,
    faults <- fmFaults
KillSwitchRules == INSTANCE Iptables WITH
    Names <- {"drop", "allowlist_ports_tcp", "api_allowlist", "allowlist_subnets", "icmp6"}, PortLists <- {},
    ListsAsGiven <- TRUE, MaxFaults <- 0, chains <- iptChains, installed <- iptInstalled, mangle <- iptMangle,
    ports <- iptPorts, faults <- iptFaults
PeerRules == INSTANCE Iptables WITH Names <- {"drop-fw", "dns", "mesh_block", "allow_peer", "block_lan"},
    PortLists <- {}, ListsAsGiven <- TRUE, MaxFaults <- 0, chains <- iptChains, installed <- iptInstalled,
    mangle <- iptMangle, ports <- iptPorts, faults <- iptFaults
Marks == INSTANCE Iptables WITH Names <- {}, PortLists <- {<<5, 4, 2>>, <<1>>}, ListsAsGiven <- TRUE,
    MaxFaults <- 1, chains <- iptChains, installed <- iptInstalled, mangle <- iptMangle, ports <- iptPorts,
    faults <- iptFaults
MarksListed == INSTANCE Iptables WITH Names <- {}, PortLists <- {<<5, 4, 2>>, <<1>>}, ListsAsGiven <- FALSE,
    MaxFaults <- 1, chains <- iptChains, installed <- iptInstalled, mangle <- iptMangle, ports <- iptPorts,
    faults <- iptFaults
Routes == INSTANCE Routing WITH Subnets <- {"s1"}, Devices <- {"eth0"}, MaxTable <- 206, MainPriority <- 5,
    Faults <- {"off", "tables", "rules"}, MaxFaults <- 0, rules <- routeRules, rp <- routeRp,
    groups <- routeGroups, ifgroup <- routeIfgroup, iprule <- routeIprule, policy <- routePolicy,
    router <- routeRouter, agent <- routeAgent, host <- routeHost, netw <- routeNetw, faults <- routeFaults
RoutesFail == INSTANCE Routing WITH Subnets <- {"s1"}, Devices <- {"eth0", "eth1"}, MaxTable <- 206,
    MainPriority <- 6, Faults <- {"netlink"}, MaxFaults <- 1, rules <- routeRules, rp <- routeRp,
    groups <- routeGroups, ifgroup <- routeIfgroup, iprule <- routeIprule, policy <- routePolicy,
    router <- routeRouter, agent <- routeAgent, host <- routeHost, netw <- routeNetw, faults <- routeFaults
RoutesV6 == INSTANCE Routing WITH Subnets <- {"s1"}, Devices <- {"eth0"}, MaxTable <- 206, MainPriority <- 6,
    Faults <- {"v6"}, MaxFaults <- 0, rules <- routeRules, rp <- routeRp, groups <- routeGroups,
    ifgroup <- routeIfgroup, iprule <- routeIprule, policy <- routePolicy, router <- routeRouter,
    agent <- routeAgent, host <- routeHost, netw <- routeNetw, faults <- routeFaults
DnsFile == INSTANCE Dns WITH Nameservers <- {"n1", "n2"}, Texts <- {"u1", "u2", "gone"}, Peers <- {"p1", "p2"},
    Symlink <- FALSE, MaxFaults <- 1, Services <- {"chattr"}, Faults <- {"crash", "edit"}, host <- dnsHost,
    user <- dnsUser, set <- dnsSet, told <- dnsTold, alive <- dnsAlive, ret <- dnsRet, faults <- dnsFaults
DnsResolved == INSTANCE Dns WITH Nameservers <- {"n1", "n2"}, Texts <- {"u1", "u2", "gone"},
    Peers <- {"p1", "p2"}, Symlink <- FALSE, MaxFaults <- 1, Services <- {"resolved", "resolvectl", "chattr"},
    Faults <- {"command"}, host <- dnsHost, user <- dnsUser, set <- dnsSet, told <- dnsTold, alive <- dnsAlive,
    ret <- dnsRet, faults <- dnsFaults
DnsResolvconf == INSTANCE Dns WITH Nameservers <- {"n1", "n2"}, Texts <- {"u1", "u2", "gone"},
    Peers <- {"p1", "p2"}, Symlink <- FALSE, MaxFaults <- 1, Services <- {"resolvconf", "chattr"},
    Faults <- {"command", "crash"}, host <- dnsHost, user <- dnsUser, set <- dnsSet, told <- dnsTold,
    alive <- dnsAlive, ret <- dnsRet, faults <- dnsFaults
TwoUsers == INSTANCE Norduser WITH Users <- {"u1", "u2"}, Fids <- {"f1", "f2"}, Snap <- FALSE, Faults <- {},
    host <- userHost, events <- userEvents, monitor <- userMonitor, proc <- userProc, mesh <- userMesh,
    call <- userCall, fs <- userFs, socket <- userSocket, address <- userAddress
QuickChanges == INSTANCE Norduser WITH Users <- {"u1"}, Fids <- {"f1"}, Snap <- FALSE,
    Faults <- {"fast", "cli"}, host <- userHost, events <- userEvents, monitor <- userMonitor,
    proc <- userProc, mesh <- userMesh, call <- userCall, fs <- userFs, socket <- userSocket,
    address <- userAddress
DaemonRestarts == INSTANCE Norduser WITH Users <- {"u1"}, Fids <- {"f1", "f2"}, Snap <- FALSE,
    Faults <- {"restart", "cli"}, host <- userHost, events <- userEvents, monitor <- userMonitor,
    proc <- userProc, mesh <- userMesh, call <- userCall, fs <- userFs, socket <- userSocket,
    address <- userAddress
UserFaults == INSTANCE Norduser WITH Users <- {"u1"}, Fids <- {"f1", "f2"}, Snap <- FALSE,
    Faults <- {"ps", "start", "kill", "lookup", "utmp", "env", "mesh", "lib", "restart", "cli"},
    host <- userHost, events <- userEvents, monitor <- userMonitor, proc <- userProc, mesh <- userMesh,
    call <- userCall, fs <- userFs, socket <- userSocket, address <- userAddress
UserSnap == INSTANCE Norduser WITH Users <- {"u1"}, Fids <- {"f1", "f2"}, Snap <- TRUE, Faults <- {"restart"},
    host <- userHost, events <- userEvents, monitor <- userMonitor, proc <- userProc, mesh <- userMesh,
    call <- userCall, fs <- userFs, socket <- userSocket, address <- userAddress
TrayClicks == INSTANCE Tray WITH Accounts <- {"u1"}, Stored <- {TRUE}, MaxCalls <- 1, Hosts <- {"h1"},
    Clicks <- {"Quick Connect", "Disconnect", "Log in", "Log out"}, Faults <- {"call", "slow"},
    daemon <- trayDaemon, ti <- trayTi, cache <- trayCache, poll <- trayPoll, menu <- trayMenu,
    item <- trayItem, calls <- trayCalls, notes <- trayNotes
TraySettings == INSTANCE Tray WITH Accounts <- {"u1"}, Stored <- {TRUE}, MaxCalls <- 1, Hosts <- {"h1"},
    Clicks <- {"Notifications", "Tray icon", "Quit"}, Faults <- {"exit"}, daemon <- trayDaemon, ti <- trayTi,
    cache <- trayCache, poll <- trayPoll, menu <- trayMenu, item <- trayItem, calls <- trayCalls,
    notes <- trayNotes
TrayDaemon == INSTANCE Tray WITH Accounts <- {"u1"}, Stored <- {TRUE}, MaxCalls <- 1, Hosts <- {"h1"},
    Clicks <- {}, Faults <- {"daemon", "config", "update", "api"}, daemon <- trayDaemon, ti <- trayTi,
    cache <- trayCache, poll <- trayPoll, menu <- trayMenu, item <- trayItem, calls <- trayCalls,
    notes <- trayNotes
TrayCli == INSTANCE Tray WITH Accounts <- {"u1"}, Stored <- {TRUE}, MaxCalls <- 1, Hosts <- {"h1", "h2"},
    Clicks <- {}, Faults <- {"cli", "race"}, daemon <- trayDaemon, ti <- trayTi, cache <- trayCache,
    poll <- trayPoll, menu <- trayMenu, item <- trayItem, calls <- trayCalls, notes <- trayNotes
TrayOthers == INSTANCE Tray WITH Accounts <- {"u1"}, Stored <- {TRUE}, MaxCalls <- 1, Hosts <- {"h1"},
    Clicks <- {}, Faults <- {"settings", "slow"}, daemon <- trayDaemon, ti <- trayTi, cache <- trayCache,
    poll <- trayPoll, menu <- trayMenu, item <- trayItem, calls <- trayCalls, notes <- trayNotes
Stream == INSTANCE StateStream WITH Streams <- {"s1", "s2"}, MaxEvents <- 3, subscribers <- streamSubscribers,
    chan <- streamChan, stop <- streamStop, stream <- streams, gone <- streamGone, client <- streamClient,
    vpn <- streamVpn, events <- streamEvents
LifeCrash == INSTANCE Lifecycle WITH MaxDeaths <- 1, MaxTries <- 1,
    Faults <- {"fatal", "kill", "torn", "term", "connect", "auto"}, disk <- lifeDisk, main <- lifeMain,
    netw <- lifeNetw, rules <- lifeRules, host <- lifeHost, auto <- lifeAuto, mesh <- lifeMesh,
    call <- lifeCall
LifeMesh == INSTANCE Lifecycle WITH MaxDeaths <- 1, MaxTries <- 1, Faults <- {"term", "connect", "mesh"},
    disk <- lifeDisk, main <- lifeMain, netw <- lifeNetw, rules <- lifeRules, host <- lifeHost,
    auto <- lifeAuto, mesh <- lifeMesh, call <- lifeCall
LifeReboot == INSTANCE Lifecycle WITH MaxDeaths <- 1, MaxTries <- 1,
    Faults <- {"term", "reboot", "dbus", "connect"}, disk <- lifeDisk, main <- lifeMain, netw <- lifeNetw,
    rules <- lifeRules, host <- lifeHost, auto <- lifeAuto, mesh <- lifeMesh, call <- lifeCall
LifeFaults == INSTANCE Lifecycle WITH MaxDeaths <- 1, MaxTries <- 1,
    Faults <- {"netw", "save", "early", "term"}, disk <- lifeDisk, main <- lifeMain, netw <- lifeNetw,
    rules <- lifeRules, host <- lifeHost, auto <- lifeAuto, mesh <- lifeMesh, call <- lifeCall
Socket == INSTANCE Listener WITH Pids <- {1, 2, 3}, Clients <- SocketClients, Owner <- 99, MaxUid <- 4,
    Faults <- {"crash"}, pidfile <- sockPidfile, socket <- sockSocket, proc <- sockProc, dead <- sockDead,
    conns <- sockConns
SocketFaults == INSTANCE Listener WITH Pids <- {1, 2, 3}, Clients <- SocketClients, Owner <- 1, MaxUid <- 4,
    Faults <- {"crash", "fs", "reuse"}, pidfile <- sockPidfile, socket <- sockSocket, proc <- sockProc,
    dead <- sockDead, conns <- sockConns

BenchInit ==
    /\ scenario \in {"exit", "exit faults", "manager peers", "manager list", "manager api", "killswitch rules",
                    "peer rules", "marks", "marks listed", "routes", "routes fail", "routes v6", "dns file",
                    "dns resolved", "dns resolvconf", "users", "quick changes", "daemon restarts",
                    "user faults", "snap", "tray", "tray settings", "tray daemon", "tray cli", "tray others",
                    "stream", "life crash", "life mesh", "life reboot", "life faults", "socket",
                    "socket faults", "firewall"}
    /\ Init /\ (scenario \in {"firewall"} \/ enabled)
    /\ (IF scenario = "exit faults" THEN ExitFaults!Init ELSE Exit!Init)
    /\ scenario \in {"exit", "exit faults"} \/ (exitForward.value = 0 /\ exitAl.allowlist.ports = {})
    /\ (IF scenario = "manager list" THEN ManagerList!Init ELSE IF scenario = "manager api" THEN ManagerApi!Init ELSE ManagerPeers!Init)
    /\ (IF scenario = "peer rules" THEN PeerRules!Init ELSE IF scenario = "marks" THEN Marks!Init ELSE IF scenario = "marks listed" THEN MarksListed!Init ELSE KillSwitchRules!Init)
    /\ (IF scenario = "routes fail" THEN RoutesFail!Init ELSE IF scenario = "routes v6" THEN RoutesV6!Init ELSE Routes!Init)
    /\ scenario \in {"routes", "routes fail", "routes v6"} \/ (routeRp.value = 1 /\ routeRouter.enabled /\ ~routeHost.mainTaken)
    /\ (IF scenario = "dns resolved" THEN DnsResolved!Init ELSE IF scenario = "dns resolvconf" THEN DnsResolvconf!Init ELSE DnsFile!Init)
    /\ scenario \in {"dns file", "dns resolved", "dns resolvconf"} \/ dnsHost.file.text = "u1"
    /\ (IF scenario = "quick changes" THEN QuickChanges!Init ELSE IF scenario = "daemon restarts" THEN DaemonRestarts!Init ELSE IF scenario = "user faults" THEN UserFaults!Init ELSE IF scenario = "snap" THEN UserSnap!Init ELSE TwoUsers!Init)
    /\ scenario \in {"users", "quick changes", "daemon restarts", "user faults", "snap"} \/ userHost.members = {}
    /\ (IF scenario = "tray settings" THEN TraySettings!Init ELSE IF scenario = "tray daemon" THEN TrayDaemon!Init ELSE IF scenario = "tray cli" THEN TrayCli!Init ELSE IF scenario = "tray others" THEN TrayOthers!Init ELSE TrayClicks!Init)
    /\ scenario \in {"tray", "tray settings", "tray daemon", "tray cli", "tray others"} \/ trayDaemon.user = "none"
    /\ Stream!Init
    /\ (IF scenario = "life mesh" THEN LifeMesh!Init ELSE IF scenario = "life reboot" THEN LifeReboot!Init ELSE IF scenario = "life faults" THEN LifeFaults!Init ELSE LifeCrash!Init)
    /\ scenario \in {"life crash", "life mesh", "life reboot", "life faults"} \/ (~lifeDisk.ks /\ ~lifeDisk.auto)
    /\ (IF scenario = "socket faults" THEN SocketFaults!Init ELSE Socket!Init)
    /\ scenario \in {"socket", "socket faults"} \/ sockPidfile = 0

BenchNext ==
    \/ scenario = "firewall" /\ Next /\ UNCHANGED <<scenario, exitVars, fmVars, iptVars, routeVars, dnsVars, userVars, trayVars, streamVars, lifeVars, sockVars>>
    \/ scenario = "exit" /\ Exit!Next /\ UNCHANGED <<scenario, fmVars, iptVars, routeVars, dnsVars, userVars, trayVars, streamVars, lifeVars, sockVars, vars>>
    \/ scenario = "exit faults" /\ ExitFaults!Next /\ UNCHANGED <<scenario, fmVars, iptVars, routeVars, dnsVars, userVars, trayVars, streamVars, lifeVars, sockVars, vars>>
    \/ scenario = "manager peers" /\ ManagerPeers!Next /\ UNCHANGED <<scenario, exitVars, iptVars, routeVars, dnsVars, userVars, trayVars, streamVars, lifeVars, sockVars, vars>>
    \/ scenario = "manager list" /\ ManagerList!Next /\ UNCHANGED <<scenario, exitVars, iptVars, routeVars, dnsVars, userVars, trayVars, streamVars, lifeVars, sockVars, vars>>
    \/ scenario = "manager api" /\ ManagerApi!Next /\ UNCHANGED <<scenario, exitVars, iptVars, routeVars, dnsVars, userVars, trayVars, streamVars, lifeVars, sockVars, vars>>
    \/ scenario = "killswitch rules" /\ KillSwitchRules!Next /\ UNCHANGED <<scenario, exitVars, fmVars, routeVars, dnsVars, userVars, trayVars, streamVars, lifeVars, sockVars, vars>>
    \/ scenario = "peer rules" /\ PeerRules!Next /\ UNCHANGED <<scenario, exitVars, fmVars, routeVars, dnsVars, userVars, trayVars, streamVars, lifeVars, sockVars, vars>>
    \/ scenario = "marks" /\ Marks!Next /\ UNCHANGED <<scenario, exitVars, fmVars, routeVars, dnsVars, userVars, trayVars, streamVars, lifeVars, sockVars, vars>>
    \/ scenario = "marks listed" /\ MarksListed!Next /\ UNCHANGED <<scenario, exitVars, fmVars, routeVars, dnsVars, userVars, trayVars, streamVars, lifeVars, sockVars, vars>>
    \/ scenario = "routes" /\ Routes!Next /\ UNCHANGED <<scenario, exitVars, fmVars, iptVars, dnsVars, userVars, trayVars, streamVars, lifeVars, sockVars, vars>>
    \/ scenario = "routes fail" /\ RoutesFail!Next /\ UNCHANGED <<scenario, exitVars, fmVars, iptVars, dnsVars, userVars, trayVars, streamVars, lifeVars, sockVars, vars>>
    \/ scenario = "routes v6" /\ RoutesV6!Next /\ UNCHANGED <<scenario, exitVars, fmVars, iptVars, dnsVars, userVars, trayVars, streamVars, lifeVars, sockVars, vars>>
    \/ scenario = "dns file" /\ DnsFile!Next /\ UNCHANGED <<scenario, exitVars, fmVars, iptVars, routeVars, userVars, trayVars, streamVars, lifeVars, sockVars, vars>>
    \/ scenario = "dns resolved" /\ DnsResolved!Next /\ UNCHANGED <<scenario, exitVars, fmVars, iptVars, routeVars, userVars, trayVars, streamVars, lifeVars, sockVars, vars>>
    \/ scenario = "dns resolvconf" /\ DnsResolvconf!Next /\ UNCHANGED <<scenario, exitVars, fmVars, iptVars, routeVars, userVars, trayVars, streamVars, lifeVars, sockVars, vars>>
    \/ scenario = "users" /\ TwoUsers!Next /\ UNCHANGED <<scenario, exitVars, fmVars, iptVars, routeVars, dnsVars, trayVars, streamVars, lifeVars, sockVars, vars>>
    \/ scenario = "quick changes" /\ QuickChanges!Next /\ UNCHANGED <<scenario, exitVars, fmVars, iptVars, routeVars, dnsVars, trayVars, streamVars, lifeVars, sockVars, vars>>
    \/ scenario = "daemon restarts" /\ DaemonRestarts!Next /\ UNCHANGED <<scenario, exitVars, fmVars, iptVars, routeVars, dnsVars, trayVars, streamVars, lifeVars, sockVars, vars>>
    \/ scenario = "user faults" /\ UserFaults!Next /\ UNCHANGED <<scenario, exitVars, fmVars, iptVars, routeVars, dnsVars, trayVars, streamVars, lifeVars, sockVars, vars>>
    \/ scenario = "snap" /\ UserSnap!Next /\ UNCHANGED <<scenario, exitVars, fmVars, iptVars, routeVars, dnsVars, trayVars, streamVars, lifeVars, sockVars, vars>>
    \/ scenario = "tray" /\ TrayClicks!Next /\ UNCHANGED <<scenario, exitVars, fmVars, iptVars, routeVars, dnsVars, userVars, streamVars, lifeVars, sockVars, vars>>
    \/ scenario = "tray settings" /\ TraySettings!Next /\ UNCHANGED <<scenario, exitVars, fmVars, iptVars, routeVars, dnsVars, userVars, streamVars, lifeVars, sockVars, vars>>
    \/ scenario = "tray daemon" /\ TrayDaemon!Next /\ UNCHANGED <<scenario, exitVars, fmVars, iptVars, routeVars, dnsVars, userVars, streamVars, lifeVars, sockVars, vars>>
    \/ scenario = "tray cli" /\ TrayCli!Next /\ UNCHANGED <<scenario, exitVars, fmVars, iptVars, routeVars, dnsVars, userVars, streamVars, lifeVars, sockVars, vars>>
    \/ scenario = "tray others" /\ TrayOthers!Next /\ UNCHANGED <<scenario, exitVars, fmVars, iptVars, routeVars, dnsVars, userVars, streamVars, lifeVars, sockVars, vars>>
    \/ scenario = "stream" /\ Stream!Next /\ UNCHANGED <<scenario, exitVars, fmVars, iptVars, routeVars, dnsVars, userVars, trayVars, lifeVars, sockVars, vars>>
    \/ scenario = "life crash" /\ LifeCrash!Next /\ UNCHANGED <<scenario, exitVars, fmVars, iptVars, routeVars, dnsVars, userVars, trayVars, streamVars, sockVars, vars>>
    \/ scenario = "life mesh" /\ LifeMesh!Next /\ UNCHANGED <<scenario, exitVars, fmVars, iptVars, routeVars, dnsVars, userVars, trayVars, streamVars, sockVars, vars>>
    \/ scenario = "life reboot" /\ LifeReboot!Next /\ UNCHANGED <<scenario, exitVars, fmVars, iptVars, routeVars, dnsVars, userVars, trayVars, streamVars, sockVars, vars>>
    \/ scenario = "life faults" /\ LifeFaults!Next /\ UNCHANGED <<scenario, exitVars, fmVars, iptVars, routeVars, dnsVars, userVars, trayVars, streamVars, sockVars, vars>>
    \/ scenario = "socket" /\ Socket!Next /\ UNCHANGED <<scenario, exitVars, fmVars, iptVars, routeVars, dnsVars, userVars, trayVars, streamVars, lifeVars, vars>>
    \/ scenario = "socket faults" /\ SocketFaults!Next /\ UNCHANGED <<scenario, exitVars, fmVars, iptVars, routeVars, dnsVars, userVars, trayVars, streamVars, lifeVars, vars>>

BenchSpec == BenchInit /\ [][BenchNext]_benchVars

Managers == {"manager peers", "manager list", "manager api"}
OfTray == {"tray", "tray settings", "tray daemon", "tray cli", "tray others"}
OfDns == {"dns file", "dns resolved", "dns resolvconf"}
OfLife == {"life crash", "life mesh", "life reboot"}

\* Firewall: no name is stored twice, and the kernel has the lines of the stored rules.
FirewallKept == TypeOK /\ NoDuplicateNames /\ KernelMatchesStore

\* Iptables: of two rules that match the one added last decides, and the allowed ports are
\* marked in both directions.
NewestRuleDecides ==
    /\ scenario = "peer rules" => PeerRules!IptablesTypeOK
    /\ scenario \in {"killswitch rules", "peer rules"} => KillSwitchRules!NewestRuleDecides
    /\ scenario \in {"marks", "marks listed"} => Marks!PortsMarkedBothWays

\* Exitnode and FirewallManager: what is permitted to a peer is forwarded and let in, nothing
\* else, and nothing is left when it ends.
ForwardsWhatIsPermitted ==
    /\ scenario = "exit" => Exit!ExitnodeTypeOK /\ Exit!ForwardsWhatIsPermitted /\ Exit!DisabledLeavesNothing
    /\ scenario = "exit faults" => ExitFaults!ResetRepairs
    /\ scenario \in Managers => ManagerPeers!PriorityKept /\ ManagerPeers!InstalledIsRemembered
    /\ scenario = "manager peers" => ManagerPeers!FirewallManagerTypeOK /\ ManagerPeers!IncomingAsAllowed


\* Dns: the user's file comes back, what was set is in force, a start removes what a dead
\* process left, and the names of the peers are those told last.
UsersFileComesBack ==
    /\ scenario \in OfDns => DnsFile!DnsTypeOK /\ DnsFile!UsersFileComesBack /\ DnsFile!HostsAsTold
    /\ scenario \in {"dns resolved", "dns resolvconf"} => DnsResolved!SetMeansSet
    /\ scenario = "dns file" => DnsFile!NotOursAfterStart

\* Norduser: a user has one process, however quickly things change; when they change one after
\* the other, has it while logged in, the tray comes back with the desktop, and file sharing
\* runs for the user of meshnet.  Listener: one daemon serves, and
\* only those that may be.
OneProcess ==
    /\ scenario = "users" =>
          /\ TwoUsers!NorduserTypeOK /\ TwoUsers!OneProcess /\ TwoUsers!RunsWhenLoggedIn
          /\ TwoUsers!TrayComesBack /\ TwoUsers!FileshareFollowsMesh
    /\ scenario \in {"quick changes", "daemon restarts", "user faults", "snap"} => DaemonRestarts!OneProcess
    /\ scenario = "user faults" => UserFaults!NorduserTypeOK
    /\ scenario = "daemon restarts" =>
          DaemonRestarts!RunsWhenLoggedIn /\ DaemonRestarts!TrayComesBack /\ DaemonRestarts!FileshareFollowsMesh
    /\ scenario = "snap" => UserSnap!FileshareFollowsMesh
    /\ scenario \in {"socket", "socket faults"} => Socket!ListenerTypeOK /\ Socket!ServingIsReached
    /\ scenario = "socket" => Socket!ServedAsThemselves /\ Socket!DeadDoNotBlock /\ Socket!RefusedForAnother
    /\ scenario = "socket faults" => SocketFaults!ServedAsThemselves

\* Tray and StateStream: what the tray shows, says and offers is the state of the daemon once
\* it has been asked, up to a wake-up that was missed; a subscriber stays one until it stops and
\* is sent events in order, those published while it is busy left out.
ClientsSeeTheState ==
    /\ scenario \in OfTray =>
          /\ TrayCli!TrayTypeOK /\ TrayCli!MenuIsCurrent /\ TrayCli!LoggedOutForgets
          /\ TrayCli!AnnouncedRight /\ TrayCli!IconIsRight /\ TrayCli!ItemsListen
    /\ scenario \in OfTray \ {"tray daemon"} => TrayCli!RoundAgrees
    /\ scenario = "tray daemon" => TrayDaemon!RoundAgrees
    /\ scenario = "stream" =>
          /\ Stream!StreamTypeOK /\ Stream!SubscribedUntilStopped /\ Stream!ClosedIsUnread
          /\ Stream!ShowsConnection /\ Stream!InOrder

\* Lifecycle: the kill switch blocks while it is on, until the power is off when the system
\* shuts down, and not when it is off; a graceful stop leaves nothing behind.
KillSwitchHolds ==
    /\ scenario \in OfLife \cup {"life faults"} => LifeCrash!LifecycleTypeOK
    /\ scenario \in OfLife =>
          LifeCrash!KillSwitchHolds /\ LifeCrash!KeptForShutdown /\ LifeCrash!OffMeansOff /\ LifeCrash!LeavesNothing

\* Firewall: a new rule comes before all others.  Lifecycle: what the kill switch blocked is
\* not opened but by who may.
NothingReopened == [][NewRuleEvaluatedFirst /\ LifeCrash!NeverReopened]_benchVars
=============================================================================
