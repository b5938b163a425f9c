------------------------------ MODULE Lifecycle ------------------------------
(* The life of the daemon's process: main from the load of the configuration *)
(* to the graceful stop, the goroutines it leaves behind, the calls it serves *)
(* meanwhile, and what is left in the kernel when the process ends, however   *)
(* it ends. The networker is what main sees of it: the VPN, the mesh, and the *)
(* rules that block traffic, which the kernel keeps.                          *)
EXTENDS Naturals

CONSTANTS
    MaxDeaths,    \* how often the process may die, and with how many copies of the rules another one is started
    MaxTries,     \* how often an automatic connection may fail
    Faults        \* what may happen: "fatal", "kill", "term", "connect", "netw", "save", "torn", "dbus", "reboot", "auto", "mesh", "early"

VARIABLES
    disk,    \* the saved configuration
    main,    \* where main is, and what it remembers
    netw,    \* the networker, in memory
    rules,   \* the copies of the blocking rules in the kernel: of this process, of those before
    host,    \* the system: its shutdown, its deaths
    auto,    \* StartAutoConnect
    mesh,    \* StartAutoMeshnet
    call     \* the call that is served: one at a time, although gRPC serves several

vars == <<disk, main, netw, rules, host, auto, mesh, call>>

None == "none"
May(fault) == fault \in Faults
Stages == <<"config", "prepare", "networker", "services", "serve", "killswitch", "set killswitch", "background", "netlink", "automesh", "wait">>
Stops == {"grace", "users", "vpn", "mesh", "stop killswitch"}
At(stages) == main.pc \in stages
Serving == At({"background", "netlink", "automesh", "wait"}) \/ (May("early") /\ At({"killswitch", "set killswitch"}))

Defaults == [state |-> "ok", ks |-> FALSE, auto |-> FALSE, mesh |-> FALSE]
NoNetwork == [net |-> FALSE, ks |-> FALSE, vpn |-> FALSE, mesh |-> FALSE]
NoCall == [op |-> None, pc |-> None]
Routine == [pc |-> "off", tries |-> 0]
Dead == [pc |-> "off", cfg |-> Defaults, dbus |-> FALSE, told |-> FALSE, exit |-> None, late |-> FALSE, found |-> 0]

Init ==
    /\ disk \in [state : {"ok"}, ks : BOOLEAN, auto : IF May("auto") THEN BOOLEAN ELSE {FALSE}, mesh : IF May("mesh") THEN BOOLEAN ELSE {FALSE}]
    /\ main = Dead
    /\ netw = NoNetwork
    /\ rules = [own |-> 0, old |-> 0]
    /\ host = [state |-> "up", nologin |-> FALSE, deaths |-> 0]
    /\ auto = Routine
    /\ mesh = Routine
    /\ call = NoCall

-----------------------------------------------------------------------------
(* The networker, under its mutex.                                           *)

setNetwork == rules' = IF netw.net THEN rules ELSE [rules EXCEPT !.own = 1]
unsetNetwork == netw.net /\ rules' = [rules EXCEPT !.own = 0]

SetKillSwitch == netw' = [netw EXCEPT !.net = TRUE, !.ks = TRUE] /\ setNetwork

\* It fails when there is nothing to unset.
UnsetKillSwitch ==
    /\ netw' = [netw EXCEPT !.net = netw.vpn, !.ks = FALSE]
    /\ IF netw.vpn THEN UNCHANGED rules ELSE unsetNetwork
UnsetFails == ~netw.vpn /\ ~netw.net /\ UNCHANGED <<netw, rules>>

netwStart == netw' = [netw EXCEPT !.net = TRUE, !.vpn = TRUE] /\ setNetwork

\* The rules are left behind when the VPN does not come up.
StartFailsMutant == netw' = [netw EXCEPT !.net = TRUE, !.vpn = FALSE] /\ setNetwork

\* failureRecover
StartFails ==
    /\ netw' = [netw EXCEPT !.net = netw.net /\ netw.ks, !.vpn = FALSE]
    /\ rules' = IF netw.net /\ ~netw.ks THEN [rules EXCEPT !.own = 0] ELSE rules

\* The kill switch is not asked for.
netwStopMutant ==
    /\ netw' = IF netw.vpn THEN [netw EXCEPT !.net = FALSE, !.vpn = FALSE] ELSE netw
    /\ rules' = IF netw.vpn THEN [rules EXCEPT !.own = 0] ELSE rules

netwStop ==
    /\ netw' = IF netw.vpn THEN [netw EXCEPT !.net = netw.ks, !.vpn = FALSE] ELSE netw
    /\ rules' = IF netw.vpn /\ ~netw.ks THEN [rules EXCEPT !.own = 0] ELSE rules

-----------------------------------------------------------------------------
(* How the process ends.                                                     *)

\* The rules go with the process.
EndsMutant(exit) ==
    /\ main' = [Dead EXCEPT !.exit = exit, !.told = main.told, !.late = main.late, !.found = main.found]
    /\ rules' = [rules EXCEPT !.own = 0]
    /\ netw' = NoNetwork
    /\ auto' = Routine /\ mesh' = Routine /\ call' = NoCall

\* The rules of the kernel outlive the process, its memory does not.
Ends(exit) ==
    /\ main' = [Dead EXCEPT !.exit = exit, !.told = main.told, !.late = main.late, !.found = main.found]
    /\ rules' = [own |-> 0, old |-> rules.old + rules.own]
    /\ netw' = NoNetwork
    /\ auto' = Routine /\ mesh' = Routine /\ call' = NoCall

Dies(exit) ==
    /\ host.deaths < MaxDeaths
    /\ host' = [host EXCEPT !.deaths = @ + 1]
    /\ Ends(exit)

\* log.Fatal of a stage, or of the goroutine that listens
Fatal ==
    /\ May("fatal") /\ At({Stages[i] : i \in DOMAIN Stages})
    /\ Dies("failure")
    /\ UNCHANGED disk

\* A kill finds a write of the configuration half done.
Killed ==
    /\ May("kill") /\ main.pc # "off"
    /\ Dies("failure")
    /\ \/ UNCHANGED disk
       \/ May("torn") /\ call.pc = "save" /\ disk' = [disk EXCEPT !.state = "torn"]

\* Nobody listens for the signal before WaitSignal.
EarlySignal ==
    /\ May("term") \/ host.state = "stopping"
    /\ main.pc # "off" /\ ~At({"wait"} \cup Stops)
    /\ Dies("signal")
    /\ UNCHANGED disk

-----------------------------------------------------------------------------
(* The start.                                                                *)

Goes(next) == main' = [main EXCEPT !.pc = next]

StartProcess ==
    /\ main.pc = "off" /\ host.state = "up" /\ rules.old <= MaxDeaths
    /\ main' = [Dead EXCEPT !.pc = "config", !.found = rules.old]
    /\ UNCHANGED <<disk, netw, rules, host, auto, mesh, call>>

\* What cannot be loaded is reset; what was loaded is kept for the rest of main.
LoadConfig ==
    /\ At({"config"})
    /\ LET cfg == IF disk.state = "ok" THEN disk ELSE Defaults
       IN disk' = cfg /\ main' = [main EXCEPT !.pc = "prepare", !.cfg = cfg]
    /\ UNCHANGED <<netw, rules, host, auto, mesh, call>>

\* The events and the clients of the firewall and of the API; the VPN and the networker; the
\* RPC servers and the monitor of users
PrepareEvents ==
    /\ At({"prepare"}) /\ Goes("networker")
    /\ UNCHANGED <<disk, netw, rules, host, auto, mesh, call>>
PrepareNetworker ==
    /\ At({"networker"}) /\ Goes("services")
    /\ UNCHANGED <<disk, netw, rules, host, auto, mesh, call>>
PrepareServices ==
    /\ At({"services"}) /\ Goes("serve")
    /\ UNCHANGED <<disk, netw, rules, host, auto, mesh, call>>

\* From here clients are answered, while the start goes on.
Serve ==
    /\ At({"serve"}) /\ Goes("killswitch")
    /\ UNCHANGED <<disk, netw, rules, host, auto, mesh, call>>

StartKillSwitch ==
    /\ At({"killswitch"})
    /\ Goes(IF disk.state = "ok" /\ disk.ks THEN "set killswitch" ELSE "background")
    /\ UNCHANGED <<disk, netw, rules, host, auto, mesh, call>>
StartsKillSwitch ==
    /\ At({"set killswitch"}) /\ Goes("background")
    /\ SetKillSwitch \/ (May("netw") /\ UNCHANGED <<netw, rules>>)
    /\ UNCHANGED <<disk, host, auto, mesh, call>>

\* The monitor of shutdowns, which may find no bus, and the automatic connection
StartBackground ==
    /\ At({"background"})
    /\ \E bus \in {TRUE} \cup (IF May("dbus") THEN {FALSE} ELSE {}) : main' = [main EXCEPT !.pc = "netlink", !.dbus = bus]
    /\ auto' = IF main.cfg.auto THEN [auto EXCEPT !.pc = "check"] ELSE auto
    /\ UNCHANGED <<disk, netw, rules, host, mesh, call>>
StartNetlink ==
    /\ At({"netlink"}) /\ Goes("automesh")
    /\ UNCHANGED <<disk, netw, rules, host, auto, mesh, call>>
StartMesh ==
    /\ At({"automesh"}) /\ Goes("wait")
    /\ mesh' = IF main.cfg.mesh THEN [mesh EXCEPT !.pc = "check"] ELSE mesh
    /\ UNCHANGED <<disk, netw, rules, host, auto, call>>

-----------------------------------------------------------------------------
(* What runs beside main.                                                    *)

\* It gives up when a connection fails.
ConnectFailedMutant == auto' = [auto EXCEPT !.pc = "given up", !.tries = @ + 1]

ConnectFailed == auto' = [auto EXCEPT !.pc = "check", !.tries = @ + 1]

StartAutoConnect ==
    /\ \/ /\ auto.pc = "check"
          /\ auto' = [auto EXCEPT !.pc = IF netw.vpn \/ disk.state # "ok" THEN "done" ELSE "connect"]
          /\ UNCHANGED <<netw, rules>>
       \/ /\ auto.pc = "connect"
          /\ \/ netwStart /\ auto' = [auto EXCEPT !.pc = "done"]
             \/ May("connect") /\ auto.tries < MaxTries /\ ConnectFailed /\ (StartFails \/ UNCHANGED <<netw, rules>>)
    /\ UNCHANGED <<disk, main, host, mesh, call>>

StartAutoMeshnet ==
    /\ \/ /\ mesh.pc = "check"
          /\ mesh' = [mesh EXCEPT !.pc = IF netw.mesh THEN "done" ELSE "start"]
          /\ UNCHANGED netw
       \/ /\ mesh.pc = "start"
          /\ \/ disk.state = "ok" /\ disk.mesh /\ netw' = [netw EXCEPT !.mesh = TRUE] /\ mesh' = [mesh EXCEPT !.pc = "done"]
             \/ ~(disk.state = "ok" /\ disk.mesh) /\ mesh' = [mesh EXCEPT !.pc = "done"] /\ UNCHANGED netw
             \/ May("connect") /\ mesh.tries < MaxTries /\ mesh' = [mesh EXCEPT !.pc = "check", !.tries = @ + 1] /\ UNCHANGED netw
    /\ UNCHANGED <<disk, main, rules, host, auto, call>>

\* StartSystemShutdownMonitor
ShutdownSignal ==
    /\ main.dbus /\ host.state = "stopping" /\ ~main.told /\ ~At({"exit"})
    /\ main' = [main EXCEPT !.told = TRUE]
    /\ UNCHANGED <<disk, netw, rules, host, auto, mesh, call>>

-----------------------------------------------------------------------------
(* Calls of clients.                                                         *)

Call(op) ==
    /\ Serving /\ call = NoCall
    /\ call' = [op |-> op, pc |-> IF op \in {"on", "off"} THEN "load" ELSE "netw"]
    /\ UNCHANGED <<disk, main, netw, rules, host, auto, mesh>>

LoadForCall ==
    /\ call.pc = "load"
    /\ call' = IF disk.state = "ok" /\ disk.ks # (call.op = "on") THEN [call EXCEPT !.pc = "netw"] ELSE NoCall
    /\ UNCHANGED <<disk, main, netw, rules, host, auto, mesh>>

SetsNetworker ==
    /\ call.pc = "netw"
    /\ \/ call.op = "on" /\ SetKillSwitch /\ call' = [call EXCEPT !.pc = "save"]
       \/ call.op = "off" /\ UnsetKillSwitch /\ call' = [call EXCEPT !.pc = "save"]
       \/ call.op = "off" /\ UnsetFails /\ call' = NoCall
       \/ call.op = "connect" /\ netwStart /\ call' = NoCall
       \/ call.op = "connect" /\ May("connect") /\ StartFails /\ call' = NoCall
       \/ call.op = "disconnect" /\ netwStop /\ call' = NoCall
    /\ UNCHANGED <<disk, main, host, auto, mesh>>

SavesConfig ==
    /\ call.pc = "save"
    /\ disk' = [disk EXCEPT !.ks = call.op = "on"] \/ (May("save") /\ UNCHANGED disk)
    /\ call' = NoCall
    /\ UNCHANGED <<main, netw, rules, host, auto, mesh>>

-----------------------------------------------------------------------------
(* The stop.                                                                 *)

WaitSignal ==
    /\ At({"wait"}) /\ (May("term") \/ host.state = "stopping")
    /\ main' = [main EXCEPT !.pc = "grace", !.late = auto.pc \notin {"off", "done"} \/ mesh.pc \notin {"off", "done"}]
    /\ UNCHANGED <<disk, netw, rules, host, auto, mesh, call>>

\* The calls that are served are waited for; nothing else is.
GracefulStop ==
    /\ At({"grace"}) /\ call = NoCall /\ Goes("users")
    /\ UNCHANGED <<disk, netw, rules, host, auto, mesh, call>>
StopUsers ==
    /\ At({"users"}) /\ Goes("vpn")
    /\ UNCHANGED <<disk, netw, rules, host, auto, mesh, call>>
StopVpn ==
    /\ At({"vpn"}) /\ Goes("mesh")
    /\ netwStop \/ (May("netw") /\ UNCHANGED <<netw, rules>>)
    /\ UNCHANGED <<disk, host, auto, mesh, call>>
StopMesh ==
    /\ At({"mesh"}) /\ Goes("stop killswitch")
    /\ netw' = [netw EXCEPT !.mesh = FALSE]
    /\ UNCHANGED <<disk, rules, host, auto, mesh, call>>

\* The file alone tells of a shutdown.
ShutdownIsActiveMutant == host.nologin

ShutdownIsActive == main.told \/ host.nologin

\* The configuration is the one of the start.
StopKillSwitchMutant ==
    /\ At({"stop killswitch"})
    /\ main' = [main EXCEPT !.pc = "exit"]
    /\ IF main.cfg.ks /\ ~ShutdownIsActive
       THEN UnsetKillSwitch \/ UnsetFails \/ (May("netw") /\ UNCHANGED <<netw, rules>>)
       ELSE UNCHANGED <<netw, rules>>
    /\ UNCHANGED <<disk, host, auto, mesh, call>>

StopKillSwitch ==
    /\ At({"stop killswitch"})
    /\ main' = [main EXCEPT !.pc = "exit"]
    /\ IF disk.state = "ok" /\ disk.ks /\ ~ShutdownIsActive
       THEN UnsetKillSwitch \/ UnsetFails \/ (May("netw") /\ UNCHANGED <<netw, rules>>)
       ELSE UNCHANGED <<netw, rules>>
    /\ UNCHANGED <<disk, host, auto, mesh, call>>
Exit ==
    /\ At({"exit"})
    /\ Ends("graceful")
    /\ UNCHANGED <<disk, host>>

-----------------------------------------------------------------------------
(* The system.                                                               *)

Shutdown ==
    /\ May("reboot") /\ host.state = "up"
    /\ host' = [host EXCEPT !.state = "stopping"]
    /\ UNCHANGED <<disk, main, netw, rules, auto, mesh, call>>
NoLogin ==
    /\ host.state = "stopping" /\ ~host.nologin /\ ~At({"off", "exit"})
    /\ host' = [host EXCEPT !.nologin = TRUE]
    /\ UNCHANGED <<disk, main, netw, rules, auto, mesh, call>>
Boots ==
    /\ host.state = "stopping" /\ main.pc = "off"
    /\ host' = [host EXCEPT !.state = "up", !.nologin = FALSE, !.deaths = 0]
    /\ main' = Dead
    /\ rules' = [own |-> 0, old |-> 0]
    /\ UNCHANGED <<disk, netw, auto, mesh, call>>

Starting ==
    \/ StartProcess \/ LoadConfig \/ PrepareEvents \/ PrepareNetworker \/ PrepareServices
    \/ Serve \/ StartKillSwitch \/ StartsKillSwitch \/ StartBackground \/ StartNetlink \/ StartMesh
Stopping == GracefulStop \/ StopUsers \/ StopVpn \/ StopMesh \/ StopKillSwitch \/ Exit
ClientCalls == (\E op \in {"on", "off", "connect", "disconnect"} : Call(op)) \/ LoadForCall \/ SetsNetworker \/ SavesConfig

Next ==
    \/ Starting \/ Stopping \/ ClientCalls
    \/ WaitSignal \/ Fatal \/ Killed \/ EarlySignal
    \/ StartAutoConnect \/ StartAutoMeshnet \/ ShutdownSignal
    \/ Shutdown \/ NoLogin \/ Boots

Spec == Init /\ [][Next]_vars
FairSpec == Spec /\ WF_vars(StartAutoConnect)

-----------------------------------------------------------------------------
LifecycleTypeOK ==
    /\ disk.state \in {"ok", "torn"}
    /\ main.pc \in {Stages[i] : i \in DOMAIN Stages} \cup Stops \cup {"off", "exit"}
    /\ rules.own \in 0..1 /\ rules.old \in 0..(MaxDeaths + 1)
    /\ netw.net = (rules.own = 1)

Blocked == rules.own + rules.old > 0
Saved == disk.state = "ok" /\ call.pc # "save"

\* StartKillSwitch to StopKillSwitch: while the kill switch is on in the settings, traffic
\* outside of the tunnel is blocked, whoever connects, fails to or disconnects, and while
\* the daemon shuts down.
KillSwitchHolds ==
    Saved /\ disk.ks /\ (At({"background", "netlink", "automesh", "wait"}) \/ At(Stops)) => Blocked /\ netw.ks

\* netw.Stop, failureRecover and the kernel: once blocked for the kill switch, traffic
\* stays blocked, also while one process has died and the next has not begun, until the
\* kill switch is turned off, the daemon is stopped, or the system is booted.
NeverReopened ==
    (netw.ks \/ rules.old > 0) /\ disk.ks /\ Blocked /\ ~Blocked' =>
        call.op = "off" \/ main.pc = "stop killswitch" \/ host.state = "stopping"

\* StopKillSwitch: a shutdown of the system that was noticed leaves the kill switch on
\* until the power is off.
KeptForShutdown ==
    host.state = "stopping" /\ main.pc = "off" /\ main.exit = "graceful" /\ (main.told \/ host.nologin) /\ Saved /\ disk.ks => Blocked

\* unsetNetwork and failureRecover: with the kill switch off and no VPN a process blocks
\* nothing, whatever the one before it left behind.
OffMeansOff ==
    Saved /\ ~disk.ks /\ ~netw.vpn /\ At({"background", "netlink", "automesh", "wait"}) /\ call = NoCall => rules.own = 0

\* main: a graceful stop leaves no rule that was not there at the start, if the goroutines
\* that connect by themselves were done and the system goes on.
LeavesNothing == main.pc = "off" /\ main.exit = "graceful" /\ ~main.late /\ host.state = "up" => rules.old = main.found

\* StartAutoConnect: an automatic connection that fails is tried again until there is a
\* connection, if the daemon goes on.
AutoConnects == []<>(auto.pc \in {"off", "done"} \/ netw.vpn \/ ~At({"netlink", "automesh", "wait"}))
=============================================================================
