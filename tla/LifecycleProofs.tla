-------------------------- MODULE LifecycleProofs --------------------------
(***************************************************************************)
(* What holds of Lifecycle.tla however often the process dies and is       *)
(* started again: the kill switch blocks while it is on, stays on while    *)
(* the system shuts down, and blocks nothing once it is off.               *)
(***************************************************************************)
EXTENDS Lifecycle, TLAPS

\* The calls of the networker and the saves of the configuration succeed, and no client is
\* answered before the kill switch is on.
Calm == {"netw", "save", "early"} \cap Faults = {}

Begins == {"config", "prepare", "networker", "services", "serve", "killswitch", "set killswitch"}
Runs == {"background", "netlink", "automesh", "wait"}
Pcs == Begins \cup Runs \cup Stops \cup {"off", "exit"}
Configs == [state : {"ok", "torn"}, ks : BOOLEAN, auto : BOOLEAN, mesh : BOOLEAN]
Exits == {None, "failure", "signal", "graceful"}
CallPcs == {None, "load", "netw", "save"}
CallOps == {None, "on", "off", "connect", "disconnect"}

MainOK ==
    main \in [pc : Pcs, cfg : Configs, dbus : BOOLEAN, told : BOOLEAN, exit : Exits, late : BOOLEAN, found : Nat]
DiskOK == disk \in Configs
NetwOK == netw \in [net : BOOLEAN, ks : BOOLEAN, vpn : BOOLEAN, mesh : BOOLEAN]
RulesOK == rules \in [own : {0, 1}, old : Nat]
HostOK == host \in [state : {"up", "stopping"}, nologin : BOOLEAN, deaths : Nat]
RoutinesOK ==
    /\ auto \in [pc : {"off", "check", "connect", "done"}, tries : Nat]
    /\ mesh \in [pc : {"off", "check", "start", "done"}, tries : Nat]
CallOK == call \in [op : CallOps, pc : CallPcs] /\ (call.pc = None => call = NoCall)
TypeInv == MainOK /\ DiskOK /\ NetwOK /\ RulesOK /\ HostOK /\ RoutinesOK /\ CallOK

\* The networker has rules of its own in the kernel exactly while it has a network set, and
\* it has one set exactly while the kill switch is on or a VPN is up.
NetworkInv ==
    /\ netw.net <=> rules.own = 1
    /\ netw.net <=> netw.ks \/ netw.vpn

\* Calls are served between the start and the graceful stop only.
CallInv == call # NoCall => At(Runs \cup {"grace"})

\* A configuration that a kill tore is replaced before anything reads it.
DiskInv == ~At({"off", "config"}) => disk.state = "ok"

\* The networker has the kill switch on when it is on in the settings, from its start to its
\* stop, but between the two steps of a call that changes both.
SwitchInv ==
    /\ At(Runs \cup Stops) /\ call.pc # "save" => (netw.ks <=> disk.ks)
    /\ At(Begins) => netw = NoNetwork
    /\ At({"set killswitch"}) => disk.ks
    /\ call.pc = "save" => (netw.ks <=> call.op = "on") /\ call.op \in {"on", "off"}

\* Only a shutdown of the system is noticed.
ShutdownInv == main.told \/ host.nologin => host.state = "stopping"

\* The goroutines that were done when the signal came do nothing any more, so that after
\* netw.Stop there is no VPN; what was left before the process began is still there.
QuietInv ==
    /\ At(Stops \cup {"exit"}) /\ ~main.late => auto.pc \in {"off", "done"}
    /\ At({"mesh", "stop killswitch", "exit"}) /\ ~main.late => ~netw.vpn
    /\ At(Begins) => auto = Routine /\ mesh = Routine
    /\ ~At({"off"}) => rules.old = main.found

\* StopKillSwitch took the rules away, or left them for the shutdown.
ExitInv ==
    At({"exit"}) =>
        /\ call = NoCall
        /\ ~ShutdownIsActive /\ ~main.late => rules.own = 0
        /\ ShutdownIsActive /\ disk.ks => netw.ks

\* What the last process left.
OffInv ==
    At({"off"}) =>
        /\ netw = NoNetwork /\ rules.own = 0 /\ ~main.dbus
        /\ LeavesNothing /\ KeptForShutdown
        /\ auto = Routine /\ mesh = Routine /\ call = NoCall

IInv ==
    /\ TypeInv /\ NetworkInv /\ CallInv /\ DiskInv /\ SwitchInv
    /\ ShutdownInv /\ QuietInv /\ ExitInv /\ OffInv

\* main goes on to its next stage.
LEMMA GoesFacts ==
    ASSUME MainOK, NEW next \in Pcs, Goes(next)
    PROVE  /\ MainOK'
           /\ main'.pc = next
           /\ main'.exit = main.exit /\ main'.found = main.found /\ main'.cfg = main.cfg
           /\ main'.told = main.told /\ main'.late = main.late
BY DEF MainOK, Goes

\* What the calls of the networker keep of its state and of the rules in the kernel.
Networker == NetwOK /\ RulesOK /\ NetworkInv

\* SetKillSwitch sets the network.
LEMMA SetFacts ==
    ASSUME Networker, SetKillSwitch
    PROVE  Networker' /\ rules'.old = rules.old /\ netw'.ks /\ (netw'.vpn <=> netw.vpn)
BY Zenon DEF Networker, NetwOK, RulesOK, NetworkInv, SetKillSwitch, setNetwork

\* UnsetKillSwitch keeps the network for a VPN.
LEMMA UnsetFacts ==
    ASSUME Networker, UnsetKillSwitch
    PROVE  Networker' /\ rules'.old = rules.old /\ ~netw'.ks /\ (netw'.vpn <=> netw.vpn)
<1>1. netw.vpn \in BOOLEAN
  BY DEF Networker, NetwOK
<1>2. CASE netw.vpn = TRUE
  <2>1. netw' = [netw EXCEPT !.net = TRUE, !.ks = FALSE] /\ rules' = rules
    BY <1>2, Zenon DEF UnsetKillSwitch
  <2> QED
    BY <1>2, <2>1, Zenon DEF Networker, NetwOK, RulesOK, NetworkInv
<1>3. CASE netw.vpn = FALSE
  <2>1. netw' = [netw EXCEPT !.net = FALSE, !.ks = FALSE] /\ rules' = [rules EXCEPT !.own = 0]
    BY <1>3, Zenon DEF UnsetKillSwitch, unsetNetwork
  <2>2. RulesOK' /\ rules'.own = 0 /\ rules'.old = rules.old
    BY <2>1 DEF Networker, RulesOK
  <2>3. NetwOK' /\ ~netw'.net /\ ~netw'.ks /\ ~netw'.vpn
    BY <1>3, <2>1, Zenon DEF Networker, NetwOK
  <2> QED
    BY <1>3, <2>2, <2>3 DEF Networker, NetwOK, RulesOK, NetworkInv
<1> QED
  BY <1>1, <1>2, <1>3, Zenon

\* netw.Start sets the network, also when the kill switch already did.
LEMMA StartFacts ==
    ASSUME Networker, netwStart
    PROVE  Networker' /\ rules'.old = rules.old /\ (netw'.ks <=> netw.ks) /\ netw'.vpn
BY Zenon DEF Networker, NetwOK, RulesOK, NetworkInv, netwStart, setNetwork

\* failureRecover keeps the network for the kill switch.
LEMMA StartFailsFacts ==
    ASSUME Networker, StartFails
    PROVE  Networker' /\ rules'.old = rules.old /\ (netw'.ks <=> netw.ks) /\ ~netw'.vpn
<1>1. netw.net \in BOOLEAN /\ netw.ks \in BOOLEAN
  BY DEF Networker, NetwOK
<1>2. CASE netw.net = TRUE /\ netw.ks = TRUE
  <2>1. netw' = [netw EXCEPT !.net = TRUE, !.vpn = FALSE] /\ rules' = rules
    BY <1>2, Zenon DEF StartFails
  <2> QED
    BY <1>2, <2>1, Zenon DEF Networker, NetwOK, RulesOK, NetworkInv
<1>3. CASE netw.net = TRUE /\ netw.ks = FALSE
  <2>1. netw' = [netw EXCEPT !.net = FALSE, !.vpn = FALSE] /\ rules' = [rules EXCEPT !.own = 0]
    BY <1>3, Zenon DEF StartFails
  <2>2. RulesOK' /\ rules'.own = 0 /\ rules'.old = rules.old
    BY <2>1 DEF Networker, RulesOK
  <2>3. NetwOK' /\ ~netw'.net /\ ~netw'.ks /\ ~netw'.vpn
    BY <1>3, <2>1, Zenon DEF Networker, NetwOK
  <2> QED
    BY <1>3, <2>2, <2>3 DEF Networker, NetwOK, RulesOK, NetworkInv
<1>4. CASE netw.net = FALSE
  <2>1. netw' = [netw EXCEPT !.net = FALSE, !.vpn = FALSE] /\ rules' = rules
    BY <1>4, Zenon DEF StartFails
  <2> QED
    BY <1>4, <2>1, Zenon DEF Networker, NetwOK, RulesOK, NetworkInv
<1> QED
  BY <1>1, <1>2, <1>3, <1>4, Zenon

\* netw.Stop keeps the network for the kill switch.
LEMMA StopFacts ==
    ASSUME Networker, netwStop
    PROVE  Networker' /\ rules'.old = rules.old /\ (netw'.ks <=> netw.ks) /\ ~netw'.vpn
<1>1. netw.vpn \in BOOLEAN /\ netw.ks \in BOOLEAN
  BY DEF Networker, NetwOK
<1>2. CASE netw.vpn = TRUE /\ netw.ks = TRUE
  <2>1. netw' = [netw EXCEPT !.net = TRUE, !.vpn = FALSE] /\ rules' = rules
    BY <1>2, Zenon DEF netwStop
  <2> QED
    BY <1>2, <2>1, Zenon DEF Networker, NetwOK, RulesOK, NetworkInv
<1>3. CASE netw.vpn = TRUE /\ netw.ks = FALSE
  <2>1. netw' = [netw EXCEPT !.net = FALSE, !.vpn = FALSE] /\ rules' = [rules EXCEPT !.own = 0]
    BY <1>3, Zenon DEF netwStop
  <2>2. RulesOK' /\ rules'.own = 0 /\ rules'.old = rules.old
    BY <2>1 DEF Networker, RulesOK
  <2>3. NetwOK' /\ ~netw'.net /\ ~netw'.ks /\ ~netw'.vpn
    BY <1>3, <2>1, Zenon DEF Networker, NetwOK
  <2> QED
    BY <1>3, <2>2, <2>3 DEF Networker, NetwOK, RulesOK, NetworkInv
<1>4. CASE netw.vpn = FALSE
  <2>1. netw' = netw /\ rules' = rules
    BY <1>4 DEF netwStop
  <2> QED
    BY <1>4, <2>1 DEF Networker, NetwOK, RulesOK, NetworkInv
<1> QED
  BY <1>1, <1>2, <1>3, <1>4, Zenon

\* The inductive invariant holds before the first process.
LEMMA InitIInv == Init => IInv
<1> SUFFICES ASSUME Init PROVE IInv
  OBVIOUS
<1> USE DEF Init, Dead, Defaults, None, NoNetwork, Routine, NoCall, At
<1>1. DiskOK
  BY Zenon DEF DiskOK, Configs
<1>2. MainOK
  BY DEF MainOK, Configs, Pcs, Exits
<1>3. NetwOK /\ RulesOK /\ HostOK
  BY DEF NetwOK, RulesOK, HostOK
<1>4. RoutinesOK /\ CallOK
  BY DEF RoutinesOK, CallOK, CallOps, CallPcs
<1>5. NetworkInv /\ CallInv /\ DiskInv /\ SwitchInv
  BY SMTT(30) DEF NetworkInv, CallInv, DiskInv, SwitchInv, Runs, Stops, Begins
<1>6. ShutdownInv /\ QuietInv /\ ExitInv
  BY DEF ShutdownInv, QuietInv, ExitInv, Stops, Begins
<1>7. OffInv
  BY DEF OffInv, LeavesNothing, KeptForShutdown
<1> QED
  BY <1>1, <1>2, <1>3, <1>4, <1>5, <1>6, <1>7 DEF IInv, TypeInv

\* main goes on to its next stage and does nothing else.
LEMMA MoveIInv ==
    ASSUME IInv, NEW next \in Pcs, Goes(next), UNCHANGED <<disk, netw, rules, host, auto, mesh, call>>,
           \/ At({"prepare"}) /\ next = "networker"
           \/ At({"networker"}) /\ next = "services"
           \/ At({"services"}) /\ next = "serve"
           \/ At({"serve"}) /\ next = "killswitch"
           \/ At({"killswitch"}) /\ next = IF disk.state = "ok" /\ disk.ks THEN "set killswitch" ELSE "background"
           \/ At({"netlink"}) /\ next = "automesh"
           \/ At({"grace"}) /\ call = NoCall /\ next = "users"
           \/ At({"users"}) /\ next = "vpn"
    PROVE  IInv'
<1> USE DEF IInv, TypeInv
<1>1. MainOK' /\ main'.pc = next /\ main'.found = main.found /\ main'.told = main.told /\ main'.late = main.late
  BY GoesFacts
<1>2. DiskOK' /\ NetwOK' /\ RulesOK' /\ HostOK' /\ RoutinesOK' /\ CallOK'
  <2>1. DiskOK' /\ NetwOK' /\ RulesOK'
    BY DEF DiskOK, NetwOK, RulesOK
  <2>2. HostOK' /\ RoutinesOK'
    BY DEF HostOK, RoutinesOK
  <2>3. CallOK'
    BY DEF CallOK, NoCall
  <2> QED
    BY <2>1, <2>2, <2>3
<1>3. NetworkInv'
  BY DEF NetworkInv
<1>4. CallInv' /\ DiskInv'
  BY <1>1 DEF CallInv, DiskInv, At, Runs, Stops
<1>5. SwitchInv'
  <2> USE DEF SwitchInv, At, Runs, Stops, Begins
  <2>1. (At(Begins) => netw = NoNetwork)' /\ (At({"set killswitch"}) => disk.ks)'
    BY <1>1
  <2>2. (At(Runs \cup Stops) /\ call.pc # "save" => (netw.ks <=> disk.ks))'
    <3>1. CASE At({"killswitch"}) /\ next = "background"
      <4>1. netw = NoNetwork /\ ~disk.ks
        BY <3>1 DEF DiskInv
      <4> QED
        BY <4>1 DEF NoNetwork
    <3>2. CASE At(Runs \cup Stops)
      BY <3>2
    <3> QED
      BY <1>1, <3>1, <3>2
  <2>3. (call.pc = "save" => (netw.ks <=> call.op = "on") /\ call.op \in {"on", "off"})'
    OBVIOUS
  <2> QED
    BY <2>1, <2>2, <2>3
<1>6. ShutdownInv' /\ QuietInv'
  BY <1>1 DEF ShutdownInv, QuietInv, At, Stops, Begins
<1>7. ExitInv' /\ OffInv'
  BY <1>1 DEF ExitInv, OffInv, At
<1> QED
  BY <1>1, <1>2, <1>3, <1>4, <1>5, <1>6, <1>7

\* The process ends: what it left in the kernel is what the next one finds.
LEMMA EndsIInv ==
    ASSUME IInv, NEW exit \in Exits, Ends(exit), HostOK', DiskOK',
           host'.state = host.state /\ host'.nologin = host.nologin,
           exit = "graceful" => At({"exit"}) /\ disk' = disk
    PROVE  IInv'
<1> USE DEF IInv, TypeInv
<1>1. /\ MainOK'
      /\ main'.pc = "off" /\ main'.exit = exit /\ main'.found = main.found
      /\ main'.told = main.told /\ main'.late = main.late /\ ~main'.dbus
  BY ZenonT(60) DEF Ends, Dead, MainOK, Pcs, Configs, Defaults
<1>2. RulesOK' /\ rules'.own = 0 /\ rules'.old = rules.old + rules.own
  BY DEF Ends, RulesOK
<1>3. netw' = NoNetwork /\ NetwOK' /\ ~netw'.net /\ ~netw'.ks /\ ~netw'.vpn
  BY DEF Ends, NetwOK, NoNetwork
<1>4. auto' = Routine /\ mesh' = Routine /\ call' = NoCall /\ RoutinesOK' /\ CallOK' /\ call'.pc = None
  BY DEF Ends, RoutinesOK, Routine, CallOK, NoCall, CallOps, CallPcs, None
<1>5. NetworkInv' /\ CallInv' /\ DiskInv'
  BY SMTT(30), <1>1, <1>2, <1>3, <1>4 DEF NetworkInv, CallInv, DiskInv, At
<1>6. SwitchInv' /\ ShutdownInv' /\ QuietInv' /\ ExitInv'
  BY <1>1, <1>4 DEF SwitchInv, ShutdownInv, QuietInv, ExitInv, At, Runs, Stops, Begins, None
<1>7. LeavesNothing'
  <2> SUFFICES ASSUME exit = "graceful", ~main.late, host.state = "up" PROVE rules'.old = main.found
    BY <1>1 DEF LeavesNothing
  <2>1. rules.own = 0 /\ rules.old = main.found
    BY DEF ExitInv, ShutdownInv, QuietInv, ShutdownIsActive, At
  <2> QED
    BY <1>2, <2>1 DEF RulesOK
<1>8. KeptForShutdown'
  <2> SUFFICES ASSUME exit = "graceful", main.told \/ host.nologin, disk'.ks PROVE rules'.own + rules'.old > 0
    BY <1>1 DEF KeptForShutdown, Blocked
  <2>1. netw.ks
    BY DEF ExitInv, ShutdownIsActive
  <2>2. rules.own = 1
    BY <2>1 DEF NetworkInv
  <2> QED
    BY <1>2, <2>2 DEF RulesOK
<1>9. OffInv'
  BY <1>1, <1>2, <1>3, <1>4, <1>7, <1>8 DEF OffInv
<1> QED
  BY <1>1, <1>2, <1>3, <1>4, <1>5, <1>6, <1>9

\* A client or StartAutoConnect calls the networker.
LEMMA NetworkIInv ==
    ASSUME IInv, Networker', UNCHANGED <<disk, main, host>>, rules'.old = rules.old,
           RoutinesOK', CallOK', mesh' = mesh,
           At(Runs \cup Stops \cup {"exit"}),
           \/ call' = call /\ (netw'.ks <=> netw.ks) /\ auto.pc \notin {"off", "done"}
           \/ call # NoCall /\ auto' = auto /\ call'.pc # "save" /\ (netw'.ks <=> netw.ks) /\ call.pc = "netw"
           \/ call # NoCall /\ auto' = auto /\ call'.pc = "save" /\ call'.op \in {"on", "off"} /\ (netw'.ks <=> call'.op = "on")
    PROVE  IInv'
<1> USE DEF IInv, TypeInv
<1>1. NetwOK' /\ RulesOK' /\ NetworkInv' /\ MainOK' /\ DiskOK' /\ HostOK'
  BY DEF Networker, MainOK, DiskOK, HostOK
<1>2. CallInv' /\ DiskInv' /\ ShutdownInv'
  BY DEF CallInv, DiskInv, ShutdownInv, At
<1>3. SwitchInv'
  <2>1. ~At(Begins) /\ ~At(Begins)'
    BY DEF At, Runs, Stops, Begins
  <2>2. (At(Runs \cup Stops) /\ call.pc # "save" => (netw.ks <=> disk.ks))'
    BY DEF SwitchInv, At
  <2>3. (call.pc = "save" => (netw.ks <=> call.op = "on") /\ call.op \in {"on", "off"})'
    BY DEF SwitchInv
  <2> QED
    BY <2>1, <2>2, <2>3 DEF SwitchInv, At, Begins
<1>4. QuietInv'
  BY DEF QuietInv, At, Runs, Stops, Begins, CallInv
<1>5. ExitInv'
  <2> SUFFICES ASSUME At({"exit"}) PROVE ExitInv'
    BY DEF ExitInv, At
  <2>1. call = NoCall
    BY DEF ExitInv
  <2>2. call' = call /\ (netw'.ks <=> netw.ks) /\ main.late
    BY <2>1 DEF QuietInv, At
  <2>3. ShutdownIsActive' <=> ShutdownIsActive
    BY DEF ShutdownIsActive
  <2> QED
    BY <2>1, <2>2, <2>3 DEF ExitInv
<1>6. OffInv'
  BY DEF OffInv, At, Runs, Stops
<1> QED
  BY <1>1, <1>2, <1>3, <1>4, <1>5, <1>6

\* The start up to the point where calls are served.
LEMMA StartIInv ==
    ASSUME Calm, IInv, Starting
    PROVE  IInv'
<1> USE DEF IInv, TypeInv
<1>1. CASE StartProcess
  <2>1. UNCHANGED <<disk, netw, rules, host, auto, mesh, call>>
    BY <1>1 DEF StartProcess
  <2>2. At({"off"})
    BY <1>1 DEF StartProcess, At
  <2>3. /\ MainOK' /\ main'.pc = "config" /\ main'.found = rules.old
        /\ main'.told = FALSE
    BY <1>1, Zenon DEF StartProcess, Dead, MainOK, Pcs, Begins, Configs, Defaults, Exits, RulesOK
  <2>4. netw = NoNetwork /\ auto = Routine /\ mesh = Routine /\ call = NoCall /\ host.state = "up"
    BY <1>1, <2>2 DEF OffInv, StartProcess
  <2>5. TypeInv' /\ NetworkInv'
    BY SMTT(30), <2>1, <2>3 DEF DiskOK, NetwOK, RulesOK, HostOK, RoutinesOK, CallOK, NoCall, NetworkInv
  <2>6. CallInv' /\ DiskInv' /\ ExitInv' /\ OffInv'
    BY <2>1, <2>3, <2>4, Zenon DEF CallInv, DiskInv, ExitInv, OffInv, At
  <2>7. SwitchInv'
    BY <2>1, <2>3, <2>4 DEF SwitchInv, At, Runs, Stops, Begins, NoCall, None
  <2>8. ShutdownInv' /\ QuietInv'
    BY <2>1, <2>3, <2>4 DEF ShutdownInv, QuietInv, At, Stops
  <2> QED
    BY <2>5, <2>6, <2>7, <2>8
<1>2. CASE LoadConfig
  <2>1. UNCHANGED <<netw, rules, host, auto, mesh, call>> /\ At({"config"})
    BY <1>2 DEF LoadConfig
  <2>2. DiskOK' /\ disk'.state = "ok" /\ main' = [main EXCEPT !.pc = "prepare", !.cfg = disk']
    BY <1>2 DEF LoadConfig, DiskOK, Configs, Defaults
  <2>3. /\ MainOK' /\ main'.pc = "prepare" /\ main'.found = main.found
        /\ main'.told = main.told /\ main'.late = main.late
    BY <2>2 DEF MainOK, Pcs, Begins, DiskOK
  <2>4. TypeInv' /\ NetworkInv'
    BY <2>1, <2>2, <2>3 DEF NetwOK, RulesOK, HostOK, RoutinesOK, CallOK, NoCall, NetworkInv
  <2>5. CallInv' /\ DiskInv' /\ ExitInv' /\ OffInv'
    BY <2>1, <2>2, <2>3 DEF CallInv, DiskInv, ExitInv, OffInv, At, Runs
  <2>6. call = NoCall
    BY <2>1 DEF CallInv, At, Runs
  <2>7. SwitchInv'
    BY <2>1, <2>3, <2>6 DEF SwitchInv, At, Runs, Stops, Begins, NoCall, None
  <2>8. ShutdownInv' /\ QuietInv'
    BY <2>1, <2>3 DEF ShutdownInv, QuietInv, At, Stops, Begins
  <2> QED
    BY <2>4, <2>5, <2>7, <2>8
<1>3. CASE PrepareEvents \/ PrepareNetworker \/ PrepareServices \/ Serve \/ StartKillSwitch \/ StartNetlink
  <2>1. {"networker", "services", "serve", "killswitch", "set killswitch", "background", "automesh"} \subseteq Pcs
    BY DEF Pcs, Begins, Runs
  <2> QED
    BY <1>3, <2>1, MoveIInv DEF PrepareEvents, PrepareNetworker, PrepareServices, Serve, StartKillSwitch, StartNetlink
<1>4. CASE StartsKillSwitch
  <2>1. SetKillSwitch /\ Goes("background") /\ At({"set killswitch"}) /\ UNCHANGED <<disk, host, auto, mesh, call>>
    BY <1>4 DEF StartsKillSwitch, Calm, May
  <2>2. Networker' /\ rules'.old = rules.old /\ netw'.ks
    BY <2>1, SetFacts DEF Networker
  <2>3. "background" \in Pcs
    BY DEF Pcs, Runs
  <2>4. /\ MainOK' /\ main'.pc = "background" /\ main'.found = main.found
        /\ main'.told = main.told /\ main'.late = main.late
    BY <2>1, <2>3, GoesFacts
  <2>5. TypeInv' /\ NetworkInv'
    BY <2>1, <2>2, <2>4 DEF Networker, DiskOK, HostOK, RoutinesOK, CallOK, NoCall
  <2>6. CallInv' /\ DiskInv' /\ ExitInv' /\ OffInv'
    BY <2>1, <2>4 DEF CallInv, DiskInv, ExitInv, OffInv, At, Runs
  <2>7. call = NoCall /\ disk.ks
    BY <2>1 DEF CallInv, SwitchInv, At, Runs
  <2>8. SwitchInv'
    BY <2>1, <2>2, <2>4, <2>7 DEF SwitchInv, At, Runs, Stops, Begins, NoCall, None
  <2>9. ShutdownInv' /\ QuietInv'
    BY <2>1, <2>2, <2>4 DEF ShutdownInv, QuietInv, At, Stops, Begins
  <2> QED
    BY <2>5, <2>6, <2>8, <2>9
<1>5. CASE StartBackground \/ StartMesh
  <2>1. UNCHANGED <<disk, netw, rules, host, call>> /\ At({"background", "automesh"})
    BY <1>5, Zenon DEF StartBackground, StartMesh, At
  <2>2. /\ MainOK' /\ main'.pc \in {"netlink", "wait"} /\ main'.found = main.found
        /\ main'.told = main.told /\ main'.late = main.late
    <3>1. CASE StartBackground
      <4>1. PICK bus \in BOOLEAN : main' = [main EXCEPT !.pc = "netlink", !.dbus = bus]
        BY <3>1, Zenon DEF StartBackground
      <4> QED
        BY <4>1, Zenon DEF MainOK, Pcs, Runs
    <3>2. CASE StartMesh
      BY <3>2, GoesFacts DEF StartMesh, Pcs, Runs
    <3> QED
      BY <1>5, <3>1, <3>2
  <2>3. RoutinesOK'
    BY <1>5, Zenon DEF StartBackground, StartMesh, RoutinesOK
  <2>4. TypeInv' /\ NetworkInv'
    BY <2>1, <2>2, <2>3 DEF NetwOK, RulesOK, DiskOK, HostOK, CallOK, NoCall, NetworkInv
  <2>5. CallInv' /\ DiskInv' /\ ExitInv' /\ OffInv'
    BY <2>1, <2>2 DEF CallInv, DiskInv, ExitInv, OffInv, At, Runs
  <2>6. SwitchInv'
    BY <2>1, <2>2 DEF SwitchInv, At, Runs, Stops, Begins
  <2>7. ShutdownInv' /\ QuietInv'
    BY <2>1, <2>2 DEF ShutdownInv, QuietInv, At, Stops, Begins
  <2> QED
    BY <2>4, <2>5, <2>6, <2>7
<1> QED
  BY <1>1, <1>2, <1>3, <1>4, <1>5 DEF Starting

\* The stop, after which nothing is left but what a shutdown of the system keeps.
LEMMA StopIInv ==
    ASSUME Calm, IInv, Stopping
    PROVE  IInv'
<1> USE DEF IInv, TypeInv
<1>1. CASE GracefulStop \/ StopUsers
  <2>1. {"users", "vpn"} \subseteq Pcs
    BY DEF Pcs, Stops
  <2> QED
    BY <1>1, <2>1, MoveIInv DEF GracefulStop, StopUsers
<1>2. ASSUME NEW next \in Pcs, Goes(next), UNCHANGED <<disk, host, auto, mesh, call>>,
             Networker', rules'.old = rules.old, netw'.ks <=> netw.ks,
             \/ At({"vpn"}) /\ next = "mesh" /\ ~netw'.vpn
             \/ At({"mesh"}) /\ next = "stop killswitch" /\ (netw'.vpn <=> netw.vpn)
      PROVE  IInv'
  <2>1. /\ MainOK' /\ main'.pc = next /\ main'.found = main.found
        /\ main'.told = main.told /\ main'.late = main.late
    BY <1>2, GoesFacts
  <2>2. TypeInv' /\ NetworkInv'
    BY <1>2, <2>1 DEF Networker, DiskOK, HostOK, RoutinesOK, CallOK, NoCall
  <2>3. CallInv' /\ DiskInv' /\ ExitInv' /\ OffInv'
    BY <1>2, <2>1 DEF CallInv, DiskInv, ExitInv, OffInv, At, Runs
  <2>4. SwitchInv'
    <3>1. call = NoCall
      BY <1>2 DEF CallInv, At, Runs
    <3> QED
      BY <1>2, <2>1, <3>1 DEF SwitchInv, At, Runs, Stops, Begins, NoCall, None
  <2>5. ShutdownInv' /\ QuietInv'
    BY <1>2, <2>1 DEF ShutdownInv, QuietInv, At, Stops, Begins
  <2> QED
    BY <2>2, <2>3, <2>4, <2>5
<1>3. CASE StopVpn
  <2>1. netwStop /\ Goes("mesh") /\ At({"vpn"}) /\ UNCHANGED <<disk, host, auto, mesh, call>> /\ "mesh" \in Pcs
    BY <1>3 DEF StopVpn, Calm, May, Pcs, Stops
  <2>2. Networker
    BY DEF Networker
  <2> QED
    BY <1>2, <2>1, <2>2, StopFacts
<1>4. CASE StopMesh
  <2>1. Goes("stop killswitch") /\ At({"mesh"}) /\ UNCHANGED <<disk, rules, host, auto, mesh, call>>
        /\ "stop killswitch" \in Pcs
    BY <1>4 DEF StopMesh, Pcs, Stops
  <2>2. NetwOK' /\ (netw'.ks <=> netw.ks) /\ (netw'.vpn <=> netw.vpn) /\ (netw'.net <=> netw.net)
    BY <1>4 DEF StopMesh, NetwOK
  <2>3. Networker'
    BY <2>1, <2>2 DEF Networker, NetworkInv, RulesOK
  <2> QED
    BY <1>2, <2>1, <2>2, <2>3
<1>5. CASE StopKillSwitch
  <2>1. main' = [main EXCEPT !.pc = "exit"] /\ At({"stop killswitch"}) /\ UNCHANGED <<disk, host, auto, mesh, call>>
    BY <1>5 DEF StopKillSwitch
  <2>2. /\ MainOK' /\ main'.pc = "exit" /\ main'.found = main.found
        /\ main'.told = main.told /\ main'.late = main.late
    BY <2>1 DEF MainOK, Pcs
  <2>3. call = NoCall /\ call.pc = None /\ disk.state = "ok"
    <3>1. call = NoCall /\ disk.state = "ok"
      BY <2>1 DEF CallInv, DiskInv, At, Runs
    <3> QED
      BY <3>1 DEF NoCall
  <2>4. netw.ks <=> disk.ks
    BY <2>1, <2>3 DEF SwitchInv, At, Stops, None
  <2>5. /\ Networker' /\ rules'.old = rules.old /\ (netw'.vpn <=> netw.vpn)
        /\ ShutdownIsActive => (netw'.ks <=> netw.ks)
        /\ ~ShutdownIsActive => ~netw'.ks
    <3>1. Networker
      BY DEF Networker
    <3>2. CASE disk.ks /\ ~ShutdownIsActive
      <4>1. UnsetKillSwitch \/ UnsetFails
        BY <1>5, <2>3, <3>2 DEF StopKillSwitch, Calm, May
      <4>2. ~UnsetFails
        BY <2>4, <3>2 DEF UnsetFails, NetworkInv
      <4> QED
        BY <3>1, <3>2, <4>1, <4>2, UnsetFacts
    <3>3. CASE ~disk.ks \/ ShutdownIsActive
      <4>1. UNCHANGED <<netw, rules>>
        BY <1>5, <3>3 DEF StopKillSwitch
      <4> QED
        BY <2>4, <3>1, <3>3, <4>1 DEF Networker, NetwOK, RulesOK, NetworkInv
    <3> QED
      BY <3>2, <3>3
  <2>6. TypeInv' /\ NetworkInv'
    BY <2>1, <2>2, <2>5 DEF Networker, DiskOK, HostOK, RoutinesOK, CallOK, NoCall
  <2>7. CallInv' /\ DiskInv' /\ OffInv'
    BY <2>1, <2>2, <2>3 DEF CallInv, DiskInv, OffInv, At
  <2>8. SwitchInv'
    BY <2>1, <2>2, <2>3 DEF SwitchInv, At, Runs, Stops, Begins, None
  <2>9. ShutdownInv' /\ QuietInv'
    BY <2>1, <2>2, <2>5 DEF ShutdownInv, QuietInv, At, Stops, Begins
  <2>10. ExitInv'
    <3>1. ShutdownIsActive' <=> ShutdownIsActive
      BY <2>1, <2>2 DEF ShutdownIsActive
    <3>2. ~main.late => ~netw.vpn
      BY <2>1 DEF QuietInv, At
    <3>3. ~main.late /\ ~ShutdownIsActive => rules'.own = 0
      BY <2>5, <3>2 DEF Networker, NetworkInv, RulesOK
    <3> QED
      BY <2>1, <2>2, <2>3, <2>4, <2>5, <3>1, <3>3 DEF ExitInv
  <2> QED
    BY <2>6, <2>7, <2>8, <2>9, <2>10
<1>6. CASE Exit
  <2>1. Ends("graceful") /\ At({"exit"}) /\ UNCHANGED <<disk, host>> /\ "graceful" \in Exits
    BY <1>6 DEF Exit, Exits
  <2>2. HostOK' /\ DiskOK'
    BY <2>1 DEF HostOK, DiskOK
  <2> QED
    BY <2>1, <2>2, EndsIInv
<1> QED
  BY <1>1, <1>3, <1>4, <1>5, <1>6 DEF Stopping

\* The calls of clients.
LEMMA ClientIInv ==
    ASSUME Calm, IInv, ClientCalls
    PROVE  IInv'
<1> USE DEF IInv, TypeInv
<1>1. ASSUME UNCHANGED <<main, netw, rules, host, auto, mesh>>, CallOK', DiskOK',
             disk'.state = disk.state, call' # NoCall => At(Runs \cup {"grace"}),
             \/ disk' = disk /\ call'.pc # "save" /\ call.pc # "save"
             \/ (netw.ks <=> disk'.ks) /\ call' = NoCall /\ At(Runs \cup {"grace"})
      PROVE  IInv'
  <2>1. TypeInv' /\ NetworkInv'
    BY SMTT(30), <1>1 DEF MainOK, NetwOK, RulesOK, HostOK, RoutinesOK, NetworkInv
  <2>2. CallInv' /\ DiskInv' /\ ShutdownInv' /\ QuietInv'
    BY <1>1, Zenon DEF CallInv, DiskInv, ShutdownInv, QuietInv, At
  <2>3. SwitchInv'
    <3>1. call' = NoCall => call'.pc # "save"
      BY DEF NoCall, None
    <3>2. (At(Begins) => netw = NoNetwork)' /\ (At({"set killswitch"}) => disk.ks)'
      BY <1>1 DEF SwitchInv, At, Runs, Begins
    <3>3. (At(Runs \cup Stops) /\ call.pc # "save" => (netw.ks <=> disk.ks))'
      BY <1>1 DEF SwitchInv, At
    <3> QED
      BY <1>1, <3>1, <3>2, <3>3 DEF SwitchInv
  <2>4. ExitInv'
    BY <1>1 DEF ExitInv, ShutdownIsActive, At, Runs, Stops
  <2>5. OffInv'
    BY <1>1 DEF OffInv, At, Runs, Stops, LeavesNothing, KeptForShutdown, Saved, Blocked
  <2> QED
    BY <2>1, <2>2, <2>3, <2>4, <2>5
<1>2. ASSUME NEW op \in {"on", "off", "connect", "disconnect"}, Call(op) PROVE IInv'
  <2>1. /\ UNCHANGED <<disk, main, netw, rules, host, auto, mesh>> /\ At(Runs)
        /\ call = NoCall
        /\ call' = [op |-> op, pc |-> IF op \in {"on", "off"} THEN "load" ELSE "netw"]
    BY <1>2 DEF Call, Serving, Calm, May, Runs, At
  <2>2. CallOK' /\ call'.pc # "save" /\ call.pc # "save"
    BY <2>1 DEF CallOK, CallOps, CallPcs, None, NoCall
  <2> QED
    BY <1>1, <2>1, <2>2 DEF DiskOK, At
<1>3. CASE LoadForCall
  <2>1. /\ UNCHANGED <<disk, main, netw, rules, host, auto, mesh>> /\ call.pc = "load"
        /\ call' \in {[call EXCEPT !.pc = "netw"], NoCall}
    BY <1>3 DEF LoadForCall
  <2>2. call # NoCall
    BY <2>1 DEF NoCall, None
  <2>3. CallOK' /\ call'.pc # "save"
    BY <2>1 DEF CallOK, CallOps, CallPcs, None, NoCall
  <2> QED
    BY <1>1, <2>1, <2>2, <2>3 DEF DiskOK, CallInv, At
<1>4. CASE SetsNetworker
  <2>1. UNCHANGED <<disk, main, host, auto, mesh>> /\ call.pc = "netw"
    BY <1>4 DEF SetsNetworker
  <2>2. call # NoCall /\ Networker
    BY <2>1 DEF NoCall, None, Networker
  <2>3. At(Runs \cup Stops \cup {"exit"})
    BY <2>2 DEF CallInv, At, Stops
  <2>4. /\ CallOK' /\ Networker' /\ rules'.old = rules.old
        /\ \/ call'.pc # "save" /\ (netw'.ks <=> netw.ks)
           \/ call'.pc = "save" /\ call'.op \in {"on", "off"} /\ (netw'.ks <=> call'.op = "on")
    <3>1. call' \in {[call EXCEPT !.pc = "save"], NoCall}
      BY <1>4 DEF SetsNetworker
    <3>2. CallOK' /\ (call' # NoCall => call'.pc = "save" /\ call'.op = call.op) /\ (call' = NoCall => call'.pc = None)
      BY <3>1 DEF CallOK, CallOps, CallPcs, None, NoCall
    <3>3. CASE call.op = "on" /\ SetKillSwitch /\ call' = [call EXCEPT !.pc = "save"]
      <4>1. call'.pc = "save" /\ call'.op = "on"
        BY <3>3 DEF CallOK
      <4> QED
        BY <2>2, <3>2, <3>3, <4>1, SetFacts
    <3>4. CASE call.op = "off" /\ UnsetKillSwitch /\ call' = [call EXCEPT !.pc = "save"]
      <4>1. call'.pc = "save" /\ call'.op = "off"
        BY <3>4 DEF CallOK
      <4> QED
        BY <2>2, <3>2, <3>4, <4>1, UnsetFacts
    <3>5. CASE UnsetFails /\ call' = NoCall
      BY <2>2, <3>2, <3>5 DEF UnsetFails, None, Networker, NetwOK, RulesOK, NetworkInv
    <3>6. CASE netwStart /\ call' = NoCall
      BY <2>2, <3>2, <3>6, StartFacts DEF None
    <3>7. CASE StartFails /\ call' = NoCall
      BY <2>2, <3>2, <3>7, StartFailsFacts DEF None
    <3>8. CASE netwStop /\ call' = NoCall
      BY <2>2, <3>2, <3>8, StopFacts DEF None
    <3> QED
      BY <1>4, <3>3, <3>4, <3>5, <3>6, <3>7, <3>8 DEF SetsNetworker
  <2>5. RoutinesOK'
    BY <2>1 DEF RoutinesOK
  <2> QED
    BY <2>1, <2>2, <2>3, <2>4, <2>5, NetworkIInv, Zenon
<1>5. CASE SavesConfig
  <2>1. /\ UNCHANGED <<main, netw, rules, host, auto, mesh>> /\ call.pc = "save"
        /\ disk' = [disk EXCEPT !.ks = call.op = "on"] /\ call' = NoCall
    BY <1>5 DEF SavesConfig, Calm, May
  <2>2. call # NoCall /\ (netw.ks <=> call.op = "on")
    <3>1. call # NoCall
      BY <2>1 DEF NoCall, None
    <3> QED
      BY <2>1, <3>1 DEF SwitchInv
  <2>3. DiskOK' /\ disk'.state = disk.state /\ (disk'.ks <=> call.op = "on")
    <3>1. CASE call.op = "on"
      <4>1. disk' = [disk EXCEPT !.ks = TRUE]
        BY <2>1, <3>1, Zenon
      <4> QED
        BY <3>1, <4>1, Zenon DEF DiskOK, Configs
    <3>2. CASE call.op # "on"
      <4>1. disk' = [disk EXCEPT !.ks = FALSE]
        BY <2>1, <3>2, Zenon
      <4> QED
        BY <3>2, <4>1, Zenon DEF DiskOK, Configs
    <3> QED
      BY <3>1, <3>2
  <2>4. CallOK'
    BY <2>1 DEF CallOK, CallOps, CallPcs, NoCall
  <2> QED
    BY <1>1, <2>1, <2>2, <2>3, <2>4 DEF CallInv
<1> QED
  BY <1>2, <1>3, <1>4, <1>5 DEF ClientCalls

\* What runs beside main: the goroutines of the start and the monitor of shutdowns.
LEMMA BesideIInv ==
    ASSUME Calm, IInv, StartAutoConnect \/ StartAutoMeshnet \/ ShutdownSignal \/ WaitSignal
    PROVE  IInv'
<1> USE DEF IInv, TypeInv
<1>1. CASE StartAutoConnect
  <2>1. UNCHANGED <<disk, main, host, mesh, call>> /\ auto.pc \in {"check", "connect"}
    BY <1>1 DEF StartAutoConnect
  <2>2. At(Runs \cup Stops \cup {"exit"})
    <3>1. auto # Routine
      BY SMTT(30), <2>1 DEF Routine
    <3>2. ~At(Begins) /\ ~At({"off"})
      BY <3>1 DEF QuietInv, OffInv
    <3> QED
      BY <3>2 DEF MainOK, At, Pcs
  <2>3. RoutinesOK' /\ CallOK'
    <3>1. auto' \in {[auto EXCEPT !.pc = "done"], [auto EXCEPT !.pc = "connect"], [auto EXCEPT !.pc = "check", !.tries = @ + 1]}
      BY <1>1 DEF StartAutoConnect, ConnectFailed
    <3>2. CallOK'
      BY <2>1 DEF CallOK, NoCall
    <3>3. auto' \in [pc : {"off", "check", "connect", "done"}, tries : Nat]
      <4>1. auto \in [pc : {"off", "check", "connect", "done"}, tries : Nat]
        BY DEF RoutinesOK
      <4>2. CASE auto' = [auto EXCEPT !.pc = "check", !.tries = @ + 1]
        <5>1. auto.tries + 1 \in Nat
          BY <4>1
        <5>2. auto' = [auto EXCEPT !.pc = "check", !.tries = auto.tries + 1]
          BY <4>1, <4>2
        <5> QED
          BY <4>1, <5>1, <5>2, Zenon
      <4>3. CASE auto' = [auto EXCEPT !.pc = "connect"]
        BY <4>1, <4>3
      <4>4. CASE auto' = [auto EXCEPT !.pc = "done"]
        BY <4>1, <4>4
      <4> QED
        BY <3>1, <4>2, <4>3, <4>4
    <3> QED
      BY <2>1, <3>2, <3>3 DEF RoutinesOK
  <2>4. Networker' /\ rules'.old = rules.old /\ (netw'.ks <=> netw.ks)
    <3>1. Networker
      BY DEF Networker
    <3>2. CASE UNCHANGED <<netw, rules>>
      BY <3>1, <3>2 DEF Networker, NetwOK, RulesOK, NetworkInv
    <3> QED
      BY <1>1, <3>1, <3>2, StartFacts, StartFailsFacts DEF StartAutoConnect
  <2> QED
    BY <2>1, <2>2, <2>3, <2>4, NetworkIInv, Zenon
<1>2. CASE StartAutoMeshnet
  <2>1. UNCHANGED <<disk, main, rules, host, auto, call>> /\ mesh.pc \in {"check", "start"}
    BY <1>2 DEF StartAutoMeshnet
  <2>2. ~At(Begins) /\ ~At({"off"})
    <3>1. mesh # Routine
      BY SMTT(30), <2>1 DEF Routine
    <3> QED
      BY <3>1 DEF QuietInv, OffInv
  <2>3. NetwOK' /\ (netw'.ks <=> netw.ks) /\ (netw'.vpn <=> netw.vpn) /\ (netw'.net <=> netw.net)
    BY <1>2, ZenonT(60) DEF StartAutoMeshnet, NetwOK
  <2>4. RoutinesOK'
    <3>1. mesh' \in {[mesh EXCEPT !.pc = "done"], [mesh EXCEPT !.pc = "start"], [mesh EXCEPT !.pc = "check", !.tries = @ + 1]}
      BY <1>2 DEF StartAutoMeshnet
    <3>2. mesh' \in [pc : {"off", "check", "start", "done"}, tries : Nat]
      <4>1. mesh \in [pc : {"off", "check", "start", "done"}, tries : Nat]
        BY DEF RoutinesOK
      <4>2. CASE mesh' = [mesh EXCEPT !.pc = "check", !.tries = @ + 1]
        <5>1. mesh.tries + 1 \in Nat
          BY <4>1
        <5>2. mesh' = [mesh EXCEPT !.pc = "check", !.tries = mesh.tries + 1]
          BY <4>1, <4>2
        <5> QED
          BY <4>1, <5>1, <5>2, Zenon
      <4>3. CASE mesh' = [mesh EXCEPT !.pc = "start"]
        BY <4>1, <4>3
      <4>4. CASE mesh' = [mesh EXCEPT !.pc = "done"]
        BY <4>1, <4>4
      <4> QED
        BY <3>1, <4>2, <4>3, <4>4
    <3> QED
      BY <2>1, <3>2 DEF RoutinesOK
  <2>5. TypeInv' /\ NetworkInv'
    BY <2>1, <2>3, <2>4, Zenon DEF MainOK, DiskOK, RulesOK, HostOK, CallOK, NoCall, NetworkInv
  <2>6. CallInv' /\ DiskInv' /\ ShutdownInv' /\ OffInv'
    BY <2>1, <2>2 DEF CallInv, DiskInv, ShutdownInv, OffInv, At
  <2>7. SwitchInv'
    BY <2>1, <2>2, <2>3 DEF SwitchInv, At, Begins
  <2>8. QuietInv' /\ ExitInv'
    BY <2>1, <2>2, <2>3 DEF QuietInv, ExitInv, ShutdownIsActive, At
  <2> QED
    BY <2>5, <2>6, <2>7, <2>8
<1>3. CASE ShutdownSignal
  <2>1. UNCHANGED <<disk, netw, rules, host, auto, mesh, call>> /\ host.state = "stopping" /\ ~At({"exit"}) /\ main.dbus
    BY <1>3 DEF ShutdownSignal
  <2>2. /\ MainOK' /\ main'.pc = main.pc /\ main'.found = main.found
        /\ main'.exit = main.exit /\ main'.late = main.late
    BY <1>3, Zenon DEF ShutdownSignal, MainOK
  <2>3. TypeInv' /\ NetworkInv'
    BY SMTT(30), <2>1, <2>2 DEF NetwOK, DiskOK, RulesOK, HostOK, RoutinesOK, CallOK, NoCall, NetworkInv
  <2>4. CallInv' /\ DiskInv' /\ ShutdownInv' /\ ExitInv'
    BY SMTT(30), <2>1, <2>2 DEF CallInv, DiskInv, ShutdownInv, ExitInv, At
  <2>5. SwitchInv' /\ QuietInv'
    BY <2>1, <2>2, Zenon DEF SwitchInv, QuietInv, At
  <2>6. ~At({"off"})
    BY <2>1 DEF OffInv
  <2>7. OffInv'
    BY <2>2, <2>6 DEF OffInv, At
  <2> QED
    BY <2>3, <2>4, <2>5, <2>7
<1>4. CASE WaitSignal
  <2>1. UNCHANGED <<disk, netw, rules, host, auto, mesh, call>> /\ At({"wait"})
    BY <1>4 DEF WaitSignal
  <2>2. /\ MainOK' /\ main'.pc = "grace" /\ main'.found = main.found /\ main'.told = main.told
        /\ ~main'.late => auto.pc \in {"off", "done"}
    <3> DEFINE late == auto.pc \notin {"off", "done"} \/ mesh.pc \notin {"off", "done"}
    <3>1. CASE late
      <4>1. main' = [main EXCEPT !.pc = "grace", !.late = TRUE]
        BY <1>4, <3>1, Zenon DEF WaitSignal
      <4> QED
        BY <4>1 DEF MainOK, Pcs, Stops
    <3>2. CASE ~late
      <4>1. main' = [main EXCEPT !.pc = "grace", !.late = FALSE]
        BY <1>4, <3>2, Zenon DEF WaitSignal
      <4> QED
        BY <3>2, <4>1 DEF MainOK, Pcs, Stops
    <3> QED
      BY <3>1, <3>2
  <2>3. TypeInv' /\ NetworkInv'
    BY SMTT(30), <2>1, <2>2 DEF NetwOK, DiskOK, RulesOK, HostOK, RoutinesOK, CallOK, NoCall, NetworkInv
  <2>4. CallInv' /\ DiskInv' /\ ShutdownInv' /\ ExitInv' /\ OffInv'
    BY <2>1, <2>2 DEF CallInv, DiskInv, ShutdownInv, ExitInv, OffInv, At
  <2>5. SwitchInv' /\ QuietInv'
    BY <2>1, <2>2 DEF SwitchInv, QuietInv, At, Runs, Stops, Begins
  <2> QED
    BY <2>3, <2>4, <2>5
<1> QED
  BY <1>1, <1>2, <1>3, <1>4

\* The process dies, or the system goes on without it.
LEMMA HostIInv ==
    ASSUME IInv, Fatal \/ Killed \/ EarlySignal \/ Shutdown \/ NoLogin \/ Boots
    PROVE  IInv'
<1> USE DEF IInv, TypeInv
<1>1. CASE Fatal \/ Killed \/ EarlySignal
  <2>1. PICK exit \in {"failure", "signal"} : Dies(exit)
    BY <1>1 DEF Fatal, Killed, EarlySignal
  <2>2. HostOK' /\ host'.state = host.state /\ host'.nologin = host.nologin
    BY <2>1 DEF Dies, HostOK
  <2>3. DiskOK'
    BY <1>1 DEF Fatal, Killed, EarlySignal, DiskOK, Configs
  <2>4. Ends(exit) /\ exit \in Exits /\ exit # "graceful"
    BY <2>1 DEF Dies, Exits
  <2> QED
    BY <2>2, <2>3, <2>4, EndsIInv, Zenon
<1>2. CASE Shutdown \/ NoLogin
  <2>1. UNCHANGED <<disk, main, netw, rules, auto, mesh, call>>
    BY <1>2 DEF Shutdown, NoLogin
  <2>2. /\ HostOK' /\ host'.state = "stopping"
        /\ host'.nologin => host.nologin \/ ~At({"off", "exit"})
        /\ host.nologin => host'.nologin
    BY <1>2, Zenon DEF Shutdown, NoLogin, HostOK
  <2>3. TypeInv' /\ NetworkInv'
    BY SMTT(30), <2>1, <2>2 DEF MainOK, NetwOK, DiskOK, RulesOK, RoutinesOK, CallOK, NoCall, NetworkInv
  <2>4. CallInv' /\ DiskInv' /\ ShutdownInv' /\ QuietInv' /\ SwitchInv'
    BY <2>1, <2>2, ZenonT(60) DEF CallInv, DiskInv, ShutdownInv, QuietInv, SwitchInv, At
  <2>5. ExitInv'
    <3> SUFFICES ASSUME At({"exit"}) PROVE ExitInv'
      BY <2>1 DEF ExitInv, At
    <3>1. ShutdownIsActive' <=> ShutdownIsActive
      BY <2>1, <2>2 DEF ShutdownIsActive, At
    <3> QED
      BY <2>1, <3>1 DEF ExitInv
  <2>6. OffInv'
    <3> SUFFICES ASSUME At({"off"}) PROVE OffInv'
      BY <2>1 DEF OffInv, At
    <3>1. host'.nologin <=> host.nologin
      BY <2>2 DEF At
    <3>2. LeavesNothing'
      BY <2>2 DEF LeavesNothing
    <3>3. KeptForShutdown'
      <4> SUFFICES ASSUME main.told \/ host.nologin PROVE KeptForShutdown'
        BY <2>1, <3>1 DEF KeptForShutdown
      <4>1. host.state = "stopping" /\ KeptForShutdown
        BY DEF ShutdownInv, OffInv
      <4> QED
        BY <2>1, <3>1, <4>1 DEF KeptForShutdown, Saved, Blocked
    <3> QED
      BY <2>1, <3>2, <3>3 DEF OffInv
  <2> QED
    BY <2>2, <2>3, <2>4, <2>5, <2>6
<1>3. CASE Boots
  <2>1. UNCHANGED <<disk, netw, auto, mesh, call>> /\ At({"off"})
    BY <1>3 DEF Boots, At
  <2>2. /\ MainOK' /\ main'.pc = "off" /\ main'.exit = None /\ main'.told = FALSE /\ ~main'.dbus
    BY <1>3 DEF Boots, Dead, MainOK, Pcs, Configs, Defaults, Exits
  <2>3. HostOK' /\ host'.state = "up" /\ host'.nologin = FALSE
    BY <1>3, Zenon DEF Boots, HostOK
  <2>4. RulesOK' /\ rules'.own = 0
    BY <1>3 DEF Boots, RulesOK
  <2>5. netw = NoNetwork /\ auto = Routine /\ mesh = Routine /\ call = NoCall /\ rules.own = 0
    BY <2>1 DEF OffInv
  <2>6. TypeInv' /\ NetworkInv'
    BY SMTT(30), <2>1, <2>2, <2>3, <2>4, <2>5 DEF NetwOK, DiskOK, RoutinesOK, CallOK, NoCall, NetworkInv
  <2>7. CallInv' /\ DiskInv' /\ ShutdownInv' /\ QuietInv' /\ ExitInv'
    BY <2>1, <2>2, <2>3, <2>5, Zenon DEF CallInv, DiskInv, ShutdownInv, QuietInv, ExitInv, At, Stops, Begins
  <2>8. SwitchInv'
    BY <2>1, <2>2, <2>5 DEF SwitchInv, At, Runs, Stops, Begins, NoCall, None
  <2>9. OffInv'
    BY <2>1, <2>2, <2>4, <2>5 DEF OffInv, LeavesNothing, KeptForShutdown, None
  <2> QED
    BY <2>6, <2>7, <2>8, <2>9
<1> QED
  BY <1>1, <1>2, <1>3

\* Every step keeps the inductive invariant.
LEMMA NextIInv == Calm /\ IInv /\ [Next]_vars => IInv'
<1> SUFFICES ASSUME Calm, IInv, [Next]_vars PROVE IInv'
  OBVIOUS
<1>1. CASE UNCHANGED vars
  <2>1. UNCHANGED <<disk, main, netw, rules, host, auto, mesh, call>>
    BY <1>1 DEF vars
  <2>2. TypeInv'
    BY SMTT(30), <2>1 DEF IInv, TypeInv, MainOK, DiskOK, NetwOK, RulesOK, HostOK, RoutinesOK, CallOK
  <2>3. NetworkInv' /\ CallInv' /\ DiskInv' /\ ShutdownInv'
    BY <2>1 DEF IInv, NetworkInv, CallInv, DiskInv, ShutdownInv, At
  <2>5. SwitchInv'
    BY <2>1 DEF IInv, SwitchInv, At
  <2>6. QuietInv'
    BY <2>1 DEF IInv, QuietInv, At
  <2>4. ExitInv' /\ OffInv'
    BY <2>1 DEF IInv, ExitInv, OffInv, At, ShutdownIsActive, LeavesNothing, KeptForShutdown, Saved, Blocked
  <2> QED
    BY <2>2, <2>3, <2>4, <2>5, <2>6 DEF IInv
<1> QED
  BY <1>1, StartIInv, StopIInv, ClientIInv, BesideIInv, HostIInv DEF Next

\* StartKillSwitch to StopKillSwitch: while the kill switch is on in the settings, traffic
\* outside of the tunnel is blocked, whoever connects, fails to or disconnects, and while
\* the daemon shuts down; however often the process dies and is started again.
THEOREM KillSwitchIsKept ==
    ASSUME Calm
    PROVE  Spec => []KillSwitchHolds
<1>1. IInv => KillSwitchHolds
  <2> SUFFICES ASSUME IInv, Saved, disk.ks, At(Runs \cup Stops) PROVE Blocked /\ netw.ks
    BY DEF KillSwitchHolds, At, Runs
  <2>1. netw.ks
    BY DEF IInv, SwitchInv, Saved
  <2>2. rules.own = 1 /\ rules.old \in Nat
    BY <2>1 DEF IInv, NetworkInv, TypeInv, RulesOK
  <2> QED
    BY SMTT(30), <2>1, <2>2 DEF Blocked
<1> QED
  BY InitIInv, NextIInv, <1>1, PTL DEF Spec

\* StopKillSwitch and unsetNetwork: a shutdown of the system that was noticed leaves the kill
\* switch on until the power is off; with the kill switch off and no VPN a process blocks
\* nothing; a graceful stop leaves no rule that was not there at the start, if the goroutines
\* that connect by themselves were done.
THEOREM StopIsClean ==
    ASSUME Calm
    PROVE  Spec => [](KeptForShutdown /\ OffMeansOff /\ LeavesNothing)
<1>1. IInv => OffMeansOff
  <2> SUFFICES ASSUME IInv, Saved, ~disk.ks, ~netw.vpn, At(Runs) PROVE rules.own = 0
    BY DEF OffMeansOff, At, Runs
  <2>1. ~netw.ks
    BY DEF IInv, SwitchInv, Saved, At
  <2> QED
    BY <2>1 DEF IInv, NetworkInv, TypeInv, RulesOK
<1>2. IInv => KeptForShutdown /\ LeavesNothing
  BY DEF IInv, OffInv, KeptForShutdown, LeavesNothing, At
<1> QED
  BY InitIInv, NextIInv, <1>1, <1>2, PTL DEF Spec

\* Blocked, of the rules that are in the kernel.
LEMMA BlockedFacts ==
    ASSUME NEW r \in [own : {0, 1}, old : Nat]
    PROVE  r.own + r.old > 0 <=> r.own = 1 \/ r.old > 0
<1>1. r.own \in {0, 1} /\ r.old \in Nat
  OBVIOUS
<1>2. CASE r.own = 0
  BY <1>1, <1>2
<1>3. CASE r.own = 1
  BY <1>1, <1>3
<1> QED
  BY <1>1, <1>2, <1>3

\* Ends: they are the same in number when the process is gone.
LEMMA EndsFacts ==
    ASSUME NEW r \in [own : {0, 1}, old : Nat], NEW s, s = [own |-> 0, old |-> r.old + r.own]
    PROVE  s.own + s.old = r.own + r.old
<1>1. r.own \in {0, 1} /\ r.old \in Nat
  OBVIOUS
<1>2. s.own = 0 /\ s.old = r.old + r.own
  OBVIOUS
<1>3. CASE r.own = 0
  BY SMTT(30), <1>1, <1>2, <1>3
<1>4. CASE r.own = 1
  BY SMTT(30), <1>1, <1>2, <1>4
<1> QED
  BY <1>1, <1>3, <1>4

\* netw.Stop, failureRecover and the kernel: once blocked for the kill switch, traffic stays
\* blocked, also while one process has died and the next has not begun, until the kill switch
\* is turned off, the daemon is stopped, or the system is booted.
THEOREM NotReopened ==
    ASSUME Calm
    PROVE  Spec => [][NeverReopened]_vars
<1>1. ASSUME IInv, Next PROVE NeverReopened
  <2> SUFFICES ASSUME netw.ks \/ rules.old > 0, Blocked, ~Blocked', call.op # "off", main.pc # "stop killswitch",
                      host.state # "stopping"
               PROVE FALSE
    BY DEF NeverReopened
  <2>1. Networker /\ RulesOK
    BY <1>1 DEF IInv, TypeInv, Networker
  <2>2. rules' = rules \/ SetKillSwitch \/ netwStart \/ netwStop \/ StartFails \/ \E exit \in Exits : Ends(exit)
    <3>1. CASE Starting
      BY <3>1, Zenon DEF Starting, StartProcess, LoadConfig, PrepareEvents, PrepareNetworker, PrepareServices, Serve,
         StartKillSwitch, StartsKillSwitch, StartBackground, StartNetlink, StartMesh
    <3>2. CASE Stopping
      BY <3>2 DEF Stopping, GracefulStop, StopUsers, StopVpn, StopMesh, StopKillSwitch, Exit, Exits, At
    <3>3. CASE ClientCalls
      BY <3>3 DEF ClientCalls, Call, LoadForCall, SetsNetworker, SavesConfig, UnsetFails
    <3>4. CASE WaitSignal \/ StartAutoConnect \/ StartAutoMeshnet \/ ShutdownSignal
      BY <3>4 DEF WaitSignal, StartAutoConnect, StartAutoMeshnet, ShutdownSignal
    <3>5. CASE Fatal \/ Killed \/ EarlySignal \/ Shutdown \/ NoLogin \/ Boots
      BY <3>5 DEF Fatal, Killed, EarlySignal, Dies, Exits, Shutdown, NoLogin, Boots
    <3> QED
      BY <1>1, <3>1, <3>2, <3>3, <3>4, <3>5 DEF Next
  <2>3. CASE rules' = rules
    BY <2>3 DEF Blocked
  <2>4. ASSUME Networker', rules'.old = rules.old, netw'.ks \/ netw'.vpn \/ rules.old > 0 PROVE FALSE
    <3>1. netw'.ks \/ netw'.vpn => rules'.own = 1
      BY <2>4 DEF Networker, NetworkInv
    <3>2. rules' \in [own : {0, 1}, old : Nat]
      BY <2>4 DEF Networker, RulesOK
    <3>3. rules'.own = 1 \/ rules'.old > 0
      BY <2>4, <3>1
    <3> QED
      BY <3>2, <3>3, BlockedFacts DEF Blocked
  <2>5. CASE SetKillSwitch
    BY <2>1, <2>4, <2>5, SetFacts
  <2>6. CASE netwStart
    BY <2>1, <2>4, <2>6, StartFacts
  <2>7. CASE netwStop
    BY <2>1, <2>4, <2>7, StopFacts
  <2>8. CASE StartFails
    BY <2>1, <2>4, <2>8, StartFailsFacts
  <2>9. ASSUME NEW exit \in Exits, Ends(exit) PROVE FALSE
    <3>1. rules' = [own |-> 0, old |-> rules.old + rules.own]
      BY <2>9 DEF Ends
    <3>2. rules \in [own : {0, 1}, old : Nat]
      BY <2>1 DEF RulesOK
    <3>3. rules'.own + rules'.old = rules.own + rules.old
      BY <3>1, <3>2, EndsFacts
    <3> QED
      BY <3>3 DEF Blocked
  <2> QED
    BY <2>2, <2>3, <2>5, <2>6, <2>7, <2>8, <2>9
<1> QED
  BY InitIInv, NextIInv, <1>1, PTL DEF Spec
=============================================================================
