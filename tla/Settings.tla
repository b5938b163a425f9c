------------------------------- MODULE Settings -------------------------------
(***************************************************************************)
(* The settings of the daemon (daemon/rpc_set_*.go, daemon/rpc_settings.go) *)
(* and the commands that change them.                                       *)
(*                                                                         *)
(* A handler loads the configuration, returns early or decides what to     *)
(* do from the copy it loaded, then calls the networker and saves, in an    *)
(* order of its own.  Each of the three is a step: the handlers of two      *)
(* clients interleave between them.  A handler is written as what it        *)
(* decides from the loaded configuration: its early returns, in order, and  *)
(* a plan.  The configuration file is in ConfigManager.tla; here loading    *)
(* and saving are atomic, and may fail.                                     *)
(***************************************************************************)
EXTENDS CliSettings, TLC

CONSTANTS
    Clients,     \* CLI processes
    Commands,    \* the commands that they run
    Interleaved, \* whether a connection may begin or end between the steps of a handler
    MaxPort,     \* internal.AllowlistMaxPort
    Faults       \* what may fail: "rpc", "load", "login", "factory",
                 \* "netw", "save", "fileshare"

VARIABLES
    cfg,         \* config.Config, saved
    netw,        \* what the networker and the other parts were told
    call         \* the command of a client

vars == <<cfg, netw, call>>

MinPort == 1
Private == {"private"}
Invalid == {"invalid"}

\* newConfig; the fields of AutoConnectData are in the same record.
newConfig ==
    [tech |-> "NORDLYNX", proto |-> "UDP", obf |-> FALSE, pq |-> FALSE, auto |-> FALSE, tag |-> "",
     fw |-> TRUE, mark |-> "default", routing |-> TRUE, ks |-> FALSE, lan |-> FALSE,
     udp |-> {}, tcp |-> {}, subnets |-> {}, tpl |-> FALSE, dns |-> {}, mesh |-> FALSE,
     analytics |-> TRUE, ipv6 |-> FALSE, virtual |-> TRUE, notify |-> TRUE, tray |-> TRUE]

Allowlist(c) == [udp |-> c.udp, tcp |-> c.tcp, subnets |-> c.subnets]

\* The name servers of a configuration: the user's, or NordVPN's with or
\* without Threat Protection Lite (config.DNS.Or, nameservers.Get).
Nameservers(dns, tpl) == IF dns # {} THEN dns ELSE IF tpl THEN {"tpl"} ELSE {"nordvpn"}

\* The daemon has started: main and StartKillSwitch told the networker the
\* saved settings.  allowlist and dns are what is in force.
Started(c) ==
    [fw |-> c.fw, ks |-> c.ks, routing |-> c.routing, lan |-> c.lan,
     allowlist |-> IF c.ks THEN Allowlist(c) ELSE Allowlist(newConfig),
     vpn |-> FALSE, dns |-> {}, tech |-> c.tech, mesh |-> c.mesh, analytics |-> c.analytics,
     tray |-> c.tray, fileshare |-> c.notify]

\* The networker is told of changes.  It has an allowlist in force while it is
\* connected or its kill switch is on (isNetworkSet), and name servers while it
\* is connected.  The allowlist that comes with the kill switch or a connection
\* is used when there was none.
Tell(n, told) ==
    LET to == told @@ n
        wasSet == n.vpn \/ n.ks
    IN [to EXCEPT
          !.allowlist = IF ~(to.vpn \/ to.ks) THEN Allowlist(newConfig)
                        ELSE IF {"ks", "vpn"} \cap DOMAIN told # {} /\ wasSet THEN n.allowlist ELSE @,
          !.dns = IF to.vpn THEN @ ELSE {}]

-----------------------------------------------------------------------------
(* Plans: the steps of a handler and the answer in the end.                  *)

\* A step tells the networker or saves.  When it fails, the handler answers
\* fails, having done a part; when fails is empty, it cannot fail, and when it
\* is "logged", the handler goes on.
Told(told, fails) == [do |-> "netw", to |-> told, part |-> <<>>, fails |-> fails]
Saved(saved, fails) == [do |-> "save", to |-> saved, part |-> <<>>, fails |-> fails]

Plan(steps, answer) == [steps |-> steps, answer |-> answer]
Return(answer) == Plan(<<>>, answer)
Save(saved, answer) == Plan(<<Saved(saved, "ConfigError")>>, answer)
TellAndSave(told, fails, saved, answer) ==
    Plan(<<Told(told, fails), Saved(saved, "ConfigError")>>, answer)

\* The early returns of a handler, each a condition and an answer, before its plan.
Unless(returns, plan) ==
    LET hits == {i \in DOMAIN returns : returns[i][1]} IN
    IF hits = {} THEN plan ELSE Return(returns[Min(hits)][2])

-----------------------------------------------------------------------------
(* The handlers, on the configuration c that they loaded.                   *)

SetAnalytics(c, on) ==
    Unless(<< <<c.analytics = on, "NothingToDo">> >>,
           TellAndSave([analytics |-> on], "ConfigError", [analytics |-> on], "Success"))

SetFirewall(c, on) ==
    Unless(<< <<c.fw = on, "NothingToDo">>, <<c.ks /\ ~on, "DependencyError">> >>,
           TellAndSave([fw |-> on], "Failure", [fw |-> on], "Success"))

SetFirewallMark(c, mark) ==
    Unless(<< <<c.mark = mark, "NothingToDo">> >>, Save([mark |-> mark], "Success"))

SetIpv6(c, on) == Unless(<< <<c.ipv6 = on, "NothingToDo">> >>, Save([ipv6 |-> on], "Success"))

SetVirtualLocation(c, on) ==
    Unless(<< <<c.virtual = on, "NothingToDo">> >>, Save([virtual |-> on], "Success"))

SetNotify(c, on) == Unless(<< <<c.notify = on, "NothingToDo">> >>, Save([notify |-> on], "Success"))

\* The user's process is restarted; a failure is logged.
SetTray(c, on) ==
    Unless(<< <<c.tray = on, "NothingToDo">> >>,
           Plan(<<Saved([tray |-> on], "ConfigError"), Told([tray |-> on], "Success")>>, "Success"))

\* The allowlist comes with the request: the command read it before.
SetKillSwitch(c, on, allowlist) ==
    Unless(<< <<~c.fw, "DependencyError">>, <<c.ks = on, "NothingToDo">> >>,
           TellAndSave(IF on THEN [ks |-> TRUE, allowlist |-> allowlist] ELSE [ks |-> FALSE],
                       "KillSwitchError", [ks |-> on], "Success"))

SetRouting(c, on) ==
    Unless(<< <<c.routing = on, "NothingToDo">>, <<c.mesh /\ ~on, "DependencyError">> >>,
           Plan(<<Saved([routing |-> on], "ConfigError"), Told([routing |-> on], "")>>, "Success"))

\* Mutant: the networker is told the allowlist as it was.
SetLANDiscoveryMutant(c, on) ==
    LET subnets == IF on THEN c.subnets \ Private ELSE c.subnets IN
    Unless(<< <<c.lan = on, "ALREADY_SET">> >>,
        Plan(<<Told([lan |-> on, allowlist |-> Allowlist(c)], "FAILURE"),
               Saved([lan |-> on, subnets |-> subnets], "CONFIG_ERROR")>>, "DISCOVERY_CONFIGURED"))

\* The private subnets leave the allowlist, and the networker is told of LAN
\* discovery before it is told of the allowlist.
SetLANDiscovery(c, on) ==
    LET subnets == IF on THEN c.subnets \ Private ELSE c.subnets IN
    Unless(<< <<c.lan = on, "ALREADY_SET">> >>,
        Plan(<<[Told([lan |-> on, allowlist |-> [Allowlist(c) EXCEPT !.subnets = subnets]], "FAILURE")
                  EXCEPT !.part = [lan |-> on]],
               Saved([lan |-> on, subnets |-> subnets], "CONFIG_ERROR")>>,
             IF subnets # c.subnets THEN "DISCOVERY_CONFIGURED_ALLOWLIST_RESET" ELSE "DISCOVERY_CONFIGURED"))

SetProtocol(c, proto) ==
    Unless(<< <<c.proto = proto, "ALREADY_SET">>, <<c.tech = "NORDLYNX", "INVALID_TECHNOLOGY">> >>,
        Plan(<<Saved([proto |-> proto], "CONFIG_ERROR")>>,
             IF netw.vpn THEN "PROTOCOL_CONFIGURED_VPN_ON" ELSE "PROTOCOL_CONFIGURED"))

\* core.IsServerObfuscated of a server tag
Obfuscated(tag) == tag = "obfuscated"
NotObfuscated(tag) == tag = "plain"

SetObfuscate(c, on) ==
    Unless(<< <<c.obf = on, "NothingToDo">>,
              <<c.auto /\ NotObfuscated(c.tag) /\ on, "AutoConnectServerNotObfuscated">>,
              <<c.auto /\ Obfuscated(c.tag) /\ ~on, "AutoConnectServerObfuscated">> >>,
           Save([obf |-> on], "Success"))

SetPostQuantum(c, on) ==
    Unless(<< <<c.pq = on, "NothingToDo">>, <<c.mesh /\ on, "PqAndMeshnetSimultaneously">>,
              <<c.tech # "NORDLYNX", "PqWithoutNordlynx">> >>,
           Save([pq |-> on], "Success"))

\* The factory may fail to make the VPN of a technology.
SetTechnology(c, tech, made) ==
    Unless(<< <<c.tech = tech, "NothingToDo">>, <<~made, "ConfigError">>,
              <<tech # "NORDLYNX" /\ c.pq, "PqWithoutNordlynx">> >>,
           Plan(<<Saved([tech |-> tech, proto |-> IF tech = "NORDLYNX" THEN "UDP" ELSE c.proto,
                         obf |-> tech # "NORDLYNX" /\ c.obf], "ConfigError"),
                  Told([tech |-> tech], "")>>, "Success"))

\* To be turned on it saves every field of AutoConnectData, as it was loaded.
SetAutoConnect(c, on, tag, loggedIn) ==
    Unless(<< <<~loggedIn, "rpc error">>,
              <<~c.auto /\ ~on, "NothingToDo">>,
              <<on /\ NotObfuscated(tag) /\ c.obf, "AutoConnectServerNotObfuscated">>,
              <<on /\ Obfuscated(tag) /\ ~c.obf, "AutoConnectServerObfuscated">>,
              <<on /\ tag = "unknown", "rpc error">>,
              <<on /\ tag = "dedicated", "DedicatedIPNoServer">> >>,
           Save(IF ~on THEN [auto |-> FALSE]
                ELSE [auto |-> TRUE, tag |-> tag, proto |-> c.proto, tpl |-> c.tpl, obf |-> c.obf,
                      dns |-> c.dns, udp |-> c.udp, tcp |-> c.tcp, subnets |-> c.subnets, pq |-> c.pq],
                "Success"))

SetDNS(c, dns) ==
    LET tpl == c.tpl /\ dns = {} IN
    Unless(<< <<Cardinality(dns) > 3, "TOO_MANY_VALUES">>, <<dns = c.dns, "ALREADY_SET">>,
              <<dns \cap Invalid # {}, "INVALID_DNS_ADDRESS">> >>,
        Plan(<<Told([dns |-> Nameservers(dns, tpl)], "FAILURE"), Saved([tpl |-> tpl, dns |-> dns], "CONFIG_ERROR")>>,
             IF tpl # c.tpl THEN "DNS_CONFIGURED_TPL_RESET" ELSE "DNS_CONFIGURED"))

SetThreatProtectionLite(c, on) ==
    Unless(<< <<c.tpl = on, "ALREADY_SET">> >>,
        Plan(<<Told([dns |-> Nameservers({}, on)], "CONFIG_ERROR"), Saved([tpl |-> on, dns |-> {}], "CONFIG_ERROR")>>,
             IF c.dns # {} /\ on THEN "TPL_CONFIGURED_DNS_RESET" ELSE "TPL_CONFIGURED"))

\* meshnet.Server.EnableMeshnet and DisableMeshnet, without what Meshnet.tla has
SetMesh(c, on) ==
    Unless(<< <<c.mesh /\ on, "ALREADY_ENABLED">>, <<~c.mesh /\ ~on, "ALREADY_DISABLED">>,
              <<on /\ c.pq, "CONFLICT_WITH_PQ">> >>,
           TellAndSave([mesh |-> on], "LIB_FAILURE", [mesh |-> on], "Empty"))

\* The connection and meshnet end, everything is reset, then the networker gets
\* the VPN of the default technology.  It is told nothing else.
SetDefaults(c, made) ==
    Plan(<<Told([vpn |-> FALSE], "Failure"), Told([mesh |-> FALSE], "logged"), Saved(newConfig, "ConfigError")>>
         \o (IF made THEN <<Told([tech |-> newConfig.tech], "")>> ELSE <<>>),
         IF made THEN "Success" ELSE "ConfigError")

-----------------------------------------------------------------------------
(* The allowlist.                                                           *)

\* arePortsValid: the early returns for the ports of one protocol.  The end of
\* a range is not compared with the largest port.
arePortsValid(start, end, ports, remove) ==
    << <<start < MinPort \/ start > MaxPort, "AllowlistPortOutOfRange">>,
       <<end # 0 /\ end < start, "AllowlistPortOutOfRange">>,
       <<remove /\ ~(start..end \subseteq ports), "AllowlistPortNoop">>,
       <<end = 0 /\ (start \in ports) # remove, "AllowlistPortNoop">> >>

getPortsInARange(start, end) == {start} \cup start..end

UpdatePorts(ports, range, remove) == IF remove THEN ports \ range ELSE ports \cup range

\* handleNewAllowlist
handleNewAllowlist(allowlist) ==
    TellAndSave([allowlist |-> allowlist], "Failure", allowlist, "Success")

\* getNewAllowlist of a request for ports: UDP, then TCP
AllowlistPorts(c, start, end, protocols, remove) ==
    LET range == getPortsInARange(start, end) IN
    Unless((IF "UDP" \in protocols THEN arePortsValid(start, end, c.udp, remove) ELSE <<>>) \o
           (IF "TCP" \in protocols THEN arePortsValid(start, end, c.tcp, remove) ELSE <<>>),
           handleNewAllowlist([Allowlist(c) EXCEPT
               !.udp = IF "UDP" \in protocols THEN UpdatePorts(@, range, remove) ELSE @,
               !.tcp = IF "TCP" \in protocols THEN UpdatePorts(@, range, remove) ELSE @]))

isSubnetValid(subnet, subnets, remove) ==
    << <<subnet \in Invalid, "AllowlistInvalidSubnet">>,
       <<(subnet \in subnets) # remove, "AllowlistSubnetNoop">> >>

\* getNewAllowlist of a request for a subnet
AllowlistSubnet(c, subnet, remove) ==
    Unless(<< <<c.lan /\ subnet \in Private, "PrivateSubnetLANDiscovery">> >>
              \o isSubnetValid(subnet, c.subnets, remove),
           handleNewAllowlist([Allowlist(c) EXCEPT
               !.subnets = IF remove THEN @ \ {subnet} ELSE @ \cup {subnet}]))

\* UnsetAllAllowlist does not load the configuration.
UnsetAllAllowlist == handleNewAllowlist([udp |-> {}, tcp |-> {}, subnets |-> {}])

-----------------------------------------------------------------------------
(* The commands.                                                            *)

Flags == {"analytics", "firewall", "ipv6", "virtual", "notify", "tray", "killswitch", "routing", "lan",
          "obfuscate", "postquantum", "tpl", "meshnet"}
Ports == [start : 0..MaxPort + 1, end : 0..MaxPort + 1, protocols : {{"UDP"}, {"TCP"}, {"UDP", "TCP"}}]
SinglePorts == {p \in Ports : p.end = 0}

\* The arguments of a command that it does not refuse itself.
Arguments(cmd) ==
    CASE cmd \in Flags -> BOOLEAN
      [] cmd = "mark" -> {"default", "other"}
      [] cmd = "protocol" -> {"UDP", "TCP"}
      [] cmd = "technology" -> {"NORDLYNX", "OPENVPN"}
      [] cmd = "autoconnect" ->
           [on : {TRUE}, tag : {"", "plain", "obfuscated", "dedicated", "unknown"}] \cup [on : {FALSE}, tag : {""}]
      [] cmd = "dns" -> {{}, {"a"}, {"b"}, {"a", "b"}, {"a", "invalid"}, {"a", "b", "c", "d"}}
      [] cmd \in {"add port", "remove port"} -> SinglePorts
      [] cmd \in {"add ports", "remove ports"} -> Ports
      [] cmd \in {"add subnet", "remove subnet"} -> {"public"} \cup Private \cup Invalid
      [] cmd \in {"remove all", "defaults", "settings"} -> {"none"}

\* The handler that answers a command.
Handle(cmd, arg, c, seen, made, loggedIn) ==
    CASE cmd = "analytics" -> SetAnalytics(c, arg)
      [] cmd = "firewall" -> SetFirewall(c, arg)
      [] cmd = "ipv6" -> SetIpv6(c, arg)
      [] cmd = "virtual" -> SetVirtualLocation(c, arg)
      [] cmd = "notify" -> SetNotify(c, arg)
      [] cmd = "tray" -> SetTray(c, arg)
      [] cmd = "killswitch" -> SetKillSwitch(c, arg, Allowlist(seen))
      [] cmd = "routing" -> SetRouting(c, arg)
      [] cmd = "lan" -> SetLANDiscovery(c, arg)
      [] cmd = "obfuscate" -> SetObfuscate(c, arg)
      [] cmd = "postquantum" -> SetPostQuantum(c, arg)
      [] cmd = "tpl" -> SetThreatProtectionLite(c, arg)
      [] cmd = "meshnet" -> SetMesh(c, arg)
      [] cmd = "mark" -> SetFirewallMark(c, arg)
      [] cmd = "protocol" -> SetProtocol(c, arg)
      [] cmd = "technology" -> SetTechnology(c, arg, made)
      [] cmd = "autoconnect" -> SetAutoConnect(c, arg.on, arg.tag, loggedIn)
      [] cmd = "dns" -> SetDNS(c, arg)
      [] cmd \in {"add port", "add ports"} -> AllowlistPorts(c, arg.start, arg.end, arg.protocols, FALSE)
      [] cmd \in {"remove port", "remove ports"} -> AllowlistPorts(c, arg.start, arg.end, arg.protocols, TRUE)
      [] cmd = "add subnet" -> AllowlistSubnet(c, arg, FALSE)
      [] cmd = "remove subnet" -> AllowlistSubnet(c, arg, TRUE)
      [] cmd = "remove all" -> UnsetAllAllowlist
      [] cmd = "defaults" -> SetDefaults(c, made)

\* What a handler answers when the configuration cannot be loaded.  The others
\* log it and go on with a new configuration.
CannotLoad ==
    [c \in {"add port", "add ports", "remove port", "remove ports", "add subnet", "remove subnet"} |-> "ConfigError"]
    @@ ("lan" :> "CONFIG_ERROR") @@ ("defaults" :> "Failure")

Reads == {"killswitch", "obfuscate", "settings"}

Cases ==
    ("analytics" :> SetAnalyticsCases) @@ ("firewall" :> SetFirewallCases) @@ ("ipv6" :> SetIpv6Cases) @@
    ("virtual" :> SetVirtualLocationCases) @@ ("notify" :> SetNotifyCases) @@ ("tray" :> SetTrayCases) @@
    ("killswitch" :> SetKillSwitchCases) @@ ("routing" :> SetRoutingCases) @@
    ("lan" :> (setLANDiscoveryErrors @@ setLANDiscoveryStatus)) @@ ("obfuscate" :> SetObfuscateCases) @@
    ("postquantum" :> SetPostquantumVpnCases) @@ ("tpl" :> SetThreatProtectionLiteCases) @@
    ("meshnet" :> SetMeshCases) @@ ("mark" :> SetFirewallMarkCases) @@
    ("protocol" :> (setProtocolErrors @@ setProtocolStatus)) @@ ("technology" :> SetTechnologyCases) @@
    ("autoconnect" :> SetAutoConnectCases) @@ ("dns" :> (setDNSErrors @@ setDNSStatus)) @@
    ("add port" :> AllowlistAddPortCases) @@ ("add ports" :> AllowlistAddPortsCases) @@
    ("remove port" :> AllowlistRemovePortCases) @@ ("remove ports" :> AllowlistRemovePortsCases) @@
    ("add subnet" :> AllowlistAddSubnetCases) @@ ("remove subnet" :> AllowlistRemoveSubnetCases) @@
    ("remove all" :> AllowlistRemoveAllCases) @@ ("defaults" :> SetDefaultsCases)

-----------------------------------------------------------------------------
(* The steps of a command.                                                  *)

Idle == [pc |-> "idle", cmd |-> "none", arg |-> "none", seen |-> newConfig, plan |-> Return("none"),
         end |-> "none", before |-> newConfig]

\* No handler is between its steps.
Quiet == \A cl \in Clients : call[cl].pc = "idle"

Init ==
    /\ cfg = newConfig
    /\ netw = Started(newConfig)
    /\ call = [c \in Clients |-> Idle]

Ends(cl, end) == call' = [call EXCEPT ![cl].pc = "idle", ![cl].end = end]

\* A client runs a command.  before is the configuration that it found.
Issue(cl) ==
    \E cmd \in Commands : \E arg \in Arguments(cmd) :
        /\ call[cl].pc = "idle"
        /\ call' = [call EXCEPT ![cl] =
              [Idle EXCEPT !.cmd = cmd, !.arg = arg, !.before = cfg, !.pc = IF cmd \in Reads THEN "read" ELSE "load"]]
        /\ UNCHANGED <<cfg, netw>>

\* The command refuses its arguments.
Misuse(cl) ==
    \E cmd \in Commands :
        /\ call[cl].pc = "idle"
        /\ call' = [call EXCEPT ![cl] = [Idle EXCEPT !.cmd = cmd, !.before = cfg, !.end = "error"]]
        /\ UNCHANGED <<cfg, netw>>

\* The settings are read: to print them, for the allowlist of the kill switch,
\* and because obfuscation needs OpenVPN.
Read(cl) ==
    /\ call[cl].pc = "read"
    /\ \E seen \in {cfg} \cup (IF "load" \in Faults THEN {newConfig} ELSE {}) :
          IF call[cl].cmd = "settings" THEN Ends(cl, "done")
          ELSE IF call[cl].cmd = "obfuscate" /\ seen.tech # "OPENVPN" THEN Ends(cl, "error")
          ELSE call' = [call EXCEPT ![cl].pc = "load", ![cl].seen = seen]
    /\ UNCHANGED <<cfg, netw>>

\* The daemon does not answer.  `set lan-discovery` reads the answer without a
\* look at the error and panics on nil.
RpcError(cl) ==
    /\ "rpc" \in Faults
    /\ call[cl].pc \in {"read", "load"}
    /\ Ends(cl, IF call[cl].cmd = "lan" THEN "panic" ELSE "error")
    /\ UNCHANGED <<cfg, netw>>

\* The handler loads the configuration and decides.
Load(cl) ==
    /\ call[cl].pc = "load"
    /\ \E loaded \in BOOLEAN, made \in BOOLEAN, loggedIn \in BOOLEAN :
          /\ loaded \/ "load" \in Faults
          /\ made \/ "factory" \in Faults
          /\ loggedIn \/ "login" \in Faults
          /\ call' = [call EXCEPT ![cl].pc = "steps", ![cl].plan =
                IF ~loaded /\ call[cl].cmd \in DOMAIN CannotLoad THEN Return(CannotLoad[call[cl].cmd])
                ELSE Handle(call[cl].cmd, call[cl].arg, IF loaded THEN cfg ELSE newConfig,
                            call[cl].seen, made, loggedIn)]
    /\ UNCHANGED <<cfg, netw>>

\* The next step of the handler, done.
Step(cl) ==
    LET steps == call[cl].plan.steps IN
    /\ call[cl].pc = "steps" /\ steps # <<>>
    /\ call' = [call EXCEPT ![cl].plan.steps = Tail(@)]
    /\ netw' = IF Head(steps).do = "netw" THEN Tell(netw, Head(steps).to) ELSE netw
    /\ cfg' = IF Head(steps).do = "save" THEN Head(steps).to @@ cfg ELSE cfg

\* The next step of the handler, failed.
StepFails(cl) ==
    LET steps == call[cl].plan.steps IN
    /\ call[cl].pc = "steps" /\ steps # <<>>
    /\ Head(steps).do \in Faults /\ Head(steps).fails # ""
    /\ call' = [call EXCEPT ![cl].plan = IF Head(steps).fails = "logged" THEN [@ EXCEPT !.steps = Tail(@)]
                                          ELSE Return(Head(steps).fails)]
    /\ netw' = Head(steps).part @@ netw
    /\ UNCHANGED cfg

Answered(cl) == call[cl].pc = "steps" /\ call[cl].plan.steps = <<>>
Shown(cl) == Ending(Cases[call[cl].cmd], call[cl].plan.answer)

\* The command shows the answer.
Show(cl) ==
    /\ Answered(cl) /\ call[cl].cmd # "notify"
    /\ Ends(cl, Shown(cl))
    /\ UNCHANGED <<cfg, netw>>

\* `set notify` tells the file sharing daemon too, unless the answer was an
\* error or it is not there.  It succeeds when one of the two had to be changed.
ShowNotify(cl) ==
    /\ Answered(cl) /\ call[cl].cmd = "notify"
    /\ \E reachable \in BOOLEAN, error \in BOOLEAN :
          LET told == Shown(cl) # "error" /\ reachable /\ ~error
              changes == netw.fileshare # call[cl].arg
          IN /\ (~reachable \/ error) => "fileshare" \in Faults
             /\ netw' = [netw EXCEPT !.fileshare = IF told THEN call[cl].arg ELSE @]
             /\ Ends(cl, IF Shown(cl) # "error" /\ reachable /\ error THEN "error"
                         ELSE IF told /\ changes THEN "done" ELSE Shown(cl))
    /\ UNCHANGED cfg

\* rpc_connect.go and rpc_disconnect.go: a connection begins and ends.
Connect ==
    /\ ~netw.vpn /\ (Quiet \/ Interleaved)
    /\ netw' = Tell(netw, [vpn |-> TRUE, allowlist |-> Allowlist(cfg), dns |-> Nameservers(cfg.dns, cfg.tpl)])
    /\ UNCHANGED <<cfg, call>>

Disconnect ==
    /\ netw.vpn /\ (Quiet \/ Interleaved)
    /\ netw' = Tell(netw, [vpn |-> FALSE])
    /\ UNCHANGED <<cfg, call>>

Next ==
    \/ \E cl \in Clients : \/ Issue(cl) \/ Misuse(cl) \/ Read(cl) \/ RpcError(cl) \/ Load(cl) \/ Step(cl)
                            \/ StepFails(cl) \/ Show(cl) \/ ShowNotify(cl)
    \/ Connect
    \/ Disconnect

Spec == Init /\ [][Next]_vars

-----------------------------------------------------------------------------
(* Properties.                                                              *)

Boolean == {"obf", "pq", "auto", "fw", "routing", "ks", "lan", "tpl", "mesh", "analytics", "ipv6", "virtual",
            "notify", "tray"}

TypeOK ==
    /\ DOMAIN cfg = DOMAIN newConfig
    /\ \A f \in Boolean : cfg[f] \in BOOLEAN
    /\ cfg.udp \cup cfg.tcp \subseteq 1..MaxPort + 1 /\ cfg.subnets \subseteq {"public"} \cup Private
    /\ DOMAIN netw = DOMAIN Started(cfg)
    /\ \A cl \in Clients : call[cl].pc \in {"idle", "read", "load", "steps"}

\* However the commands of one client follow each other, the saved settings fit
\* together: the kill switch has the firewall,
\* post-quantum encryption has NordLynx and no meshnet, NordLynx has UDP and no
\* obfuscation, Threat Protection Lite has no name servers of the user, and LAN
\* discovery no private subnet in the allowlist.  Every handler checks its own
\* side of these rules, against the copy that it loaded.
SettingsConsistent ==
    /\ cfg.ks => cfg.fw
    /\ cfg.pq => cfg.tech = "NORDLYNX" /\ ~cfg.mesh
    /\ cfg.tech = "NORDLYNX" => cfg.proto = "UDP" /\ ~cfg.obf
    /\ cfg.tpl => cfg.dns = {}
    /\ cfg.lan => cfg.subnets \cap Private = {}

\* The networker is as n when it was told of every setting of c.
Applies(n, c) ==
    /\ n.fw = c.fw /\ n.ks = c.ks /\ n.routing = c.routing /\ n.lan = c.lan
    /\ n.tech = c.tech /\ n.mesh = c.mesh /\ n.analytics = c.analytics /\ n.tray = c.tray
    /\ n.vpn \/ n.ks => n.allowlist = Allowlist(c)
    /\ n.vpn => n.dns = Nameservers(c.dns, c.tpl)

\* Between the commands of one client, what is in force is what is saved, over
\* connections too: the firewall, the kill switch and its allowlist, routing,
\* LAN discovery, the name servers of the connection and the technology of the
\* next.  Every handler does both, in an order of its own.
AppliedAsSaved == Quiet => Applies(netw, cfg)

\* Restoring the defaults leaves nothing of the former settings in force
\* (cli_set_defaults.go: "Restores settings to their default values.").
DefaultsApplied ==
    \A cl \in Clients :
        Quiet /\ call[cl].cmd = "defaults" /\ call[cl].end = "done" => Applies(netw, cfg)

Same(x, y) == [f \in Boolean |-> x[f]] = [f \in Boolean |-> y[f]] /\ Allowlist(x) = Allowlist(y) /\
              x.tech = y.tech /\ x.proto = y.proto /\ x.tag = y.tag /\ x.dns = y.dns /\ x.mark = y.mark

\* What the command asked for is saved.
Has(c, cmd, arg) ==
    CASE cmd = "technology" -> c.tech = arg
      [] cmd = "protocol" -> c.proto = arg
      [] cmd = "postquantum" -> c.pq = arg
      [] cmd = "obfuscate" -> c.obf = arg
      [] cmd = "autoconnect" -> c.auto = arg.on /\ (arg.on => c.tag = arg.tag)
      [] cmd = "killswitch" -> c.ks = arg
      [] cmd = "lan" -> c.lan = arg
      [] cmd = "tpl" -> c.tpl = arg
      [] cmd = "dns" -> c.dns = arg
      [] cmd \in {"add port", "add ports"} ->
           \A p \in {arg.start} \cup arg.start..arg.end : arg.protocols \subseteq Protocols(c.udp, c.tcp, p)
      [] cmd \in {"remove port", "remove ports"} ->
           \A p \in {arg.start} \cup arg.start..arg.end : arg.protocols \cap Protocols(c.udp, c.tcp, p) = {}
      [] cmd = "add subnet" -> arg \in c.subnets
      [] cmd = "remove subnet" -> arg \notin c.subnets
      [] cmd = "remove all" -> Allowlist(c) = Allowlist(newConfig)
      [] cmd = "defaults" -> c = newConfig
      [] OTHER -> TRUE

\* A command that ends in green has saved what it was asked; one that ends in
\* any other way has left the settings as they were.  The daemon's answers and
\* the cases of the command are far apart: an answer under the wrong case shows
\* here.
ShownAsSaved ==
    \A cl \in Clients : Quiet /\ call[cl].end # "none" =>
        IF call[cl].end = "done" THEN Has(cfg, call[cl].cmd, call[cl].arg)
        ELSE Same(cfg, call[cl].before)

\* Also when loading, saving, the networker or the VPN factory fail, a command
\* that ends in green has saved what it was asked.
DoneMeansSaved ==
    \A cl \in Clients : Quiet /\ call[cl].end = "done" => Has(cfg, call[cl].cmd, call[cl].arg)

\* The ranges that `nordvpn settings` prints are the allowlist: every port is in
\* exactly one of them, with its protocols, and no other port is in any.
PrintedAllowlist ==
    LET ranges == displayAllowlist(cfg.udp, cfg.tcp) IN
    \A p \in 0..MaxPort + 2 :
        {ranges[i].protocols : i \in {j \in DOMAIN ranges : p \in ranges[j].start..ranges[j].end}}
            = {Protocols(cfg.udp, cfg.tcp, p)} \ {{}}
=============================================================================
