----------------------------- MODULE Networker ------------------------------
(***************************************************************************)
(* networker.Combined, the part of the daemon that turns "connect",        *)
(* "disconnect", "kill switch", "meshnet", "allowlist" and a change of the *)
(* network into calls of the services below it: the VPN and mesh libraries,*)
(* the firewall, the routers, DNS, IPv6 and the exit node.                 *)
(*                                                                         *)
(* Its public methods hold one mutex, so each is one step; what makes them *)
(* hard is that each is a long list of calls, any of which may fail, with  *)
(* cleanup that undoes some of the earlier ones.  Every method is written  *)
(* as the Go code is: a state goes in, and the set of states the method    *)
(* can leave comes out, each with the error it returns.                    *)
(*                                                                         *)
(* The constant Faulty names the services whose calls may fail; a run      *)
(* chooses it.  The firewall is not one of them: what its failures do is   *)
(* the subject of module Firewall.                                         *)
(***************************************************************************)
EXTENDS OrderedRules, Integers, FiniteSets

CONSTANTS
    Links,          \* physical network interfaces a machine may have
    Subnets,        \* networks
    Allowlists,     \* the allowlists the configuration may hold
    LAN,            \* the private networks that LAN discovery allows
    Nameservers,    \* values of the DNS setting
    Servers,        \* VPN servers
    Peers,          \* meshnet peers one can connect to
    Ops,            \* the operations this instance performs
    Faulty,         \* the services that may fail
    Concurrent      \* whether other handlers run during a Disconnect

Services == {"vpn", "mesh", "ports", "policy", "route", "dns", "ipv6",
             "exitnode", "hosts"}

ASSUME LinksAssumption == IsFiniteSet(Links)
ASSUME ConcurrentAssumption == Concurrent \in BOOLEAN
ASSUME FaultyAssumption == Faulty \subseteq Services
ASSUME AllowlistsAssumption ==
    /\ Allowlists \subseteq [subnets : SUBSET Subnets, tcp : SUBSET Int, udp : SUBSET Int]
    /\ LAN \subseteq Subnets

None == "none"              \* nil: no value
DefaultNameservers == "nordvpn"   \* dns.NameServers.Get(false, false)
Technologies == {"NORDLYNX", "OPENVPN"}
EmptyAllowlist == [subnets |-> {}, tcp |-> {}, udp |-> {}]

VARIABLES
    netw,       \* the Combined struct and what its services hold
    links,      \* the physical interfaces that are up, all with a default route
    cached,     \* the interfaces the network monitor saw last
    disc,       \* the Disconnect handler: "idle", or what it does after the
                \* IsVPNActive check: "unset" or "stop"
    reset,      \* the ResetRouting call under way: the flags it has read
    config,     \* the settings the RPC handlers have saved
    crashed     \* a nil Tun was dereferenced, the daemon is gone

vars == <<netw, links, cached, disc, reset, config, crashed>>

-----------------------------------------------------------------------------
(* Outcomes.  A call yields a set of records [s, err].                      *)

Out(s, err) == {[s |-> s, err |-> err]}
Nil(s) == Out(s, "nil")
Fail(s) == Out(s, "fail")

\* A service call: it takes effect, or, where the service may fail, it
\* returns an error and has no effect.
Call(service, s, t) ==
    Nil(t) \cup (IF service \in Faulty THEN Fail(s) ELSE {})

\* "if err != nil { return err }"
Then(out, F(_)) == UNION {IF o.err = "nil" THEN F(o.s) ELSE {o} : o \in out}

\* "if err != nil { log }".  A panic is not an error value.
Logged(out) ==
    {IF o.err = "panic" THEN o ELSE [o EXCEPT !.err = "nil"] : o \in out}

\* "if err != nil && !errors.Is(err, e) { return err }"
Tolerate(out, e) == {IF o.err = e THEN [o EXCEPT !.err = "nil"] ELSE o : o \in out}

\* "if err != nil { err = F() }"
OrElse(out, F(_)) ==
    UNION {IF o.err \in {"nil", "panic"} THEN {o} ELSE F(o.s) : o \in out}

WithErr(out, err) == {[o EXCEPT !.err = err] : o \in out}

\* "defer func() { if err != nil { ... } }": the cleanup F logs its own errors.
OnError(out, F(_)) ==
    UNION {IF o.err \in {"nil", "panic"} THEN {o} ELSE WithErr(F(o.s), o.err) : o \in out}

-----------------------------------------------------------------------------
(* The VPN libraries, as seen through vpn.VPN and meshnet.Mesh.  Libtelio   *)
(* is both the NordLynx VPN and the mesh; active is IsActive(), tun tells   *)
(* whether Tun() is not nil, mesh is isMeshEnabled.                         *)

IsActive(s) ==
    IF s.vpnet = "NORDLYNX" THEN s.telio.active ELSE s.ovpn.active

HasTun(s) == IF s.vpnet = "NORDLYNX" THEN s.telio.tun ELSE s.ovpn.tun

isConnectedToVPN(s) == HasTun(s) /\ IsActive(s)

telioStart(s) ==
    Nil([s EXCEPT !.telio = [@ EXCEPT !.active = TRUE, !.tun = TRUE]])
    \cup (IF "vpn" \in Faulty
          THEN UNION {Fail([s EXCEPT !.telio = [@ EXCEPT !.active = FALSE, !.tun = t]]) :
                      t \in {TRUE, s.telio.tun /\ s.telio.mesh}}
          ELSE {})

\* OpenVPN.Start fails after a stop() of its own, or, on a management error
\* or timeout, with active still set.
ovpnStart(s) ==
    IF s.ovpn.active THEN Fail(s)
    ELSE Nil([s EXCEPT !.ovpn = [active |-> TRUE, tun |-> TRUE]])
         \cup (IF "vpn" \in Faulty
               THEN UNION {Fail([s EXCEPT !.ovpn = [active |-> a, tun |-> FALSE]]) :
                           a \in BOOLEAN}
               ELSE {})

vpnStart(s) == IF s.vpnet = "NORDLYNX" THEN telioStart(s) ELSE ovpnStart(s)

telioStop(s) ==
    Nil([s EXCEPT !.telio = [@ EXCEPT !.active = FALSE, !.tun = @ /\ s.telio.mesh]])
    \cup (IF "vpn" \in Faulty
          THEN Fail(s) \cup
               (IF s.telio.mesh THEN {} ELSE Fail([s EXCEPT !.telio.active = FALSE]))
          ELSE {})

ovpnStop(s) ==
    IF ~s.ovpn.active THEN Fail(s)
    ELSE Call("vpn", s, [s EXCEPT !.ovpn = [active |-> FALSE, tun |-> FALSE]])

vpnStop(s) == IF s.vpnet = "NORDLYNX" THEN telioStop(s) ELSE ovpnStop(s)

\* Libtelio.NetworkChanged: when libtelio cannot adapt and VPN is active, the
\* connection is broken and made again, which may fail half way.
telioNetworkChanged(s) ==
    Nil(s)
    \cup (IF "vpn" \in Faulty
          THEN Fail(s) \cup
               (IF s.telio.active
                THEN UNION {Fail([s EXCEPT !.telio = [@ EXCEPT !.active = FALSE, !.tun = t]]) :
                            t \in {TRUE, s.telio.mesh}}
                ELSE {})
          ELSE {})

vpnNetworkChanged(s) ==
    IF s.vpnet = "NORDLYNX" THEN telioNetworkChanged(s) ELSE Fail(s)

meshRefresh(s) == Call("mesh", s, s)

\* Libtelio.Enable re-connects an active VPN; its failure undoes the mesh and
\* may leave VPN disconnected and the tunnel closed.
meshEnable(s) ==
    Nil([s EXCEPT !.telio = [@ EXCEPT !.tun = TRUE, !.mesh = TRUE]])
    \cup (IF "mesh" \in Faulty
          THEN UNION {Fail([s EXCEPT !.telio = x]) :
                      x \in [active : {s.telio.active, FALSE}, tun : {TRUE},
                             mesh : {s.telio.mesh, FALSE}]
                            \cup {[active |-> FALSE, tun |-> FALSE, mesh |-> FALSE]}}
          ELSE {})

meshDisable(s) ==
    Nil([s EXCEPT !.telio = [@ EXCEPT !.mesh = FALSE, !.tun = @ /\ s.telio.active]])
    \cup (IF "mesh" \in Faulty
          THEN Fail(s) \cup
               (IF s.telio.active THEN {} ELSE Fail([s EXCEPT !.telio.mesh = FALSE]))
          ELSE {})

-----------------------------------------------------------------------------
(* The other services.                                                      *)

fwAdd(s, name, body) ==
    IF IsEqualRule(s.fw, Rule(name, body)) THEN Out(s, "exists")
    ELSE Nil([s EXCEPT !.fw = AddRule(@, Rule(name, body))])

fwAddIf(cond, s, name, body) == IF cond THEN fwAdd(s, name, body) ELSE Nil(s)

fwDelete(s, name) ==
    IF ~HasRule(s.fw, name) THEN Out(s, "notfound")
    ELSE Nil([s EXCEPT !.fw = DeleteRule(@, name)])

NoPolicy == [on |-> FALSE, local |-> FALSE, lan |-> FALSE, subnets |-> {}]

\* The routing agent: a failed set-up may have removed the rules there were.
SetupRoutingRules(s, local, lan, subnets) ==
    Nil([s EXCEPT !.policy = [on |-> TRUE, local |-> local, lan |-> lan,
                              subnets |-> subnets]])
    \cup (IF "policy" \in Faulty
          THEN Fail(s) \cup Fail([s EXCEPT !.policy = NoPolicy])
          ELSE {})

CleanupRouting(s) ==
    LET t == [s EXCEPT !.policy = NoPolicy]
    IN  Nil(t) \cup (IF "policy" \in Faulty THEN Fail(t) ELSE {})

routerFlush(s) == [s EXCEPT !.route = FALSE]

\* A route that is already remembered is refused.
peerRouterAdd(s) ==
    IF s.peerRoute THEN Fail(s)
    ELSE Call("route", s, [s EXCEPT !.peerRoute = TRUE])

peerRouterFlush(s) == [s EXCEPT !.peerRoute = FALSE]

\* netw.vpnet.Tun().Interface() on a nil Tun stops the daemon.
WithTun(s, out) == IF HasTun(s) THEN out ELSE Out(s, "panic")

setDNS(s, nameservers) ==
    WithTun(s, Call("dns", s, [s EXCEPT !.dns = nameservers]))

unsetDNS(s) == WithTun(s, Call("dns", s, [s EXCEPT !.dns = None]))

addDefaultRoute(s) ==
    WithTun(s, IF s.route THEN Fail(s)
               ELSE Call("route", s, [s EXCEPT !.route = TRUE]))

exitEnable(s) == Call("exitnode", s, [s EXCEPT !.exit.on = TRUE])

ExitOff == [on |-> FALSE, lan |-> FALSE, ks |-> FALSE]

\* The peers' rules go away with the exit node.
exitDisable(s) == Call("exitnode", s, [s EXCEPT !.exit = ExitOff])

exitResetPeers(s, lan, ks) ==
    Call("exitnode", s, [s EXCEPT !.exit = [@ EXCEPT !.lan = lan, !.ks = ks]])

exitResetFirewall(s, lan, ks) ==
    IF s.exit.on THEN exitResetPeers(s, lan, ks) ELSE Nil(s)

exitSetAllowlist(s) == Call("exitnode", s, s)

lanAvailable(s) == s.lanDiscovery \/ ~s.isNetworkSet

ipv6Unblock(s) == Call("ipv6", s, [s EXCEPT !.ipv6Blocked = FALSE])

denyIPv6(s) ==
    LET t == [s EXCEPT !.ipv6Enabled = FALSE]
    IN  IF ~t.isNetworkSet THEN Nil(t)
        ELSE Call("ipv6", t, [t EXCEPT !.ipv6Blocked = TRUE])

disableIPv6IfNeeded(s) == IF s.ipv6Enabled THEN Nil(s) ELSE denyIPv6(s)

SetHosts(s) == Call("hosts", s, [s EXCEPT !.hosts = TRUE])

UnsetHosts(s) == Call("hosts", s, [s EXCEPT !.hosts = FALSE])

-----------------------------------------------------------------------------
(* The firewall rules.  A body holds the interfaces, networks and ports.    *)

devices == links

Body(ifaces, nets, ports) == [ifaces |-> ifaces, nets |-> nets, ports |-> ports]

blockTraffic(s) ==
    Then(fwAdd(s, "drop-fw", Body(devices, {}, {})),
         LAMBDA t : fwAdd(t, "drop", Body(devices, {}, {})))

unblockTraffic(s) ==
    Then(fwDelete(s, "drop-fw"), LAMBDA t : fwDelete(t, "drop"))

IsTracked(s, name) == \E i \in DOMAIN s.rules : s.rules[i] = name

\* slices.Delete(netw.rules, slices.Index(netw.rules, name), ...)
Untrack(rules, name) ==
    DeleteAt(rules, CHOOSE i \in DOMAIN rules : rules[i] = name)

Dns == "deny-private-dns"

denyDNS(s) ==
    IF IsTracked(s, Dns) THEN Nil(s)
    ELSE Then(fwAdd(s, Dns, Body({}, LAN, {53})),
              LAMBDA t : Nil([t EXCEPT !.rules = Append(@, Dns)]))

undenyDNS(s) ==
    IF ~IsTracked(s, Dns) THEN Nil(s)
    ELSE Then(fwDelete(s, Dns),
              LAMBDA t : Nil([t EXCEPT !.rules = Untrack(@, Dns)]))

addLANPermissions(a) == [a EXCEPT !.subnets = @ \cup LAN]

Allows53(a) == 53 \in a.tcp \/ 53 \in a.udp

\* allowlistRouting.EnablePorts and Disable: the marks that route allowlisted
\* ports around the tunnel.
EnablePorts(s, proto, ports) ==
    IF ports = {} THEN Nil(s)
    ELSE Call("ports", s, [s EXCEPT !.portRoutes = @ \cup {proto}])

\* Mutant: the marks stay.
DisablePortsNever(s) == Nil(s)

DisablePorts(s) == Call("ports", s, [s EXCEPT !.portRoutes = {}])

\* Both EnablePorts calls come before any rule is added; ports above the
\* range of an uint16 are left out, and none of Allowlists has one.
allowlistRules(s, a) ==
    LET subnets == Body(devices, a.subnets, {})
        Ports(ps) == Body(devices, {}, ps)
    IN  Then(EnablePorts(s, "tcp", a.tcp),
        LAMBDA s1 : Then(EnablePorts(s1, "udp", a.udp),
        LAMBDA s2 : Then(fwAddIf(a.subnets # {}, s2, "allowlist_subnets", subnets),
        LAMBDA s3 : Then(fwAddIf(a.subnets # {}, s3, "allowlist_subnets_forward", subnets),
        LAMBDA s4 : Then(fwAddIf(a.tcp # {}, s4, "allowlist_ports_tcp", Ports(a.tcp)),
        LAMBDA s5 : fwAddIf(a.udp # {}, s5, "allowlist_ports_udp", Ports(a.udp)))))))

setAllowlist(s, allowlist) ==
    LET a == IF s.lanDiscovery THEN addLANPermissions(allowlist) ELSE allowlist
    IN  Then(allowlistRules(s, a),
        LAMBDA t : Then(IF Allows53(a) THEN Nil(t) ELSE denyDNS(t),
        LAMBDA u : SetupRoutingRules([u EXCEPT !.allowlist = a],
                                     u.enableLocalTraffic, u.lanDiscovery, a.subnets)))

fwDeleteAny(s, name) == Tolerate(fwDelete(s, name), "notfound")

unsetAllowlist(s) ==
    Then(fwDeleteAny(s, "allowlist_subnets"),
    LAMBDA s1 : Then(fwDeleteAny(s1, "allowlist_subnets_forward"),
    LAMBDA s2 : Then(fwDeleteAny(s2, "allowlist_ports_tcp"),
    LAMBDA s3 : Then(fwDeleteAny(s3, "allowlist_ports_udp"),
    LAMBDA s4 : Then(DisablePorts(s4),
    LAMBDA s5 : IF Allows53(s5.allowlist) THEN Nil(s5) ELSE undenyDNS(s5))))))

resetAllowlist(s) ==
    Then(unsetAllowlist(s), LAMBDA t : setAllowlist(t, t.allowlist))

setNetwork(s, allowlist) ==
    Then(Tolerate(blockTraffic(s), "exists"),
    LAMBDA s1 : Then(fwAdd(s1, "api_allowlist", Body(devices, {}, {})),
    LAMBDA s2 : Then(setAllowlist(s2, allowlist),
    LAMBDA s3 : Then(Logged(exitResetFirewall(s3, s3.lanDiscovery, TRUE)),
    LAMBDA s4 : Nil([s4 EXCEPT !.isNetworkSet = TRUE])))))

unsetNetwork(s) ==
    Then(fwDelete(s, "api_allowlist"),
    LAMBDA s1 : Then(Tolerate(unblockTraffic(s1), "notfound"),
    LAMBDA s2 : Then(unsetAllowlist(s2),
    LAMBDA s3 : Then(Logged(exitResetFirewall(s3, TRUE, FALSE)),
    LAMBDA s4 : Nil([s4 EXCEPT !.isNetworkSet = FALSE])))))

setKillSwitch(s, allowlist) ==
    Then(IF s.isNetworkSet THEN Nil(s) ELSE setNetwork(s, allowlist),
         LAMBDA t : Nil([t EXCEPT !.isKillSwitchSet = TRUE]))

\* Mutant: the rules go away although VPN needs them.
unsetKillSwitchAlways(s) ==
    Then(unsetNetwork(s), LAMBDA t : Nil([t EXCEPT !.isKillSwitchSet = FALSE]))

unsetKillSwitch(s) ==
    Then(IF s.isVpnSet THEN Nil(s) ELSE unsetNetwork(s),
         LAMBDA t : Nil([t EXCEPT !.isKillSwitchSet = FALSE]))

-----------------------------------------------------------------------------
(* Meshnet.  The rules for the mesh subnet and its peers are one rule here, *)
(* MeshRule; netw.rules tracks it and deny-private-dns in the order added.  *)

MeshRule == "mesh-rules"

\* fw.Delete(netw.rules): stops at the first name that fails
deleteTracked(s) ==
    CASE Len(s.rules) = 0 -> Nil(s)
      [] Len(s.rules) = 1 -> fwDelete(s, s.rules[1])
      [] OTHER -> Then(fwDelete(s, s.rules[1]), LAMBDA t : fwDelete(t, s.rules[2]))

\* Mutant: the names stay in netw.rules.
defaultMeshUnBlockKeepsNames(s) == deleteTracked(s)

defaultMeshUnBlock(s) ==
    Then(deleteTracked(s), LAMBDA t : Nil([t EXCEPT !.rules = <<>>]))

\* defaultMeshBlock and the allow rules of this machine and its peers
meshBlock(s) ==
    Then(fwAdd(s, MeshRule, Body({}, {}, {})),
         LAMBDA t : Nil([t EXCEPT !.rules = Append(@, MeshRule)]))

refresh(s) ==
    Then(Logged(defaultMeshUnBlock(s)),
    LAMBDA s1 : Then(Logged(UnsetHosts(s1)),
    LAMBDA s2 : Then(Logged(exitDisable(s2)),
    LAMBDA s3 : Then(exitEnable(s3),
    LAMBDA s4 : Then(meshRefresh(s4),
    LAMBDA s5 : Then(meshBlock(s5),
    LAMBDA s6 : Then(exitResetPeers(s6, lanAvailable(s6), s6.isKillSwitchSet),
    LAMBDA s7 : SetHosts(s7))))))))

\* The cleanup of setMesh; it removes the routing rules only if this call
\* has set them.
meshRecover(s, routingRulesSet) ==
    Then(IF routingRulesSet THEN Logged(CleanupRouting(s)) ELSE Nil(s),
    LAMBDA s1 : Then(Logged(defaultMeshUnBlock(s1)),
    LAMBDA s2 : Then(Logged(UnsetHosts(s2)),
    LAMBDA s3 : Then(Logged(exitDisable(s3)),
    LAMBDA s4 : Logged(meshDisable(peerRouterFlush(s4)))))))

FlushIf(cond, s) == IF cond THEN routerFlush(s) ELSE s

\* Mutant: the default route is not added again.
AddRouteIfNever(cond, s) == Nil(s)

AddRouteIf(cond, s) == IF cond THEN addDefaultRoute(s) ELSE Nil(s)

\* mesh.Enable; when it broke the connection to VPN, VPN counts as stopped
setMeshEnable(s) ==
    {IF o.err # "nil" /\ o.s.isVpnSet /\ ~o.s.telio.active
     THEN [s |-> [o.s EXCEPT !.isVpnSet = FALSE], err |-> "closed"] ELSE o :
       o \in meshEnable(FlushIf(s.isVpnSet, s))}

setMeshRouting(s) ==
    Then(setMeshEnable(s),
    LAMBDA s1 : Then(AddRouteIf(s1.isVpnSet, s1),
    LAMBDA s2 : SetupRoutingRules(s2, s2.enableLocalTraffic, s2.lanDiscovery,
                                  s2.allowlist.subnets)))

setMesh(s) ==
    IF s.isMeshnetSet THEN Fail(s)
    ELSE Then(OnError(setMeshRouting(s), LAMBDA t : meshRecover(t, FALSE)),
         LAMBDA s1 : OnError(
            Then(peerRouterAdd(s1),
            LAMBDA s2 : Then(refresh(s2),
            LAMBDA s3 : Nil([s3 EXCEPT !.isMeshnetSet = TRUE]))),
            LAMBDA t : meshRecover(t, TRUE)))

unSetMesh(s) ==
    IF ~s.isMeshnetSet THEN Fail(s)
    ELSE Then(UnsetHosts(s),
         LAMBDA s1 : Then(defaultMeshUnBlock(s1),
         LAMBDA s2 : Then(exitDisable(s2),
         LAMBDA s3 : Then(IF s3.isVpnSet THEN Nil(s3) ELSE CleanupRouting(s3),
         LAMBDA s4 : Then(meshDisable(FlushIf(s4.isVpnSet, peerRouterFlush(s4))),
         LAMBDA s5 : Then(AddRouteIf(s5.isVpnSet, s5),
         LAMBDA s6 : Nil([s6 EXCEPT !.isMeshnetSet = FALSE])))))))

-----------------------------------------------------------------------------
(* Connecting and disconnecting.                                            *)

switchToNextVpn(s) ==
    IF s.nextVPN = None THEN s
    ELSE [s EXCEPT !.vpnet = s.nextVPN, !.nextVPN = None]

\* Mutant: the recovery does not look at the kill switch.
failureRecoverUnsets(s) ==
    Then(IF s.isMeshnetSet THEN Nil(s) ELSE Logged(CleanupRouting(s)),
    LAMBDA s1 : Then(Logged(vpnStop(routerFlush(s1))),
    LAMBDA s2 : Then(IF s2.isNetworkSet THEN Logged(unsetNetwork(s2)) ELSE Nil(s2),
    LAMBDA s3 : Nil([s3 EXCEPT !.isVpnSet = FALSE]))))

failureRecover(s) ==
    Then(IF s.isMeshnetSet THEN Nil(s) ELSE Logged(CleanupRouting(s)),
    LAMBDA s1 : Then(Logged(vpnStop(routerFlush(s1))),
    LAMBDA s2 : Then(IF s2.isNetworkSet /\ ~s2.isKillSwitchSet
                     THEN Logged(unsetNetwork(s2)) ELSE Nil(s2),
    LAMBDA s3 : Nil([s3 EXCEPT !.isVpnSet = FALSE]))))

\* A failed Start is followed by a Stop.
vpnStartOrStop(s) == OnError(vpnStart(s), LAMBDA t : Logged(vpnStop(t)))

configureFirewall(s, allowlist) ==
    Then({IF o.err = "exists" \/ (o.err # "panic" /\ o.s.isNetworkSet)
          THEN [o EXCEPT !.err = "nil"] ELSE o : o \in setNetwork(s, allowlist)},
         LAMBDA t : resetAllowlist(t))

configureDNS(s, server, nameservers) ==
    setDNS(s, IF s.isMeshnetSet /\ server \in Peers THEN DefaultNameservers
              ELSE nameservers)

configureNetwork(s, allowlist, server, nameservers) ==
    Then(configureFirewall(s, allowlist),
    LAMBDA s1 : Then(addDefaultRoute(s1),
    LAMBDA s2 : Then(configureDNS(s2, server, nameservers),
    LAMBDA s3 : Then(IF s3.isMeshnetSet THEN refresh(s3) ELSE Nil(s3),
    LAMBDA s4 : disableIPv6IfNeeded(s4)))))

start(s, server, allowlist, nameservers) ==
    IF s.isVpnSet THEN Fail(s)
    ELSE OnError(
        Then(vpnStartOrStop(s),
        LAMBDA s1 : Then(SetupRoutingRules(s1, s1.enableLocalTraffic, s1.lanDiscovery,
                                           allowlist.subnets),
        LAMBDA s2 : Then(configureNetwork(s2, allowlist, server, nameservers),
        LAMBDA s3 : Nil([s3 EXCEPT !.isVpnSet = TRUE, !.lastServer = server,
                                   !.lastNameservers = nameservers,
                                   !.interfaces = links])))),
        LAMBDA t : failureRecover(t))

restart(s, server, nameservers) ==
    OnError(
        Then(vpnStop(routerFlush(s)),
        LAMBDA s1 : Then(vpnStartOrStop(switchToNextVpn(s1)),
        LAMBDA s2 : Then(addDefaultRoute(s2),
        LAMBDA s3 : Then(configureDNS(s3, server, nameservers),
        LAMBDA s4 : Then(Logged(disableIPv6IfNeeded(s4)),
        LAMBDA s5 : Nil([s5 EXCEPT !.lastServer = server])))))),
        LAMBDA t : failureRecover(t))

stop(s) ==
    Then(Logged(ipv6Unblock(s)),
    LAMBDA s1 : Then(unsetDNS(s1),
    LAMBDA s2 : Then(IF s2.isMeshnetSet
                     THEN SetupRoutingRules(s2, TRUE, s2.lanDiscovery,
                                            s2.allowlist.subnets)
                     ELSE Logged(CleanupRouting(s2)),
    LAMBDA s3 : Then(vpnStop(routerFlush(s3)),
    LAMBDA s4 : Then(IF s4.isKillSwitchSet THEN Nil(s4) ELSE unsetNetwork(s4),
    LAMBDA s5 : Nil([switchToNextVpn(s5) EXCEPT !.isVpnSet = FALSE]))))))

-----------------------------------------------------------------------------
(* A change of the network.                                                 *)

fixForLinuxMint20(s) ==
    Then(setDNS(s, s.lastNameservers), LAMBDA t : setDNS(t, t.lastNameservers))

handleNetworkChanged(s) ==
    Then(IF s.isMeshnetSet THEN telioNetworkChanged(s) ELSE Nil(s),
    LAMBDA s1 :
        IF ~s1.isVpnSet THEN Nil(s1)
        ELSE Then(IF s1.isMeshnetSet /\ s1.vpnet = "NORDLYNX" THEN Nil(s1)
                  ELSE vpnNetworkChanged(s1),
             LAMBDA s2 : Then(fixForLinuxMint20(s2),
             LAMBDA s3 : resetAllowlist(s3))))

\* unSetMesh, then setMesh; their errors do not stop refreshVPN
remesh(s) == Logged(Then(unSetMesh(s), LAMBDA t : setMesh(t)))

\* stop, mesh, start: the VPN error is what it returns
recreate(s, isMeshStarted) ==
    Then(stop(s),
    LAMBDA s1 : Then(IF isMeshStarted THEN remesh(s1) ELSE Nil(s1),
    LAMBDA s2 : start(s2, s2.lastServer, s2.allowlist, s2.lastNameservers)))

\* Mutant: no kill switch while the tunnel is made again.
underKillSwitchNone(s, isMeshStarted) == recreate(s, isMeshStarted)

\* A kill switch of its own holds while the tunnel is made again.  After a
\* failure only the flag is reset, the rules stay.
underKillSwitch(s, isMeshStarted) ==
    Then(setKillSwitch(s, s.allowlist),
    LAMBDA s1 : UNION {
        CASE o.err = "nil" -> unsetKillSwitch(o.s)
          [] o.err = "panic" -> {o}
          [] OTHER -> {[o EXCEPT !.s.isKillSwitchSet = FALSE]} :
        o \in recreate(s1, isMeshStarted)})

reinit(s, isVPNStarted, isMeshStarted) ==
    LET t == [s EXCEPT !.interfaces = links]
    IN  IF ~isVPNStarted THEN remesh(t)
        ELSE IF t.isKillSwitchSet THEN recreate(t, isMeshStarted)
        ELSE underKillSwitch(t, isMeshStarted)

refreshVPN(s) ==
    IF ~s.isVpnSet /\ ~s.isMeshnetSet THEN Nil(s)
    ELSE LET again(t) == reinit(t, s.isVpnSet, s.isMeshnetSet)
         IN  IF ~(links \subseteq s.interfaces) THEN again(s)
             ELSE OrElse(handleNetworkChanged(s), LAMBDA t : again(t))

-----------------------------------------------------------------------------
(* The public methods.                                                      *)

Start(s, server, allowlist, nameservers, enableLocalTraffic) ==
    LET t == [s EXCEPT !.enableLocalTraffic = enableLocalTraffic]
    IN  IF isConnectedToVPN(t) THEN restart(t, server, nameservers)
        ELSE start(t, server, allowlist, nameservers)

Stop(s) ==
    IF ~s.isVpnSet THEN Nil(s)
    ELSE Then(stop(s), LAMBDA t : Nil([t EXCEPT !.interfaces = {}]))

UnsetFirewall(s) == IF s.isKillSwitchSet THEN Nil(s) ELSE unsetNetwork(s)

SetVPN(s, v) ==
    IF IsActive(s) THEN [s EXCEPT !.nextVPN = v] ELSE [s EXCEPT !.vpnet = v]

SetDNS(s, nameservers) ==
    IF ~isConnectedToVPN(s) THEN Nil(s)
    ELSE setDNS([s EXCEPT !.lastNameservers = nameservers], nameservers)

PermitIPv6(s) == ipv6Unblock([s EXCEPT !.ipv6Enabled = TRUE])

UnSetMesh(s) == unSetMesh([s EXCEPT !.enableLocalTraffic = TRUE])

SetAllowlist(s, allowlist) ==
    Then(IF s.isNetworkSet
         THEN Then(unsetAllowlist(s), LAMBDA t : setAllowlist(t, allowlist))
         ELSE Nil(s),
         LAMBDA t : exitSetAllowlist(t))

SetLanDiscovery(s, enabled) ==
    LET t == [s EXCEPT !.lanDiscovery = enabled]
    IN  Then(IF t.isMeshnetSet \/ t.isVpnSet
             THEN Logged(SetupRoutingRules(t, t.enableLocalTraffic, enabled,
                                           t.allowlist.subnets))
             ELSE Nil(t),
        LAMBDA u : Logged(exitResetFirewall(u, lanAvailable(u), u.isKillSwitchSet)))

Reconnect(s, stateIsUp) ==
    Then(IF s.isVpnSet THEN Logged(disableIPv6IfNeeded(s)) ELSE Nil(s),
    LAMBDA t : IF stateIsUp THEN Logged(refreshVPN(t)) ELSE Nil(t))

-----------------------------------------------------------------------------
(* NewCombined, before the first method is called.                          *)

NewCombined(lanDiscovery) ==
    [vpnet |-> "NORDLYNX", nextVPN |-> None,
     telio |-> [active |-> FALSE, tun |-> FALSE, mesh |-> FALSE],
     ovpn |-> [active |-> FALSE, tun |-> FALSE],
     isNetworkSet |-> FALSE, isKillSwitchSet |-> FALSE,
     isVpnSet |-> FALSE, isMeshnetSet |-> FALSE,
     rules |-> <<>>, allowlist |-> EmptyAllowlist,
     lastServer |-> None, lastNameservers |-> None,
     ipv6Enabled |-> FALSE, lanDiscovery |-> lanDiscovery,
     enableLocalTraffic |-> TRUE, interfaces |-> {},
     fw |-> <<>>, dns |-> None, ipv6Blocked |-> FALSE, route |-> FALSE,
     policy |-> NoPolicy, peerRoute |-> FALSE, hosts |-> FALSE,
     exit |-> ExitOff, portRoutes |-> {}]

NoReset == [on |-> FALSE, lan |-> FALSE, ks |-> FALSE]

Init ==
    /\ \E lanDiscovery \in (IF "lan" \in Ops THEN BOOLEAN ELSE {FALSE}), a \in Allowlists :
          /\ lanDiscovery => a.subnets \cap LAN = {}
          /\ netw = NewCombined(lanDiscovery)
          /\ config = [tech |-> "NORDLYNX", allowlist |-> a, lan |-> lanDiscovery]
    /\ links = Links
    /\ cached = links
    /\ disc = "idle"
    /\ reset = NoReset
    /\ crashed = FALSE

-----------------------------------------------------------------------------
(* The steps.                                                               *)

env == <<links, cached, disc, reset, config>>

Return(out) ==
    \E o \in out : netw' = o.s /\ crashed' = (o.err = "panic")

\* An RPC handler or a job may call a method of kind op now.
Does(op) == ~crashed /\ op \in Ops /\ (disc = "idle" \/ Concurrent)

ConnectServer ==
    /\ Does("start")
    /\ \E server \in Servers, ns \in Nameservers :
          Return(Start(netw, server, config.allowlist, ns, TRUE))
    /\ UNCHANGED env

\* meshnet connect: to a peer, over NordLynx only
ConnectPeer ==
    /\ Does("peer")
    /\ netw.isMeshnetSet /\ config.tech = "NORDLYNX"
    /\ \E peer \in Peers, ns \in Nameservers, local \in BOOLEAN :
          Return(Start(netw, peer, config.allowlist, ns, local))
    /\ UNCHANGED env

StopVPN == Does("stop") /\ Return(Stop(netw)) /\ UNCHANGED env

\* RPC.Disconnect: the check and what follows are two critical sections
DisconnectCheck ==
    /\ ~crashed /\ "disconnect" \in Ops /\ disc = "idle"
    /\ disc' = IF isConnectedToVPN(netw) THEN "stop" ELSE "unset"
    /\ UNCHANGED <<netw, links, cached, reset, config, crashed>>

DisconnectUnset ==
    /\ ~crashed /\ disc = "unset"
    /\ Return(UnsetFirewall(netw))
    /\ disc' = "idle"
    /\ UNCHANGED <<links, cached, reset, config>>

DisconnectStop ==
    /\ ~crashed /\ disc = "stop"
    /\ Return(Stop(netw))
    /\ disc' = "idle"
    /\ UNCHANGED <<links, cached, reset, config>>

SetKillSwitch ==
    /\ Does("killswitch")
    /\ Return(setKillSwitch(netw, config.allowlist))
    /\ UNCHANGED env

UnsetKillSwitch ==
    Does("killswitch") /\ Return(unsetKillSwitch(netw)) /\ UNCHANGED env

SetMesh == Does("mesh") /\ Return(setMesh(netw)) /\ UNCHANGED env

RefreshMesh ==
    Does("mesh") /\ netw.isMeshnetSet /\ Return(refresh(netw)) /\ UNCHANGED env

UnsetMesh == Does("mesh") /\ Return(UnSetMesh(netw)) /\ UNCHANGED env

\* Settings are saved once the networker has taken the allowlist.
ReturnAndSave(out, saved) ==
    /\ \E o \in out :
          /\ netw' = o.s /\ crashed' = (o.err = "panic")
          /\ config' = IF o.err = "nil" THEN saved ELSE config
    /\ UNCHANGED <<links, cached, disc, reset>>

\* RPC.SetAllowlist: no private network while LAN discovery is on
ChangeAllowlist ==
    /\ Does("allowlist")
    /\ \E a \in Allowlists :
          /\ config.lan => a.subnets \cap LAN = {}
          /\ ReturnAndSave(SetAllowlist(netw, a), [config EXCEPT !.allowlist = a])

\* RPC.SetLANDiscovery: private networks leave the allowlist when it is turned
\* on, and the networker is given the allowlist again.
ChangeLanDiscovery ==
    LET enabled == ~config.lan
        a == IF enabled THEN [config.allowlist EXCEPT !.subnets = @ \ LAN]
             ELSE config.allowlist
    IN  /\ Does("lan")
        /\ ReturnAndSave(Then(SetLanDiscovery(netw, enabled),
                              LAMBDA t : SetAllowlist(t, a)),
                         [config EXCEPT !.allowlist = a, !.lan = enabled])

ChangeDNS ==
    /\ Does("dns")
    /\ \E ns \in Nameservers : Return(SetDNS(netw, ns))
    /\ UNCHANGED env

Permit == Does("ipv6") /\ Return(PermitIPv6(netw)) /\ UNCHANGED env

Deny == Does("ipv6") /\ Return(denyIPv6(netw)) /\ UNCHANGED env

ChangeTechnology ==
    /\ Does("setvpn")
    /\ \E v \in Technologies \ {config.tech} :
          Return(Nil(SetVPN(netw, v))) /\ config' = [config EXCEPT !.tech = v]
    /\ UNCHANGED <<links, cached, disc, reset>>

\* ResetRouting reads the flags without the lock and uses them later
ResetRoutingRead ==
    /\ Does("reset")
    /\ netw.isMeshnetSet /\ ~reset.on
    /\ reset' = [on |-> TRUE, lan |-> lanAvailable(netw), ks |-> netw.isKillSwitchSet]
    /\ UNCHANGED <<netw, links, cached, disc, config, crashed>>

ResetRoutingApply ==
    /\ ~crashed /\ reset.on
    /\ Return(exitResetPeers(netw, reset.lan, reset.ks))
    /\ reset' = NoReset
    /\ UNCHANGED <<links, cached, disc, config>>

\* A network interface is plugged in or out.
LinksChange ==
    /\ ~crashed /\ "links" \in Ops
    /\ \E l \in Links : links' = (links \ {l}) \cup ({l} \ links)
    /\ UNCHANGED <<netw, cached, disc, reset, config, crashed>>

\* NetlinkMonitor.checkForChanges, on a goroutine of its own
checkForChanges ==
    /\ ~crashed
    /\ cached # links
    /\ cached' = links
    /\ Return(Reconnect(netw, links # {}))
    /\ UNCHANGED <<links, disc, reset, config>>

Next ==
    \/ ConnectServer \/ ConnectPeer \/ StopVPN
    \/ DisconnectCheck \/ DisconnectUnset \/ DisconnectStop
    \/ SetKillSwitch \/ UnsetKillSwitch
    \/ SetMesh \/ RefreshMesh \/ UnsetMesh
    \/ ChangeAllowlist \/ ChangeLanDiscovery \/ ChangeDNS \/ Permit \/ Deny
    \/ ChangeTechnology \/ ResetRoutingRead \/ ResetRoutingApply
    \/ LinksChange \/ checkForChanges

Spec == Init /\ [][Next]_vars

-----------------------------------------------------------------------------
(* Types.                                                                   *)

RuleNameSet == {"drop-fw", "drop", "api_allowlist", "allowlist_subnets",
                "allowlist_subnets_forward", "allowlist_ports_tcp",
                "allowlist_ports_udp", Dns, MeshRule}

BodySet == [ifaces : SUBSET Links, nets : SUBSET Subnets, ports : SUBSET Int]

\* netw.rules never holds a name twice.
Tracked == {r \in Seq({Dns, MeshRule}) : \A i, j \in DOMAIN r : r[i] = r[j] => i = j}

AllowlistSet == [subnets : SUBSET Subnets, tcp : SUBSET Int, udp : SUBSET Int]

ConfigSet == [tech : Technologies, allowlist : AllowlistSet, lan : BOOLEAN]

TelioSet == [active : BOOLEAN, tun : BOOLEAN, mesh : BOOLEAN]

OvpnSet == [active : BOOLEAN, tun : BOOLEAN]

PolicySet == [on : BOOLEAN, local : BOOLEAN, lan : BOOLEAN, subnets : SUBSET Subnets]

ExitSet == [on : BOOLEAN, lan : BOOLEAN, ks : BOOLEAN]

CombinedSet ==
    [vpnet : Technologies, nextVPN : Technologies \cup {None},
     telio : TelioSet, ovpn : OvpnSet,
     isNetworkSet : BOOLEAN, isKillSwitchSet : BOOLEAN,
     isVpnSet : BOOLEAN, isMeshnetSet : BOOLEAN,
     rules : Tracked, allowlist : AllowlistSet,
     lastServer : Servers \cup Peers \cup {None},
     lastNameservers : Nameservers \cup {None},
     ipv6Enabled : BOOLEAN, lanDiscovery : BOOLEAN,
     enableLocalTraffic : BOOLEAN, interfaces : SUBSET Links,
     fw : Seq([name : RuleNameSet, body : BodySet]),
     dns : Nameservers \cup {None, DefaultNameservers},
     ipv6Blocked : BOOLEAN, route : BOOLEAN,
     policy : PolicySet,
     peerRoute : BOOLEAN, hosts : BOOLEAN,
     exit : ExitSet,
     portRoutes : SUBSET {"tcp", "udp"}]

\* The values of the variables.  The networker never tracks a rule name
\* twice, however its methods follow each other.
TypeOK ==
    /\ netw \in CombinedSet
    /\ links \subseteq Links /\ cached \subseteq Links
    /\ disc \in {"idle", "unset", "stop"}
    /\ reset \in ExitSet
    /\ config \in ConfigSet
    /\ crashed \in BOOLEAN

-----------------------------------------------------------------------------
(* Properties.                                                              *)

BlockRules == {"drop-fw", "drop", "api_allowlist"}

AllowRules == {"allowlist_subnets", "allowlist_subnets_forward",
               "allowlist_ports_tcp", "allowlist_ports_udp"}

BlocksTraffic(s) == BlockRules \subseteq RuleNames(s.fw)

\* While the kill switch flag is set, the rules that drop all traffic but the
\* daemon's own are in the firewall, whatever is connected, disconnected or
\* refreshed meanwhile, by whom, and whichever of these calls fails.
KillSwitchBlocks == netw.isKillSwitchSet => BlocksTraffic(netw)

\* A connected VPN has the same rules: no setting and no change of the
\* network takes them away before the connection ends.
VpnBlocks == netw.isVpnSet => BlocksTraffic(netw)

\* A change of the network while VPN is up never takes away the rules that
\* block traffic outside the tunnel, even when the tunnel cannot be made
\* again ("Keep iptables rules to not expose user", vpn.go).
ReconnectKeepsBlocking ==
    [][cached' # cached /\ netw.isVpnSet /\ BlocksTraffic(netw)
            => BlocksTraffic(netw')]_vars

Before(or, x, y) ==
    HasRule(or, x) /\ HasRule(or, y) => IndexOf(or, x) < IndexOf(or, y)

\* The firewall evaluates the rule added last first: the allow rules come
\* after the drop rules in the store, and deny-private-dns after the allowlist,
\* in whatever order the methods add and replace them (resetAllowlist: "in
\* order to maintain the order of the firewall rules").
RuleOrder ==
    \A allow \in AllowRules \cup {"api_allowlist"} :
        /\ \A drop \in {"drop-fw", "drop"} : Before(netw.fw, drop, allow)
        /\ Before(netw.fw, allow, Dns)

\* isVpnSet agrees with the VPN library, and a connection that is set has its
\* default route and its policy routing, with meshnet coming and going.
ConnectionComplete ==
    /\ netw.isVpnSet <=> isConnectedToVPN(netw)
    /\ netw.isVpnSet => netw.route /\ netw.policy.on

\* Once VPN is stopped, DNS and IPv6 are as before; once the network is unset,
\* no rule of it is left; once meshnet is unset, nothing of it is.
NetworkRestored ==
    /\ ~netw.isVpnSet => netw.dns = None /\ ~netw.ipv6Blocked /\ ~netw.route
    /\ ~netw.isNetworkSet => RuleNames(netw.fw) \subseteq {MeshRule}
    /\ ~netw.isMeshnetSet => ~netw.hosts /\ ~netw.exit.on /\ ~netw.peerRoute
                              /\ ~HasRule(netw.fw, MeshRule)

\* The exit node gives its peers the local network exactly when this machine
\* has it: LAN discovery is on, or no drop rules are set.
ExitLan == netw.exit.on => netw.exit.lan = lanAvailable(netw)

\* While the network is set, the saved allowlist, with the private networks if
\* LAN discovery is on, is what the firewall, the port routing and the policy
\* routing apply.
AllowlistApplied ==
    LET wanted == config.allowlist.subnets \cup (IF netw.lanDiscovery THEN LAN ELSE {})
        ports(p) == IF p = "tcp" THEN config.allowlist.tcp ELSE config.allowlist.udp
    IN  /\ netw.isNetworkSet =>
             /\ \A r \in {"allowlist_subnets", "allowlist_subnets_forward"} :
                  IF wanted = {} THEN ~HasRule(netw.fw, r)
                  ELSE /\ HasRule(netw.fw, r)
                       /\ GetRule(netw.fw, r).body.nets = wanted
             /\ netw.portRoutes = {p \in {"tcp", "udp"} : ports(p) # {}}
        /\ netw.isVpnSet => /\ netw.policy.subnets = wanted
                            /\ netw.policy.lan = netw.lanDiscovery

\* Without meshnet, DNS to private networks is denied exactly while the network
\* is set and port 53 is not allowlisted, across changes of the allowlist.
PrivateDnsDenied ==
    HasRule(netw.fw, Dns) <=> netw.isNetworkSet /\ ~Allows53(config.allowlist)

\* "disable DNS traffic to private LAN ranges - to prevent DNS leaks"
\* (setAllowlist): the rule is there while the network is set.
DnsLeakBlocked ==
    netw.isNetworkSet /\ ~Allows53(netw.allowlist) => HasRule(netw.fw, Dns)

\* "If killswitch is enabled, disallow forwarding through physical interfaces"
\* (exitnode/fw.go)
ExitKillSwitch == netw.exit.on /\ netw.isKillSwitchSet => netw.exit.ks

\* While VPN is connected and IPv6 is not permitted, IPv6 is blocked.
IPv6Denied == netw.isVpnSet /\ ~netw.ipv6Enabled => netw.ipv6Blocked

\* A technology that was chosen is in use, or waits for a VPN that is still
\* active ("Please reconnect to enable the setting", cli/messages.go); a choice
\* that was overridden never comes back.
TechnologyTakesEffect ==
    IF netw.nextVPN = None THEN netw.vpnet = config.tech
    ELSE netw.nextVPN = config.tech /\ IsActive(netw)
=============================================================================
