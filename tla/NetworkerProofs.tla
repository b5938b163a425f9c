--------------------------- MODULE NetworkerProofs ---------------------------
(***************************************************************************)
(* Type correctness of the networker and the safety of its kill switch,    *)
(* for every set of interfaces, networks, allowlists, servers, peers and   *)
(* failing services.                                                       *)
(*                                                                         *)
(* The kill switch invariant is not inductive.  What it rests on is set J, *)
(* which every method preserves, and set I, which adds the two facts about *)
(* the flags that hold while the port routing cannot fail.  A method that  *)
(* neither touches the flags nor deletes a blocking rule keeps every set   *)
(* that is closed under Frame (a Good set); there is one lemma for each    *)
(* such method, and those of the others are about I.                       *)
(*                                                                         *)
(* The last part follows a change of the machine's network through         *)
(* refreshVPN: under a kill switch, the user's or the one it sets itself,  *)
(* every step stays in Held(TRUE), where all blocking rules are present.   *)
(***************************************************************************)
EXTENDS Networker, OrderedRulesProofs

-----------------------------------------------------------------------------
(* The inductive invariant.                                                 *)

\* The rules the networker adds: the body of MeshRule is always the same.
RuleSet == {r \in [name : RuleNameSet, body : BodySet] :
               r.name = MeshRule => r.body = Body({}, {}, {})}

Names(r) == {r[i] : i \in DOMAIN r}

\* Rule names are unique, every tracked rule is in the firewall, and "drop-fw"
\* comes with "drop": blockTraffic stops at a "drop-fw" that exists.
J == {s \in CombinedSet :
        /\ IsStore(s.fw, RuleSet)
        /\ Names(s.rules) \subseteq RuleNames(s.fw)
        /\ "drop-fw" \in RuleNames(s.fw) => "drop" \in RuleNames(s.fw)}

FlagsHold(s) ==
    "ports" \notin Faulty => /\ s.isNetworkSet => BlocksTraffic(s)
                             /\ s.isKillSwitchSet => s.isNetworkSet

I == {s \in J : FlagsHold(s)}

Inv ==
    /\ TypeOK
    /\ netw \in I

Frame(s, t) ==
    /\ t.isNetworkSet = s.isNetworkSet
    /\ t.isKillSwitchSet = s.isKillSwitchSet
    /\ \A n \in BlockRules : n \in RuleNames(s.fw) => n \in RuleNames(t.fw)

Good(G) == G \subseteq J /\ \A s \in G, t \in J : Frame(s, t) => t \in G

\* The outcomes whose state is in G.
Errs == {"nil", "fail", "exists", "notfound", "closed", "panic"}

O(G) == [s : G, err : Errs]

Same(s, t) ==
    /\ t \in CombinedSet
    /\ t.fw = s.fw /\ t.rules = s.rules
    /\ t.isNetworkSet = s.isNetworkSet /\ t.isKillSwitchSet = s.isKillSwitchSet

\* A state that differs in other fields only stays in the set.
LEMMA SameGood ==
    ASSUME NEW G, Good(G), NEW s \in G, NEW t, Same(s, t)
    PROVE  t \in G
BY DEF Good, J, Frame, Same

\* The inductive invariant is closed under steps that keep the flags and the
\* blocking rules.
LEMMA GoodI == Good(I)
BY DEF Good, I, J, Frame, FlagsHold, BlocksTraffic, BlockRules

\* So is the part of it about the rule store, which every method keeps.
LEMMA GoodJ == Good(J)
BY DEF Good

\* The states of a Good set are well-typed networkers.
LEMMA InCombined ==
    ASSUME NEW G, Good(G), NEW s \in G
    PROVE  s \in CombinedSet
BY DEF Good, J

-----------------------------------------------------------------------------
(* Assignments to the other fields.                                         *)

\* An assignment to a field of Combined other than the flags, the rule store
\* and the tracked names, with a value of its type, is Same: the networker's
\* own fields.
LEMMA UpdatesA ==
    ASSUME NEW s \in CombinedSet
    PROVE  /\ \A v \in Technologies : Same(s, [s EXCEPT !.vpnet = v])
           /\ \A v \in Technologies : Same(s, [s EXCEPT !.nextVPN = v])
           /\ \A v \in Technologies :
                 Same(s, [s EXCEPT !.vpnet = v, !.nextVPN = None])
           /\ \A v \in TelioSet : Same(s, [s EXCEPT !.telio = v])
           /\ \A v \in OvpnSet : Same(s, [s EXCEPT !.ovpn = v])
           /\ \A v \in BOOLEAN : Same(s, [s EXCEPT !.isVpnSet = v])
           /\ \A v \in BOOLEAN : Same(s, [s EXCEPT !.isMeshnetSet = v])
           /\ \A v \in AllowlistSet : Same(s, [s EXCEPT !.allowlist = v])
           /\ \A v \in Servers \cup Peers \cup {None} :
                 Same(s, [s EXCEPT !.lastServer = v])
           /\ \A v \in Nameservers \cup {None} :
                 Same(s, [s EXCEPT !.lastNameservers = v])
           /\ \A v \in SUBSET Links : Same(s, [s EXCEPT !.interfaces = v])
<1> USE DEF Same, CombinedSet
<1>1. \A v \in Technologies : Same(s, [s EXCEPT !.vpnet = v])
  OBVIOUS
<1>2. \A v \in Technologies : Same(s, [s EXCEPT !.nextVPN = v])
  OBVIOUS
<1>3. \A v \in Technologies : Same(s, [s EXCEPT !.vpnet = v, !.nextVPN = None])
  BY ZenonT(60)
<1>4. \A v \in TelioSet : Same(s, [s EXCEPT !.telio = v])
  OBVIOUS
<1>5. \A v \in OvpnSet : Same(s, [s EXCEPT !.ovpn = v])
  OBVIOUS
<1>6. \A v \in BOOLEAN : Same(s, [s EXCEPT !.isVpnSet = v])
  OBVIOUS
<1>7. \A v \in BOOLEAN : Same(s, [s EXCEPT !.isMeshnetSet = v])
  OBVIOUS
<1>8. \A v \in AllowlistSet : Same(s, [s EXCEPT !.allowlist = v])
  OBVIOUS
<1>9. \A v \in Servers \cup Peers \cup {None} : Same(s, [s EXCEPT !.lastServer = v])
  OBVIOUS
<1>10. \A v \in Nameservers \cup {None} : Same(s, [s EXCEPT !.lastNameservers = v])
  OBVIOUS
<1>11. \A v \in SUBSET Links : Same(s, [s EXCEPT !.interfaces = v])
  OBVIOUS
<1> HIDE DEF Same, CombinedSet
<1> QED
  BY Zenon, <1>1, <1>2, <1>3, <1>4, <1>5, <1>6, <1>7, <1>8, <1>9, <1>10, <1>11

\* The same for the settings and for the state of the services it calls.
LEMMA UpdatesB ==
    ASSUME NEW s \in CombinedSet
    PROVE  /\ \A v \in BOOLEAN : Same(s, [s EXCEPT !.ipv6Enabled = v])
           /\ \A v \in BOOLEAN : Same(s, [s EXCEPT !.lanDiscovery = v])
           /\ \A v \in BOOLEAN : Same(s, [s EXCEPT !.enableLocalTraffic = v])
           /\ \A v \in Nameservers \cup {None, DefaultNameservers} :
                 Same(s, [s EXCEPT !.dns = v])
           /\ \A v \in BOOLEAN : Same(s, [s EXCEPT !.ipv6Blocked = v])
           /\ \A v \in BOOLEAN : Same(s, [s EXCEPT !.route = v])
           /\ \A v \in PolicySet : Same(s, [s EXCEPT !.policy = v])
           /\ \A v \in BOOLEAN : Same(s, [s EXCEPT !.peerRoute = v])
           /\ \A v \in BOOLEAN : Same(s, [s EXCEPT !.hosts = v])
           /\ \A v \in ExitSet : Same(s, [s EXCEPT !.exit = v])
           /\ \A v \in SUBSET {"tcp", "udp"} : Same(s, [s EXCEPT !.portRoutes = v])
<1> USE DEF Same, CombinedSet
<1>1. \A v \in BOOLEAN : Same(s, [s EXCEPT !.ipv6Enabled = v])
  OBVIOUS
<1>2. \A v \in BOOLEAN : Same(s, [s EXCEPT !.lanDiscovery = v])
  OBVIOUS
<1>3. \A v \in BOOLEAN : Same(s, [s EXCEPT !.enableLocalTraffic = v])
  OBVIOUS
<1>4. \A v \in Nameservers \cup {None, DefaultNameservers} :
         Same(s, [s EXCEPT !.dns = v])
  OBVIOUS
<1>5. \A v \in BOOLEAN : Same(s, [s EXCEPT !.ipv6Blocked = v])
  OBVIOUS
<1>6. \A v \in BOOLEAN : Same(s, [s EXCEPT !.route = v])
  OBVIOUS
<1>7. \A v \in PolicySet : Same(s, [s EXCEPT !.policy = v])
  OBVIOUS
<1>8. \A v \in BOOLEAN : Same(s, [s EXCEPT !.peerRoute = v])
  OBVIOUS
<1>9. \A v \in BOOLEAN : Same(s, [s EXCEPT !.hosts = v])
  OBVIOUS
<1>10. \A v \in ExitSet : Same(s, [s EXCEPT !.exit = v])
  OBVIOUS
<1>11. \A v \in SUBSET {"tcp", "udp"} : Same(s, [s EXCEPT !.portRoutes = v])
  OBVIOUS
<1> HIDE DEF Same, CombinedSet
<1> QED
  BY <1>1, <1>2, <1>3, <1>4, <1>5, <1>6, <1>7, <1>8, <1>9, <1>10, <1>11

-----------------------------------------------------------------------------
(* Outcomes.                                                                *)

\* An outcome whose state is in G.
LEMMA OutKeeps ==
    ASSUME NEW G, NEW s \in G, NEW err \in Errs
    PROVE  Out(s, err) \subseteq O(G)
BY DEF Out, O

\* A return of nil, or of an error, in a state of G.
LEMMA NilKeeps ==
    ASSUME NEW G, NEW s \in G
    PROVE  Nil(s) \subseteq O(G) /\ Fail(s) \subseteq O(G)
BY DEF Out, Nil, Fail, O, Errs

\* A call to a service that may fail ends in its new state or in the old one.
LEMMA CallKeeps ==
    ASSUME NEW G, NEW s \in G, NEW t \in G, NEW service
    PROVE  Call(service, s, t) \subseteq O(G)
BY NilKeeps DEF Call

\* An error that the code only logs changes no state.
LEMMA LoggedKeeps ==
    ASSUME NEW G, NEW out, out \subseteq O(G)
    PROVE  Logged(out) \subseteq O(G)
<1> SUFFICES ASSUME NEW o \in out
             PROVE  (IF o.err = "panic" THEN o ELSE [o EXCEPT !.err = "nil"]) \in O(G)
  BY DEF Logged
<1>1. o \in O(G)
  OBVIOUS
<1> QED
  BY <1>1 DEF O, Errs

\* An error that the code ignores (errors.Is) changes no state.
LEMMA TolerateKeeps ==
    ASSUME NEW G, NEW out, out \subseteq O(G), NEW e
    PROVE  Tolerate(out, e) \subseteq O(G)
<1> SUFFICES ASSUME NEW o \in out
             PROVE  (IF o.err = e THEN [o EXCEPT !.err = "nil"] ELSE o) \in O(G)
  BY DEF Tolerate
<1>1. o \in O(G)
  OBVIOUS
<1> QED
  BY <1>1 DEF O, Errs

\* Returning the first error after a recovery changes no state.
LEMMA WithErrKeeps ==
    ASSUME NEW G, NEW out, out \subseteq O(G), NEW e \in Errs
    PROVE  WithErr(out, e) \subseteq O(G)
<1> SUFFICES ASSUME NEW o \in out
             PROVE  [o EXCEPT !.err = e] \in O(G)
  BY DEF WithErr
<1>1. o \in O(G)
  OBVIOUS
<1> QED
  BY <1>1 DEF O

-----------------------------------------------------------------------------
(* The services keep every good set.                                        *)

\* What assignments to the other fields do to a good set.
LEMMA FieldsKeep ==
    ASSUME NEW G, Good(G), NEW s \in G
    PROVE  /\ \A v \in Technologies : [s EXCEPT !.vpnet = v] \in G
           /\ \A v \in Technologies : [s EXCEPT !.nextVPN = v] \in G
           /\ \A v \in Technologies : [s EXCEPT !.vpnet = v, !.nextVPN = None] \in G
           /\ \A v \in TelioSet : [s EXCEPT !.telio = v] \in G
           /\ \A v \in OvpnSet : [s EXCEPT !.ovpn = v] \in G
           /\ \A v \in BOOLEAN : [s EXCEPT !.isVpnSet = v] \in G
           /\ \A v \in BOOLEAN : [s EXCEPT !.isMeshnetSet = v] \in G
           /\ \A v \in AllowlistSet : [s EXCEPT !.allowlist = v] \in G
           /\ \A v \in Servers \cup Peers \cup {None} : [s EXCEPT !.lastServer = v] \in G
           /\ \A v \in Nameservers \cup {None} : [s EXCEPT !.lastNameservers = v] \in G
           /\ \A v \in SUBSET Links : [s EXCEPT !.interfaces = v] \in G
           /\ \A v \in BOOLEAN : [s EXCEPT !.ipv6Enabled = v] \in G
           /\ \A v \in BOOLEAN : [s EXCEPT !.lanDiscovery = v] \in G
           /\ \A v \in BOOLEAN : [s EXCEPT !.enableLocalTraffic = v] \in G
           /\ \A v \in Nameservers \cup {None, DefaultNameservers} :
                 [s EXCEPT !.dns = v] \in G
           /\ \A v \in BOOLEAN : [s EXCEPT !.ipv6Blocked = v] \in G
           /\ \A v \in BOOLEAN : [s EXCEPT !.route = v] \in G
           /\ \A v \in PolicySet : [s EXCEPT !.policy = v] \in G
           /\ \A v \in BOOLEAN : [s EXCEPT !.peerRoute = v] \in G
           /\ \A v \in BOOLEAN : [s EXCEPT !.hosts = v] \in G
           /\ \A v \in ExitSet : [s EXCEPT !.exit = v] \in G
           /\ \A v \in SUBSET {"tcp", "udp"} : [s EXCEPT !.portRoutes = v] \in G
<1>1. s \in CombinedSet
  BY InCombined
<1>2. \A t : Same(s, t) => t \in G
  BY SameGood
<1> QED
  BY Zenon, <1>1, <1>2, UpdatesA, UpdatesB

\* The types of the fields that methods read.
LEMMA FieldTypes ==
    ASSUME NEW G, Good(G), NEW s \in G
    PROVE  /\ s.vpnet \in Technologies /\ s.nextVPN \in Technologies \cup {None}
           /\ s.telio \in TelioSet /\ s.ovpn \in OvpnSet
           /\ s.isVpnSet \in BOOLEAN /\ s.isMeshnetSet \in BOOLEAN
           /\ s.isNetworkSet \in BOOLEAN /\ s.isKillSwitchSet \in BOOLEAN
           /\ s.allowlist \in AllowlistSet
           /\ s.lastServer \in Servers \cup Peers \cup {None}
           /\ s.lastNameservers \in Nameservers \cup {None}
           /\ s.lanDiscovery \in BOOLEAN /\ s.enableLocalTraffic \in BOOLEAN
           /\ s.exit \in ExitSet /\ s.portRoutes \in SUBSET {"tcp", "udp"}
           /\ s.interfaces \in SUBSET Links
BY InCombined DEF CombinedSet

\* The calls of the VPN library, whether they fail or not.
LEMMA VpnKeeps ==
    ASSUME NEW G, Good(G), NEW s \in G
    PROVE  /\ vpnStart(s) \subseteq O(G)
           /\ vpnStop(s) \subseteq O(G)
           /\ telioNetworkChanged(s) \subseteq O(G)
           /\ vpnNetworkChanged(s) \subseteq O(G)
           /\ meshRefresh(s) \subseteq O(G)
           /\ meshEnable(s) \subseteq O(G)
           /\ meshDisable(s) \subseteq O(G)
<1> DEFINE x(v, w) == [s.telio EXCEPT !.active = v, !.tun = w]
<1>1. s.telio \in TelioSet /\ s.ovpn \in OvpnSet
  BY FieldTypes
<1>2. \A v \in TelioSet : [s EXCEPT !.telio = v] \in G
  BY ZenonT(60), FieldsKeep
<1>3. \A v \in OvpnSet : [s EXCEPT !.ovpn = v] \in G
  BY Zenon, FieldsKeep
<1>4. \A t \in G : Nil(t) \subseteq O(G) /\ Fail(t) \subseteq O(G)
  BY NilKeeps
<1>5. s.telio.active \in BOOLEAN /\ s.telio.tun \in BOOLEAN /\ s.telio.mesh \in BOOLEAN
  BY <1>1 DEF TelioSet
<1>6. \A v, w \in BOOLEAN :
         [s EXCEPT !.telio = [@ EXCEPT !.active = v, !.tun = w]] \in G
  BY <1>1, <1>2, Zenon DEF TelioSet
<1>7. telioStart(s) \subseteq O(G)
  BY ZenonT(60), <1>4, <1>5, <1>6 DEF telioStart
<1>8. ovpnStart(s) \subseteq O(G)
  BY Zenon, <1>3, <1>4 DEF ovpnStart, OvpnSet
<1>9. telioStop(s) \subseteq O(G)
  BY Zenon, <1>1, <1>2, <1>4, <1>5 DEF telioStop, TelioSet
<1>10. ovpnStop(s) \subseteq O(G)
  BY <1>3, <1>4, CallKeeps, Zenon DEF ovpnStop, OvpnSet
<1>11. telioNetworkChanged(s) \subseteq O(G)
  BY Zenon, <1>4, <1>5, <1>6 DEF telioNetworkChanged
<1>12. meshRefresh(s) \subseteq O(G)
  BY CallKeeps DEF meshRefresh
<1>13. meshEnable(s) \subseteq O(G)
  BY ZenonT(60), <1>1, <1>2, <1>4, <1>5 DEF meshEnable, TelioSet
<1>14. meshDisable(s) \subseteq O(G)
  BY <1>1, <1>2, <1>4, <1>5, Zenon DEF meshDisable, TelioSet
<1> QED
  BY <1>4, <1>7, <1>8, <1>9, <1>10, <1>11, <1>12, <1>13, <1>14
     DEF vpnStart, vpnStop, vpnNetworkChanged

\* The routers, DNS, IPv6, the exit node and the hosts file.
LEMMA ServicesKeep ==
    ASSUME NEW G, Good(G), NEW s \in G
    PROVE  /\ \A local, lan \in BOOLEAN, nets \in SUBSET Subnets :
                 SetupRoutingRules(s, local, lan, nets) \subseteq O(G)
           /\ CleanupRouting(s) \subseteq O(G)
           /\ routerFlush(s) \in G /\ peerRouterFlush(s) \in G
           /\ peerRouterAdd(s) \subseteq O(G)
           /\ unsetDNS(s) \subseteq O(G)
           /\ \A ns \in Nameservers \cup {None, DefaultNameservers} :
                 setDNS(s, ns) \subseteq O(G)
           /\ addDefaultRoute(s) \subseteq O(G)
           /\ ipv6Unblock(s) \subseteq O(G) /\ denyIPv6(s) \subseteq O(G)
           /\ disableIPv6IfNeeded(s) \subseteq O(G)
           /\ SetHosts(s) \subseteq O(G) /\ UnsetHosts(s) \subseteq O(G)
<1>1. \A t \in G : Nil(t) \subseteq O(G) /\ Fail(t) \subseteq O(G)
  BY NilKeeps
<1>2. \A service : \A t \in G : Call(service, s, t) \subseteq O(G)
  BY CallKeeps
<1>3. Out(s, "panic") \subseteq O(G)
  BY OutKeeps DEF Errs
<1>4. NoPolicy \in PolicySet
  BY DEF NoPolicy, PolicySet
<1>5. ASSUME NEW local \in BOOLEAN, NEW lan \in BOOLEAN, NEW nets \in SUBSET Subnets
      PROVE  SetupRoutingRules(s, local, lan, nets) \subseteq O(G)
  <2> DEFINE v == [on |-> TRUE, local |-> local, lan |-> lan, subnets |-> nets]
  <2>1. v \in PolicySet
    BY DEF PolicySet
  <2>2. [s EXCEPT !.policy = v] \in G /\ [s EXCEPT !.policy = NoPolicy] \in G
    BY Zenon, <2>1, <1>4, FieldsKeep
  <2> QED
    BY <1>1, <2>2 DEF SetupRoutingRules
<1>6. CleanupRouting(s) \subseteq O(G)
  <2>1. [s EXCEPT !.policy = NoPolicy] \in G
    BY ZenonT(60), <1>4, FieldsKeep
  <2> QED
    BY <1>1, <2>1 DEF CleanupRouting
<1>7. routerFlush(s) \in G /\ peerRouterFlush(s) \in G
  BY ZenonT(60), FieldsKeep DEF routerFlush, peerRouterFlush
<1>8. peerRouterAdd(s) \subseteq O(G)
  BY ZenonT(60), <1>1, <1>2, FieldsKeep DEF peerRouterAdd
<1>9. unsetDNS(s) \subseteq O(G)
  BY ZenonT(60), <1>2, <1>3, FieldsKeep DEF unsetDNS, WithTun
<1>10. ASSUME NEW ns \in Nameservers \cup {None, DefaultNameservers}
       PROVE  setDNS(s, ns) \subseteq O(G)
  BY ZenonT(60), <1>2, <1>3, FieldsKeep DEF setDNS, WithTun
<1>11. addDefaultRoute(s) \subseteq O(G)
  BY ZenonT(60), <1>1, <1>2, <1>3, FieldsKeep DEF addDefaultRoute, WithTun
<1>12. ipv6Unblock(s) \subseteq O(G)
  BY Zenon, <1>2, FieldsKeep DEF ipv6Unblock
<1>13. denyIPv6(s) \subseteq O(G)
  <2> DEFINE t == [s EXCEPT !.ipv6Enabled = FALSE]
  <2>1. t \in G
    BY ZenonT(60), FieldsKeep
  <2>2. [t EXCEPT !.ipv6Blocked = TRUE] \in G
    BY Zenon, <2>1, FieldsKeep
  <2> QED
    BY <1>1, <2>1, <2>2, CallKeeps DEF denyIPv6
<1>14. disableIPv6IfNeeded(s) \subseteq O(G)
  BY <1>1, <1>13 DEF disableIPv6IfNeeded
<1>15. SetHosts(s) \subseteq O(G) /\ UnsetHosts(s) \subseteq O(G)
  BY Zenon, <1>2, FieldsKeep DEF SetHosts, UnsetHosts
<1> QED
  BY <1>5, <1>6, <1>7, <1>8, <1>9, <1>10, <1>11, <1>12, <1>13, <1>14, <1>15

\* Resetting the exit node's firewall fails with an error, never a panic.
LEMMA ExitKeeps ==
    ASSUME NEW G, Good(G), NEW s \in G
    PROVE  /\ exitEnable(s) \subseteq O(G) /\ exitDisable(s) \subseteq O(G)
           /\ exitSetAllowlist(s) \subseteq O(G)
           /\ \A lan, ks \in BOOLEAN :
                 /\ exitResetPeers(s, lan, ks) \subseteq O(G)
                 /\ exitResetFirewall(s, lan, ks) \subseteq O(G)
                 /\ \A o \in Logged(exitResetFirewall(s, lan, ks)) : o.err = "nil"
<1>1. \A service : \A t \in G : Call(service, s, t) \subseteq O(G)
  BY CallKeeps
<1>2. s.exit \in ExitSet
  BY FieldTypes
<1>3. exitEnable(s) \subseteq O(G)
  BY ZenonT(60), <1>1, <1>2, FieldsKeep DEF exitEnable, ExitSet
<1>4. exitDisable(s) \subseteq O(G)
  BY Zenon, <1>1, FieldsKeep DEF exitDisable, ExitOff, ExitSet
<1>5. exitSetAllowlist(s) \subseteq O(G)
  BY <1>1 DEF exitSetAllowlist
<1>6. ASSUME NEW lan \in BOOLEAN, NEW ks \in BOOLEAN
      PROVE  exitResetPeers(s, lan, ks) \subseteq O(G)
  <2>1. [s.exit EXCEPT !.lan = lan, !.ks = ks] \in ExitSet
    BY Zenon, <1>2 DEF ExitSet
  <2>2. [s EXCEPT !.exit = [@ EXCEPT !.lan = lan, !.ks = ks]] \in G
    BY Zenon, <2>1, FieldsKeep
  <2> QED
    BY <1>1, <2>2 DEF exitResetPeers
<1>7. ASSUME NEW lan \in BOOLEAN, NEW ks \in BOOLEAN
      PROVE  /\ exitResetFirewall(s, lan, ks) \subseteq O(G)
             /\ \A o \in Logged(exitResetFirewall(s, lan, ks)) : o.err = "nil"
  <2>1. exitResetFirewall(s, lan, ks) \subseteq O(G)
    BY <1>6, NilKeeps DEF exitResetFirewall
  <2>2. \A o \in exitResetFirewall(s, lan, ks) : o.err # "panic"
    BY DEF exitResetFirewall, exitResetPeers, Call, Nil, Fail, Out
  <2>3. \A o \in O(G) : [o EXCEPT !.err = "nil"].err = "nil"
    BY DEF O
  <2> QED
    BY Zenon, <2>1, <2>2, <2>3 DEF Logged
<1> QED
  BY <1>3, <1>4, <1>5, <1>6, <1>7

-----------------------------------------------------------------------------
(* The rule store and the tracked names.                                    *)

\* Sequences over a set are sequences over a larger one.
LEMMA SeqMonotone ==
    ASSUME NEW R, NEW S, R \subseteq S, NEW q \in Seq(R)
    PROVE  q \in Seq(S)
<1>1. Len(q) \in Nat /\ q \in [1..Len(q) -> R]
  OBVIOUS
<1>2. q \in [1..Len(q) -> S]
  BY <1>1
<1> QED
  BY <1>1, <1>2

\* A store of the networker's rules is a sequence of rules.
LEMMA RuleSetSeq ==
    ASSUME NEW q \in Seq(RuleSet)
    PROVE  q \in Seq([name : RuleNameSet, body : BodySet])
<1>1. RuleSet \subseteq [name : RuleNameSet, body : BodySet]
  BY DEF RuleSet
<1> QED
  BY Zenon, <1>1, SeqMonotone

\* OrderedRules.Get finds a rule exactly when the store has one of that name.
LEMMA NamesOfStore ==
    ASSUME NEW or, NEW name
    PROVE  HasRule(or, name) <=> name \in RuleNames(or)
BY DEF HasRule, RuleNames

\* The state after the store was replaced, and after the tracked names were.
WithStore(s, f) == [s EXCEPT !.fw = f]
WithTracked(s, r) == [s EXCEPT !.rules = r]

\* What fw.Add and fw.Delete, which replace the store, leave alone.
LEMMA StoreUpdate ==
    ASSUME NEW s \in CombinedSet, NEW f, IsStore(f, RuleSet)
    PROVE  /\ WithStore(s, f) \in CombinedSet
           /\ WithStore(s, f).fw = f /\ WithStore(s, f).rules = s.rules
           /\ WithStore(s, f).isNetworkSet = s.isNetworkSet
           /\ WithStore(s, f).isKillSwitchSet = s.isKillSwitchSet
<1>1. f \in Seq([name : RuleNameSet, body : BodySet])
  BY Zenon, RuleSetSeq DEF IsStore
<1> QED
  BY <1>1, Zenon DEF CombinedSet, WithStore

\* What appending to and deleting from netw.rules leave alone.
LEMMA TrackedUpdate ==
    ASSUME NEW s \in CombinedSet, NEW r \in Tracked
    PROVE  /\ WithTracked(s, r) \in CombinedSet
           /\ WithTracked(s, r).fw = s.fw /\ WithTracked(s, r).rules = r
           /\ WithTracked(s, r).isNetworkSet = s.isNetworkSet
           /\ WithTracked(s, r).isKillSwitchSet = s.isKillSwitchSet
BY DEF CombinedSet, WithTracked

\* A rule added to a good state.
LEMMA AddGood ==
    ASSUME NEW G, Good(G), NEW s \in G, NEW rule \in RuleSet, rule.name # "drop-fw"
    PROVE  LET t == WithStore(s, AddRule(s.fw, rule))
           IN  t \in G /\ t.rules = s.rules /\ rule.name \in RuleNames(t.fw)
<1> DEFINE t == WithStore(s, AddRule(s.fw, rule))
<1>1. s \in J /\ s \in CombinedSet /\ IsStore(s.fw, RuleSet)
  BY DEF Good, J
<1>2. /\ IsStore(AddRule(s.fw, rule), RuleSet)
      /\ RuleNames(AddRule(s.fw, rule)) = RuleNames(s.fw) \cup {rule.name}
  BY ZenonT(60), <1>1, AddRuleStore
<1>3. /\ t \in CombinedSet
      /\ t.fw = AddRule(s.fw, rule) /\ t.rules = s.rules
      /\ t.isNetworkSet = s.isNetworkSet
      /\ t.isKillSwitchSet = s.isKillSwitchSet
  BY <1>1, <1>2, StoreUpdate
<1> HIDE DEF t
<1>4. t \in J /\ Frame(s, t)
  BY <1>1, <1>2, <1>3 DEF J, Frame
<1>5. t \in G
  BY <1>4 DEF Good
<1> QED
  BY <1>2, <1>3, <1>5 DEF t

\* fw.Add of any rule but "drop-fw": afterwards the firewall has the name.
LEMMA fwAddKeeps ==
    ASSUME NEW G, Good(G), NEW s \in G, NEW name \in RuleNameSet \ {"drop-fw"},
           NEW body \in BodySet, name = MeshRule => body = Body({}, {}, {})
    PROVE  /\ fwAdd(s, name, body) \subseteq O(G)
           /\ \A o \in fwAdd(s, name, body) :
                 o.s.rules = s.rules /\ name \in RuleNames(o.s.fw)
<1> DEFINE rule == Rule(name, body)
           t == WithStore(s, AddRule(s.fw, rule))
<1>1. rule \in RuleSet /\ rule.name = name
  BY DEF RuleSet, Rule
<1>2. t \in G /\ t.rules = s.rules /\ name \in RuleNames(t.fw)
  BY <1>1, AddGood
<1>3. CASE IsEqualRule(s.fw, rule)
  <2>1. fwAdd(s, name, body) = Out(s, "exists")
    BY <1>3 DEF fwAdd
  <2>2. name \in RuleNames(s.fw)
    BY <1>1, <1>3, NamesOfStore DEF IsEqualRule
  <2>3. Out(s, "exists") \subseteq O(G)
    BY OutKeeps DEF Errs
  <2> QED
    BY <2>1, <2>2, <2>3 DEF Out
<1>4. CASE ~IsEqualRule(s.fw, rule)
  <2>1. fwAdd(s, name, body) = Nil(t)
    BY <1>4 DEF fwAdd, WithStore
  <2> HIDE DEF t
  <2> QED
    BY <2>1, <1>2, NilKeeps DEF Nil, Out
<1> QED
  BY <1>3, <1>4

\* fw.Add of a rule that the code adds under a condition.
LEMMA fwAddIfKeeps ==
    ASSUME NEW G, Good(G), NEW s \in G, NEW cond,
           NEW name \in RuleNameSet \ {"drop-fw", MeshRule}, NEW body \in BodySet
    PROVE  fwAddIf(cond, s, name, body) \subseteq O(G)
BY fwAddKeeps, NilKeeps DEF fwAddIf

\* fw.Delete of a rule of the allowlist, with or without a rule of that name.
LEMMA fwDeleteAnyKeeps ==
    ASSUME NEW G, Good(G), NEW s \in G, NEW name \in AllowRules
    PROVE  /\ fwDeleteAny(s, name) \subseteq O(G)
           /\ \A o \in fwDeleteAny(s, name) : o.err = "nil"
<1> DEFINE t == WithStore(s, DeleteRule(s.fw, name))
<1>1. s \in J /\ s \in CombinedSet /\ IsStore(s.fw, RuleSet) /\ s.rules \in Tracked
  BY ZenonT(60) DEF Good, J, CombinedSet
<1>2. /\ IsStore(DeleteRule(s.fw, name), RuleSet)
      /\ RuleNames(DeleteRule(s.fw, name)) = RuleNames(s.fw) \ {name}
  BY <1>1, DeleteRuleStore
<1>3. /\ t \in CombinedSet
      /\ t.fw = DeleteRule(s.fw, name) /\ t.rules = s.rules
      /\ t.isNetworkSet = s.isNetworkSet
      /\ t.isKillSwitchSet = s.isKillSwitchSet
  BY <1>1, <1>2, StoreUpdate
<1>4. name \notin Names(s.rules)
  <2>1. Names(s.rules) \subseteq {Dns, MeshRule}
    BY <1>1 DEF Names, Tracked
  <2> QED
    BY <2>1 DEF AllowRules, Dns, MeshRule
<1>5. name \notin BlockRules
  BY DEF AllowRules, BlockRules
<1>6. t \in J /\ Frame(s, t)
  BY <1>1, <1>2, <1>3, <1>4, <1>5 DEF J, Frame, BlockRules
<1>7. t \in G
  BY <1>6 DEF Good
<1> HIDE DEF t
<1>8. fwDelete(s, name) \subseteq O(G)
  BY <1>7, NilKeeps, OutKeeps DEF fwDelete, Errs, t, WithStore
<1>9. \A o \in fwDelete(s, name) : o.err \in {"nil", "notfound"}
  BY DEF fwDelete, Nil, Out
<1>10. \A o \in O(G) : [o EXCEPT !.err = "nil"].err = "nil"
  BY DEF O
<1>11. fwDeleteAny(s, name) \subseteq O(G)
  BY <1>8, TolerateKeeps DEF fwDeleteAny
<1>12. \A o \in fwDeleteAny(s, name) : o.err = "nil"
  BY Zenon, <1>8, <1>9, <1>10 DEF fwDeleteAny, Tolerate
<1> QED
  BY <1>11, <1>12

\* The tracked names have no duplicates and each is the name of a rule of the
\* firewall, so that deleting a tracked rule finds it.
LEMMA TrackedNames ==
    ASSUME NEW s \in J, NEW name
    PROVE  /\ s.rules \in Tracked
           /\ IsTracked(s, name) <=> name \in Names(s.rules)
           /\ IsTracked(s, name) => HasRule(s.fw, name)
<1>1. s.rules \in Tracked /\ Names(s.rules) \subseteq RuleNames(s.fw)
  BY DEF J, CombinedSet
<1>2. IsTracked(s, name) <=> name \in Names(s.rules)
  BY DEF IsTracked, Names
<1> QED
  BY <1>1, <1>2, NamesOfStore

\* append(netw.rules, name) of a name not tracked yet.
LEMMA AppendTracked ==
    ASSUME NEW r \in Tracked, NEW name \in {Dns, MeshRule}, name \notin Names(r)
    PROVE  /\ Append(r, name) \in Tracked
           /\ Names(Append(r, name)) \subseteq Names(r) \cup {name}
<1> DEFINE a == Append(r, name)
<1>1. r \in Seq({Dns, MeshRule}) /\ \A i, j \in DOMAIN r : r[i] = r[j] => i = j
  BY DEF Tracked
<1>2. /\ a \in Seq({Dns, MeshRule})
      /\ DOMAIN r = 1..Len(r) /\ Len(r) \in Nat
      /\ DOMAIN a = 1..(Len(r) + 1)
      /\ \A j \in 1..Len(r) : a[j] = r[j]
      /\ a[Len(r) + 1] = name
  BY <1>1
<1> HIDE DEF a
<1>3. \A j \in 1..Len(r) : r[j] # name
  BY <1>2 DEF Names
<1>4. \A i, j \in DOMAIN a : a[i] = a[j] => i = j
  BY <1>1, <1>2, <1>3
<1>5. Names(a) \subseteq Names(r) \cup {name}
  <2> SUFFICES ASSUME NEW j \in DOMAIN a
               PROVE  a[j] \in Names(r) \cup {name}
    BY DEF Names
  <2>1. CASE j = Len(r) + 1
    BY <2>1, <1>2
  <2>2. CASE j \in 1..Len(r)
    BY <2>2, <1>2 DEF Names
  <2> QED
    BY <2>1, <2>2, <1>2
<1> QED
  BY <1>2, <1>4, <1>5, Zenon DEF Tracked, a

\* slices.Delete of a tracked name leaves no second copy of it.
LEMMA UntrackTracked ==
    ASSUME NEW r \in Tracked, NEW name, name \in Names(r)
    PROVE  /\ Untrack(r, name) \in Tracked
           /\ Names(Untrack(r, name)) \subseteq Names(r) \ {name}
<1> DEFINE i == CHOOSE k \in DOMAIN r : r[k] = name
           d == DeleteAt(r, i)
           Old(j) == IF j < i THEN j ELSE j + 1
<1>1. r \in Seq({Dns, MeshRule}) /\ \A k, j \in DOMAIN r : r[k] = r[j] => k = j
  BY DEF Tracked
<1>2. i \in DOMAIN r /\ r[i] = name
  BY DEF Names
<1>3. Len(r) \in Nat /\ DOMAIN r = 1..Len(r)
  BY <1>1
<1>4. /\ d \in Seq({Dns, MeshRule})
      /\ DOMAIN d = 1..(Len(r) - 1)
      /\ \A j \in 1..(Len(r) - 1) : d[j] = IF j < i THEN r[j] ELSE r[j + 1]
  BY SMTT(30), <1>1, <1>2, DeleteAtType
<1>5. Untrack(r, name) = d
  BY DEF Untrack
<1> HIDE DEF i, d
<1>6. \A j \in 1..(Len(r) - 1) :
         Old(j) \in DOMAIN r /\ Old(j) # i /\ d[j] = r[Old(j)]
  BY <1>2, <1>3, <1>4
<1>7. \A j, k \in 1..(Len(r) - 1) : Old(j) = Old(k) => j = k
  BY <1>2, <1>3
<1> HIDE DEF Old
<1>8. \A j, k \in DOMAIN d : d[j] = d[k] => j = k
  BY <1>1, <1>4, <1>6, <1>7
<1>9. Names(d) \subseteq Names(r) \ {name}
  <2> SUFFICES ASSUME NEW j \in DOMAIN d
               PROVE  d[j] \in Names(r) \ {name}
    BY DEF Names
  <2> QED
    BY <1>1, <1>2, <1>4, <1>6 DEF Names
<1> QED
  BY <1>4, <1>5, <1>8, <1>9 DEF Tracked

\* A new tracked name whose rule is there.
LEMMA TrackGood ==
    ASSUME NEW G, Good(G), NEW s \in G, NEW name \in {Dns, MeshRule},
           name \notin Names(s.rules), name \in RuleNames(s.fw)
    PROVE  WithTracked(s, Append(s.rules, name)) \in G
<1> DEFINE t == WithTracked(s, Append(s.rules, name))
<1>1. s \in J /\ s \in CombinedSet /\ s.rules \in Tracked
  BY ZenonT(60) DEF Good, J, CombinedSet
<1>2. /\ Append(s.rules, name) \in Tracked
      /\ Names(Append(s.rules, name)) \subseteq Names(s.rules) \cup {name}
  BY <1>1, AppendTracked
<1>3. /\ t \in CombinedSet
      /\ t.fw = s.fw /\ t.rules = Append(s.rules, name)
      /\ t.isNetworkSet = s.isNetworkSet
      /\ t.isKillSwitchSet = s.isKillSwitchSet
  BY Zenon, <1>1, <1>2, TrackedUpdate
<1> HIDE DEF t
<1>4. t \in J /\ Frame(s, t)
  BY Zenon, <1>1, <1>2, <1>3 DEF J, Frame
<1> QED
  BY <1>4 DEF Good, t

\* denyDNS tracks the rule it adds, and adds it only when it is not tracked.
LEMMA denyDNSKeeps ==
    ASSUME NEW G, Good(G), NEW s \in G
    PROVE  denyDNS(s) \subseteq O(G)
<1> DEFINE body == Body({}, LAN, {53})
<1>1. s \in J
  BY DEF Good
<1>2. body \in BodySet
  BY AllowlistsAssumption DEF Body, BodySet
<1>3. Dns \in RuleNameSet \ {"drop-fw"} /\ Dns # MeshRule
  BY DEF RuleNameSet, Dns, MeshRule
<1> HIDE DEF body
<1>4. /\ fwAdd(s, Dns, body) \subseteq O(G)
      /\ \A o \in fwAdd(s, Dns, body) : o.s.rules = s.rules /\ Dns \in RuleNames(o.s.fw)
  BY <1>2, <1>3, fwAddKeeps
<1>5. CASE IsTracked(s, Dns)
  BY <1>5, NilKeeps DEF denyDNS
<1>6. CASE ~IsTracked(s, Dns)
  <2>1. Dns \notin Names(s.rules)
    BY <1>1, <1>6, TrackedNames
  <2>2. ASSUME NEW o \in fwAdd(s, Dns, body)
        PROVE  Nil([o.s EXCEPT !.rules = Append(@, Dns)]) \subseteq O(G)
    <3>1. o.s \in G
      BY <1>4 DEF O
    <3>2. WithTracked(o.s, Append(o.s.rules, Dns)) \in G
      BY <3>1, <1>4, <2>1, TrackGood
    <3> QED
      BY <3>2, NilKeeps DEF WithTracked
  <2>3. denyDNS(s) = UNION {IF o.err = "nil" THEN Nil([o.s EXCEPT !.rules = Append(@, Dns)])
                            ELSE {o} : o \in fwAdd(s, Dns, body)}
    BY <1>6 DEF denyDNS, Then, body
  <2> QED
    BY <2>2, <2>3, <1>4, Zenon
<1> QED
  BY <1>5, <1>6

\* The mesh part of refresh (allowIncoming and the like) tracks MeshRule once.
LEMMA meshBlockKeeps ==
    ASSUME NEW G, Good(G), NEW s \in G
    PROVE  meshBlock(s) \subseteq O(G)
<1> DEFINE body == Body({}, {}, {})
<1>1. s \in J /\ IsStore(s.fw, RuleSet)
  BY DEF Good, J
<1>2. body \in BodySet
  BY DEF Body, BodySet
<1>3. MeshRule \in RuleNameSet \ {"drop-fw"}
  BY DEF RuleNameSet, MeshRule
<1>4. MeshRule \in Names(s.rules) => IsEqualRule(s.fw, Rule(MeshRule, body))
  <2> SUFFICES ASSUME MeshRule \in Names(s.rules)
               PROVE  IsEqualRule(s.fw, Rule(MeshRule, body))
    OBVIOUS
  <2>1. HasRule(s.fw, MeshRule)
    BY <1>1, TrackedNames
  <2> DEFINE i == IndexOf(s.fw, MeshRule)
  <2>2. i \in DOMAIN s.fw /\ s.fw[i].name = MeshRule
    BY <2>1 DEF HasRule, IndexOf
  <2> HIDE DEF i
  <2>3. s.fw[i] \in RuleSet
    BY <1>1, <2>2 DEF IsStore
  <2>4. s.fw[i] = Rule(MeshRule, body)
    BY <2>2, <2>3 DEF RuleSet, Rule
  <2>5. Rule(MeshRule, body).name = MeshRule
    BY DEF Rule
  <2> QED
    BY <2>1, <2>4, <2>5 DEF IsEqualRule, GetRule, i
<1>5. /\ fwAdd(s, MeshRule, body) \subseteq O(G)
      /\ \A o \in fwAdd(s, MeshRule, body) :
            o.s.rules = s.rules /\ MeshRule \in RuleNames(o.s.fw)
  BY <1>2, <1>3, fwAddKeeps
<1>6. ASSUME NEW o \in fwAdd(s, MeshRule, body), o.err = "nil"
      PROVE  Nil([o.s EXCEPT !.rules = Append(@, MeshRule)]) \subseteq O(G)
  <2>1. ~IsEqualRule(s.fw, Rule(MeshRule, body))
    BY <1>6 DEF fwAdd, Out
  <2>2. o.s \in G
    BY <1>5 DEF O
  <2>3. WithTracked(o.s, Append(o.s.rules, MeshRule)) \in G
    BY <2>1, <2>2, <1>4, <1>5, TrackGood
  <2> QED
    BY <2>3, NilKeeps DEF WithTracked
<1>7. meshBlock(s) = UNION {IF o.err = "nil" THEN Nil([o.s EXCEPT !.rules = Append(@, MeshRule)])
                            ELSE {o} : o \in fwAdd(s, MeshRule, body)}
  BY DEF meshBlock, Then
<1> HIDE DEF body
<1> QED
  BY <1>5, <1>6, <1>7, Zenon

\* Rules of the mesh or of DNS that go away together with their tracked names.
LEMMA DropGood ==
    ASSUME NEW G, Good(G), NEW s \in G, NEW D \in SUBSET {Dns, MeshRule},
           NEW f, IsStore(f, RuleSet), RuleNames(s.fw) \ D \subseteq RuleNames(f),
           RuleNames(f) \subseteq RuleNames(s.fw),
           NEW r \in Tracked, Names(r) \subseteq Names(s.rules) \ D
    PROVE  WithTracked(WithStore(s, f), r) \in G
<1> DEFINE u == WithStore(s, f)
           t == WithTracked(u, r)
<1>1. s \in J /\ s \in CombinedSet /\ Names(s.rules) \subseteq RuleNames(s.fw)
  BY DEF Good, J
<1>2. /\ u \in CombinedSet
      /\ u.fw = f /\ u.isNetworkSet = s.isNetworkSet
      /\ u.isKillSwitchSet = s.isKillSwitchSet
  BY <1>1, StoreUpdate
<1> HIDE DEF u
<1>3. /\ t \in CombinedSet
      /\ t.fw = f /\ t.rules = r
      /\ t.isNetworkSet = s.isNetworkSet
      /\ t.isKillSwitchSet = s.isKillSwitchSet
  BY <1>2, TrackedUpdate
<1> HIDE DEF t
<1>4. "drop-fw" \notin D /\ "drop" \notin D /\ "api_allowlist" \notin D
  BY DEF Dns, MeshRule
<1>5. t \in J /\ Frame(s, t)
  BY <1>1, <1>3, <1>4 DEF J, Frame, BlockRules
<1> QED
  BY <1>5 DEF Good, t, u

\* undenyDNS cannot fail: the rule it deletes is tracked, so it is there.
LEMMA undenyDNSKeeps ==
    ASSUME NEW G, Good(G), NEW s \in G
    PROVE  /\ undenyDNS(s) \subseteq O(G)
           /\ \A o \in undenyDNS(s) : o.err = "nil"
<1>1. s \in J /\ s \in CombinedSet /\ IsStore(s.fw, RuleSet)
  BY DEF Good, J
<1>2. CASE ~IsTracked(s, Dns)
  <2>1. undenyDNS(s) = Nil(s)
    BY <1>2 DEF undenyDNS
  <2> QED
    BY <2>1, NilKeeps DEF Nil, Out
<1>3. CASE IsTracked(s, Dns)
  <2> DEFINE f == DeleteRule(s.fw, Dns)
             u == WithStore(s, f)
             t == WithTracked(u, Untrack(u.rules, Dns))
  <2>1. HasRule(s.fw, Dns) /\ Dns \in Names(s.rules) /\ s.rules \in Tracked
    BY <1>1, <1>3, TrackedNames
  <2>2. IsStore(f, RuleSet) /\ RuleNames(f) = RuleNames(s.fw) \ {Dns}
    BY <1>1, DeleteRuleStore
  <2>3. u.rules = s.rules
    BY <1>1, <2>2, StoreUpdate
  <2>4. /\ Untrack(s.rules, Dns) \in Tracked
        /\ Names(Untrack(s.rules, Dns)) \subseteq Names(s.rules) \ {Dns}
    BY <2>1, UntrackTracked
  <2>5. fwDelete(s, Dns) = Nil(u)
    BY <2>1 DEF fwDelete, WithStore
  <2>6. undenyDNS(s) = Nil(t)
    <3>1. undenyDNS(s) = Then(Nil(u), LAMBDA x : Nil([x EXCEPT !.rules = Untrack(@, Dns)]))
      BY <1>3, <2>5 DEF undenyDNS
    <3> HIDE DEF u
    <3>2. Nil(u) = {[s |-> u, err |-> "nil"]}
      BY DEF Nil, Out
    <3> QED
      BY <3>1, <3>2 DEF Then, WithTracked
  <2> HIDE DEF f
  <2>7. t \in G
    BY Zenon, <2>2, <2>3, <2>4, DropGood
  <2> HIDE DEF t
  <2> QED
    BY <2>6, <2>7, NilKeeps DEF Nil, Out
<1> QED
  BY <1>2, <1>3

\* Every tracked name has its rule, so deleting them all cannot fail.
LEMMA defaultMeshUnBlockKeeps ==
    ASSUME NEW G, Good(G), NEW s \in G
    PROVE  defaultMeshUnBlock(s) \subseteq O(G)
<1> DEFINE r == s.rules
           n == Len(r)
<1>1. /\ s \in J /\ s \in CombinedSet /\ IsStore(s.fw, RuleSet) /\ r \in Tracked
      /\ Names(r) \subseteq RuleNames(s.fw)
  BY ZenonT(60) DEF Good, J, CombinedSet
<1>2. <<>> \in Tracked /\ Names(<<>>) = {}
  BY DEF Tracked, Names
<1>3. /\ r \in Seq({Dns, MeshRule}) /\ n \in Nat /\ DOMAIN r = 1..n
      /\ \A i, j \in 1..n : r[i] = r[j] => i = j
      /\ \A i \in 1..n : r[i] \in {Dns, MeshRule} /\ r[i] \in Names(r)
  BY <1>1 DEF Tracked, Names
<1>4. n <= 2
  <2> SUFFICES ASSUME n >= 3 PROVE FALSE
    BY <1>3
  <2>1. 1 \in 1..n /\ 2 \in 1..n /\ 3 \in 1..n
    BY <1>3
  <2> QED
    BY <2>1, <1>3
<1>5. ASSUME NEW f, IsStore(f, RuleSet), NEW D \in SUBSET {Dns, MeshRule},
             RuleNames(f) = RuleNames(s.fw) \ D
      PROVE  Nil(WithTracked(WithStore(s, f), <<>>)) \subseteq O(G)
  <2>1. WithTracked(WithStore(s, f), <<>>) \in G
    BY Zenon, <1>2, <1>5, DropGood
  <2> QED
    BY <2>1, NilKeeps
<1>6. CASE n = 0
  <2>1. WithStore(s, s.fw) = s
    BY <1>1 DEF WithStore, CombinedSet
  <2>2. Nil(WithTracked(s, <<>>)) \subseteq O(G)
    <3>1. RuleNames(s.fw) = RuleNames(s.fw) \ {} /\ {} \in SUBSET {Dns, MeshRule}
      OBVIOUS
    <3>2. Nil(WithTracked(WithStore(s, s.fw), <<>>)) \subseteq O(G)
      BY Zenon, <1>1, <1>5, <3>1
    <3> QED
      BY <2>1, <3>2
  <2>3. defaultMeshUnBlock(s) = Nil(WithTracked(s, <<>>))
    <3>1. deleteTracked(s) = {[s |-> s, err |-> "nil"]}
      BY <1>6 DEF deleteTracked, Nil, Out
    <3> QED
      BY <3>1 DEF defaultMeshUnBlock, Then, WithTracked
  <2> QED
    BY <2>2, <2>3
<1>7. CASE n = 1
  <2> DEFINE f == DeleteRule(s.fw, r[1])
             u == WithStore(s, f)
  <2>1. IsStore(f, RuleSet) /\ RuleNames(f) = RuleNames(s.fw) \ {r[1]}
    BY <1>1, DeleteRuleStore
  <2>2. HasRule(s.fw, r[1])
    BY <1>1, <1>3, <1>7, NamesOfStore
  <2>3. deleteTracked(s) = {[s |-> u, err |-> "nil"]}
    <3>1. deleteTracked(s) = fwDelete(s, r[1])
      BY <1>7 DEF deleteTracked
    <3> QED
      BY <3>1, <2>2 DEF fwDelete, Nil, Out, WithStore
  <2> HIDE DEF u
  <2>4. defaultMeshUnBlock(s) = Nil(WithTracked(u, <<>>))
    BY <2>3 DEF defaultMeshUnBlock, Then, WithTracked
  <2>5. r[1] \in {Dns, MeshRule}
    BY <1>3, <1>7
  <2> QED
    BY <1>5, <2>1, <2>4, <2>5, Zenon DEF u
<1>8. CASE n = 2
  <2> DEFINE f == DeleteRule(s.fw, r[1])
             u == WithStore(s, f)
             g == DeleteRule(f, r[2])
             w == WithStore(s, g)
  <2>1. IsStore(f, RuleSet) /\ RuleNames(f) = RuleNames(s.fw) \ {r[1]}
    BY <1>1, DeleteRuleStore
  <2>2. r[1] # r[2] /\ r[1] \in {Dns, MeshRule} /\ r[2] \in {Dns, MeshRule}
    BY <1>3, <1>8
  <2>3. HasRule(s.fw, r[1]) /\ r[2] \in RuleNames(s.fw)
    BY <1>1, <1>3, <1>8, NamesOfStore
  <2>4. HasRule(f, r[2])
    BY <2>1, <2>2, <2>3, NamesOfStore
  <2> HIDE DEF f
  <2>5. IsStore(g, RuleSet) /\ RuleNames(g) = RuleNames(s.fw) \ {r[1], r[2]}
    BY <2>1, DeleteRuleStore
  <2>6. fwDelete(s, r[1]) = {[s |-> u, err |-> "nil"]}
    BY <2>3 DEF fwDelete, Nil, Out, WithStore, f
  <2>7. u.fw = f
    BY <1>1, <2>1, StoreUpdate
  <2>8. WithStore(u, g) = w
    BY <1>1, Zenon DEF WithStore, CombinedSet
  <2>9. fwDelete(u, r[2]) = {[s |-> w, err |-> "nil"]}
    <3>1. fwDelete(u, r[2]) = Nil(WithStore(u, g))
      BY <2>4, <2>7 DEF fwDelete, WithStore
    <3> QED
      BY <3>1, <2>8 DEF Nil, Out
  <2> HIDE DEF u, w
  <2>10. deleteTracked(s) = {[s |-> w, err |-> "nil"]}
    <3>1. deleteTracked(s) = Then(fwDelete(s, r[1]), LAMBDA x : fwDelete(x, r[2]))
      BY <1>8 DEF deleteTracked
    <3> QED
      BY <3>1, <2>6, <2>9 DEF Then
  <2>11. defaultMeshUnBlock(s) = Nil(WithTracked(w, <<>>))
    BY <2>10 DEF defaultMeshUnBlock, Then, WithTracked
  <2> HIDE DEF g
  <2> QED
    BY <1>5, <2>2, <2>5, <2>11, Zenon DEF w
<1> HIDE DEF n
<1>9. n \in Nat
  BY <1>3
<1>10. n = 0 \/ n = 1 \/ n = 2
  BY <1>9, <1>4
<1> QED
  BY <1>10, <1>6, <1>7, <1>8

-----------------------------------------------------------------------------
(* The methods that keep every good set.                                    *)

\* Routing of allowlisted ports changes no rule of the firewall.
LEMMA PortsKeep ==
    ASSUME NEW G, Good(G), NEW s \in G
    PROVE  /\ \A ports : \A proto \in {"tcp", "udp"} : EnablePorts(s, proto, ports) \subseteq O(G)
           /\ DisablePorts(s) \subseteq O(G)
           /\ "ports" \notin Faulty => \A o \in DisablePorts(s) : o.err = "nil"
<1>1. s.portRoutes \in SUBSET {"tcp", "udp"}
  BY FieldTypes
<1>2. \A proto \in {"tcp", "udp"} : [s EXCEPT !.portRoutes = @ \cup {proto}] \in G
  BY ZenonT(60), <1>1, FieldsKeep
<1>3. [s EXCEPT !.portRoutes = {}] \in G
  BY Zenon, FieldsKeep
<1>4. \A ports : \A proto \in {"tcp", "udp"} : EnablePorts(s, proto, ports) \subseteq O(G)
  BY <1>2, CallKeeps, NilKeeps, Zenon DEF EnablePorts
<1>5. DisablePorts(s) \subseteq O(G)
  BY <1>3, CallKeeps DEF DisablePorts
<1>6. "ports" \notin Faulty => \A o \in DisablePorts(s) : o.err = "nil"
  BY DEF DisablePorts, Call, Nil, Out
<1> QED
  BY <1>4, <1>5, <1>6

\* unsetAllowlist deletes allowlist rules only, never a blocking one.
LEMMA unsetAllowlistKeeps ==
    ASSUME NEW G, Good(G), NEW s \in G
    PROVE  unsetAllowlist(s) \subseteq O(G)
<1>1. \A x \in G : /\ fwDeleteAny(x, "allowlist_subnets") \subseteq O(G)
                   /\ fwDeleteAny(x, "allowlist_subnets_forward") \subseteq O(G)
                   /\ fwDeleteAny(x, "allowlist_ports_tcp") \subseteq O(G)
                   /\ fwDeleteAny(x, "allowlist_ports_udp") \subseteq O(G)
  BY fwDeleteAnyKeeps DEF AllowRules
<1>2. \A x \in G : /\ DisablePorts(x) \subseteq O(G)
                   /\ undenyDNS(x) \subseteq O(G)
                   /\ Nil(x) \subseteq O(G)
  BY PortsKeep, undenyDNSKeeps, NilKeeps
<1>3. \A o \in O(G) : o.s \in G
  BY DEF O
<1> QED
  BY <1>1, <1>2, <1>3 DEF unsetAllowlist, Then

\* Only the port routing can make unsetAllowlist fail.
LEMMA unsetAllowlistNil ==
    ASSUME "ports" \notin Faulty, NEW s \in J
    PROVE  \A o \in unsetAllowlist(s) : o.err = "nil"
<1>1. \A x \in J, n \in AllowRules : /\ fwDeleteAny(x, n) \subseteq O(J)
                                     /\ \A o \in fwDeleteAny(x, n) : o.err = "nil"
  BY GoodJ, fwDeleteAnyKeeps
<1>2. \A x \in J : /\ DisablePorts(x) \subseteq O(J)
                   /\ \A o \in DisablePorts(x) : o.err = "nil"
                   /\ \A o \in undenyDNS(x) : o.err = "nil"
                   /\ \A o \in Nil(x) : o.err = "nil"
  BY GoodJ, PortsKeep, undenyDNSKeeps DEF Nil, Out
<1>3. \A o \in O(J) : o.s \in J
  BY DEF O
<1>4. /\ "allowlist_subnets" \in AllowRules /\ "allowlist_subnets_forward" \in AllowRules
      /\ "allowlist_ports_tcp" \in AllowRules /\ "allowlist_ports_udp" \in AllowRules
  BY DEF AllowRules
<1> QED
  BY <1>1, <1>2, <1>3, <1>4 DEF unsetAllowlist, Then

\* The rules setAllowlist adds are not blocking rules and replace none.
LEMMA allowlistRulesKeep ==
    ASSUME NEW G, Good(G), NEW s \in G, NEW a \in AllowlistSet, links \subseteq Links
    PROVE  allowlistRules(s, a) \subseteq O(G)
<1> DEFINE subnets == Body(devices, a.subnets, {})
           tcp == Body(devices, {}, a.tcp)
           udp == Body(devices, {}, a.udp)
<1>1. subnets \in BodySet /\ tcp \in BodySet /\ udp \in BodySet
  BY DEF Body, BodySet, devices, AllowlistSet
<1> HIDE DEF subnets, tcp, udp
<1>2. /\ "allowlist_subnets" \in RuleNameSet \ {"drop-fw", MeshRule}
      /\ "allowlist_subnets_forward" \in RuleNameSet \ {"drop-fw", MeshRule}
      /\ "allowlist_ports_tcp" \in RuleNameSet \ {"drop-fw", MeshRule}
      /\ "allowlist_ports_udp" \in RuleNameSet \ {"drop-fw", MeshRule}
  BY DEF RuleNameSet, MeshRule
<1>3. \A cond : \A x \in G :
         /\ fwAddIf(cond, x, "allowlist_subnets", subnets) \subseteq O(G)
         /\ fwAddIf(cond, x, "allowlist_subnets_forward", subnets) \subseteq O(G)
         /\ fwAddIf(cond, x, "allowlist_ports_tcp", tcp) \subseteq O(G)
         /\ fwAddIf(cond, x, "allowlist_ports_udp", udp) \subseteq O(G)
  BY <1>1, <1>2, fwAddIfKeeps
<1>4. \A ports : \A x \in G :
         /\ EnablePorts(x, "tcp", ports) \subseteq O(G)
         /\ EnablePorts(x, "udp", ports) \subseteq O(G)
  BY PortsKeep
<1>5. \A o \in O(G) : o.s \in G
  BY DEF O
<1> QED
  BY <1>3, <1>4, <1>5 DEF allowlistRules, Then, subnets, tcp, udp

\* setAllowlist as a whole keeps the flags and the blocking rules.
LEMMA setAllowlistKeeps ==
    ASSUME NEW G, Good(G), NEW s \in G, NEW allowlist \in AllowlistSet, links \subseteq Links
    PROVE  setAllowlist(s, allowlist) \subseteq O(G)
<1> DEFINE a == IF s.lanDiscovery THEN addLANPermissions(allowlist) ELSE allowlist
<1>1. a \in AllowlistSet
  BY AllowlistsAssumption DEF addLANPermissions, AllowlistSet
<1>2. a.subnets \in SUBSET Subnets
  BY <1>1 DEF AllowlistSet
<1> HIDE DEF a
<1>3. allowlistRules(s, a) \subseteq O(G)
  BY <1>1, allowlistRulesKeep
<1>4. \A x \in G : denyDNS(x) \subseteq O(G) /\ Nil(x) \subseteq O(G)
  BY denyDNSKeeps, NilKeeps
<1>5. ASSUME NEW x \in G
      PROVE  SetupRoutingRules([x EXCEPT !.allowlist = a],
                               x.enableLocalTraffic, x.lanDiscovery, a.subnets) \subseteq O(G)
  <2>1. [x EXCEPT !.allowlist = a] \in G
    BY Zenon, <1>1, FieldsKeep
  <2>2. x.enableLocalTraffic \in BOOLEAN /\ x.lanDiscovery \in BOOLEAN
    BY FieldTypes
  <2> QED
    BY Zenon, <2>1, <2>2, <1>2, ServicesKeep
<1>6. \A o \in O(G) : o.s \in G
  BY DEF O
<1> QED
  <2> DEFINE R(x) == SetupRoutingRules([x EXCEPT !.allowlist = a],
                                       x.enableLocalTraffic, x.lanDiscovery, a.subnets)
  <2>1. setAllowlist(s, allowlist) =
           Then(allowlistRules(s, a),
           LAMBDA t : Then(IF Allows53(a) THEN Nil(t) ELSE denyDNS(t), LAMBDA u : R(u)))
    BY DEF setAllowlist, a
  <2>2. \A x \in G : R(x) \subseteq O(G)
    BY <1>5
  <2> HIDE DEF R
  <2> QED
    BY <1>3, <1>4, <1>6, <2>1, <2>2 DEF Then

\* resetAllowlist, which deletes and adds the allowlist rules to restore their
\* order.
LEMMA resetAllowlistKeeps ==
    ASSUME NEW G, Good(G), NEW s \in G, links \subseteq Links
    PROVE  resetAllowlist(s) \subseteq O(G)
<1>1. \A x \in G : unsetAllowlist(x) \subseteq O(G)
  BY unsetAllowlistKeeps
<1>2. \A x \in G : setAllowlist(x, x.allowlist) \subseteq O(G)
  BY FieldTypes, setAllowlistKeeps
<1>3. \A o \in O(G) : o.s \in G
  BY DEF O
<1> QED
  BY <1>1, <1>2, <1>3 DEF resetAllowlist, Then

\* refresh of the mesh map: its rules, hosts and exit node peers.
LEMMA refreshKeeps ==
    ASSUME NEW G, Good(G), NEW s \in G
    PROVE  refresh(s) \subseteq O(G)
<1>1. \A x \in G : /\ Logged(defaultMeshUnBlock(x)) \subseteq O(G)
                   /\ Logged(UnsetHosts(x)) \subseteq O(G)
                   /\ Logged(exitDisable(x)) \subseteq O(G)
  BY defaultMeshUnBlockKeeps, ServicesKeep, ExitKeeps, LoggedKeeps
<1>2. \A x \in G : /\ exitEnable(x) \subseteq O(G)
                   /\ meshRefresh(x) \subseteq O(G)
                   /\ meshBlock(x) \subseteq O(G)
                   /\ SetHosts(x) \subseteq O(G)
  BY SMTT(30), ExitKeeps, VpnKeeps, meshBlockKeeps, ServicesKeep
<1>3. \A x \in G : exitResetPeers(x, lanAvailable(x), x.isKillSwitchSet) \subseteq O(G)
  BY FieldTypes, ExitKeeps, Zenon DEF lanAvailable
<1>4. \A o \in O(G) : o.s \in G
  BY DEF O
<1> QED
  BY <1>1, <1>2, <1>3, <1>4 DEF refresh, Then

\* The deferred recovery of setMesh.
LEMMA meshRecoverKeeps ==
    ASSUME NEW G, Good(G), NEW s \in G, NEW routingRulesSet
    PROVE  meshRecover(s, routingRulesSet) \subseteq O(G)
<1>1. \A x \in G : /\ Logged(defaultMeshUnBlock(x)) \subseteq O(G)
                   /\ Logged(UnsetHosts(x)) \subseteq O(G)
                   /\ Logged(exitDisable(x)) \subseteq O(G)
                   /\ Logged(CleanupRouting(x)) \subseteq O(G)
                   /\ Nil(x) \subseteq O(G)
  BY defaultMeshUnBlockKeeps, ServicesKeep, ExitKeeps, LoggedKeeps, NilKeeps
<1>2. \A x \in G : Logged(meshDisable(peerRouterFlush(x))) \subseteq O(G)
  BY ServicesKeep, VpnKeeps, LoggedKeeps
<1>3. \A o \in O(G) : o.s \in G
  BY DEF O
<1> QED
  BY <1>1, <1>2, <1>3 DEF meshRecover, Then

\* The default route that setMesh takes away and puts back around Enable.
LEMMA RouteIfKeeps ==
    ASSUME NEW G, Good(G), NEW s \in G, NEW cond
    PROVE  FlushIf(cond, s) \in G /\ AddRouteIf(cond, s) \subseteq O(G)
BY ServicesKeep, NilKeeps DEF FlushIf, AddRouteIf

\* The routing part of setMesh.
LEMMA setMeshRoutingKeeps ==
    ASSUME NEW G, Good(G), NEW s \in G
    PROVE  setMeshRouting(s) \subseteq O(G)
<1>1. FlushIf(s.isVpnSet, s) \in G
  BY RouteIfKeeps
<1>2. meshEnable(FlushIf(s.isVpnSet, s)) \subseteq O(G)
  BY <1>1, VpnKeeps
<1>3. \A o \in O(G) : o.s \in G
  BY DEF O
<1>4. \A o \in O(G) : [s |-> [o.s EXCEPT !.isVpnSet = FALSE], err |-> "closed"] \in O(G)
  <2>1. \A x \in G : [x EXCEPT !.isVpnSet = FALSE] \in G
    BY Zenon, FieldsKeep
  <2> QED
    BY <1>3, <2>1 DEF O, Errs
<1>5. setMeshEnable(s) \subseteq O(G)
  BY <1>2, <1>4 DEF setMeshEnable
<1>6. \A x \in G : AddRouteIf(x.isVpnSet, x) \subseteq O(G)
  BY RouteIfKeeps
<1>7. ASSUME NEW x \in G
      PROVE  SetupRoutingRules(x, x.enableLocalTraffic, x.lanDiscovery,
                               x.allowlist.subnets) \subseteq O(G)
  <2>1. /\ x.enableLocalTraffic \in BOOLEAN /\ x.lanDiscovery \in BOOLEAN
        /\ x.allowlist.subnets \in SUBSET Subnets
    BY FieldTypes DEF AllowlistSet
  <2> QED
    BY <2>1, ServicesKeep
<1> QED
  BY <1>3, <1>5, <1>6, <1>7 DEF setMeshRouting, Then

\* setMesh keeps the flags and the blocking rules, even when it fails half way.
LEMMA setMeshKeeps ==
    ASSUME NEW G, Good(G), NEW s \in G
    PROVE  setMesh(s) \subseteq O(G)
<1> DEFINE Set(x) == [x EXCEPT !.isMeshnetSet = TRUE]
           Rest(x) == OnError(Then(peerRouterAdd(x),
                              LAMBDA s2 : Then(refresh(s2), LAMBDA s3 : Nil(Set(s3)))),
                              LAMBDA t : meshRecover(t, TRUE))
<1>1. \A x \in G, e \in Errs : /\ WithErr(meshRecover(x, FALSE), e) \subseteq O(G)
                               /\ WithErr(meshRecover(x, TRUE), e) \subseteq O(G)
  <2>1. \A x \in G : /\ meshRecover(x, FALSE) \subseteq O(G)
                     /\ meshRecover(x, TRUE) \subseteq O(G)
    BY Zenon, meshRecoverKeeps
  <2> QED
    BY Zenon, <2>1, WithErrKeeps
<1>2. \A o \in O(G) : o.s \in G /\ o.err \in Errs
  BY DEF O
<1>3. OnError(setMeshRouting(s), LAMBDA t : meshRecover(t, FALSE)) \subseteq O(G)
  <2>1. setMeshRouting(s) \subseteq O(G)
    BY Zenon, setMeshRoutingKeeps
  <2> SUFFICES ASSUME NEW o \in setMeshRouting(s)
               PROVE  /\ {o} \subseteq O(G)
                      /\ WithErr(meshRecover(o.s, FALSE), o.err) \subseteq O(G)
    BY Zenon DEF OnError
  <2> QED
    BY Zenon, <2>1, <1>1, <1>2
<1>4. \A x \in G : Nil(Set(x)) \subseteq O(G)
  BY Zenon, FieldsKeep, NilKeeps
<1>5. setMesh(s) = IF s.isMeshnetSet THEN Fail(s)
                   ELSE Then(OnError(setMeshRouting(s), LAMBDA t : meshRecover(t, FALSE)),
                             LAMBDA s1 : Rest(s1))
  BY Zenon DEF setMesh
<1> HIDE DEF Set
<1>6. ASSUME NEW x \in G
      PROVE  Rest(x) \subseteq O(G)
  <2> DEFINE out == Then(peerRouterAdd(x),
                         LAMBDA s2 : Then(refresh(s2), LAMBDA s3 : Nil(Set(s3))))
  <2>1. peerRouterAdd(x) \subseteq O(G) /\ \A y \in G : refresh(y) \subseteq O(G)
    BY ServicesKeep, refreshKeeps
  <2>2. out \subseteq O(G)
    BY <2>1, <1>2, <1>4 DEF Then
  <2> HIDE DEF out
  <2>3. OnError(out, LAMBDA t : meshRecover(t, TRUE)) \subseteq O(G)
    <3> SUFFICES ASSUME NEW o \in out
                 PROVE  /\ {o} \subseteq O(G)
                        /\ WithErr(meshRecover(o.s, TRUE), o.err) \subseteq O(G)
      BY Zenon DEF OnError
    <3> QED
      BY Zenon, <2>2, <1>1, <1>2
  <2> QED
    BY Zenon, <2>3 DEF out
<1> DEFINE first == OnError(setMeshRouting(s), LAMBDA t : meshRecover(t, FALSE))
<1> HIDE DEF Rest, first
<1>7. Then(first, LAMBDA s1 : Rest(s1)) \subseteq O(G)
  <2>1. first \subseteq O(G)
    BY Zenon, <1>3 DEF first
  <2> QED
    BY <2>1, <1>2, <1>6 DEF Then
<1> QED
  BY Zenon, <1>5, <1>7, NilKeeps DEF first

\* unSetMesh, up to the first step that fails.
LEMMA unSetMeshKeeps ==
    ASSUME NEW G, Good(G), NEW s \in G
    PROVE  unSetMesh(s) \subseteq O(G)
<1>1. \A x \in G : /\ UnsetHosts(x) \subseteq O(G)
                   /\ defaultMeshUnBlock(x) \subseteq O(G)
                   /\ exitDisable(x) \subseteq O(G)
                   /\ CleanupRouting(x) \subseteq O(G)
                   /\ Nil(x) \subseteq O(G) /\ Fail(x) \subseteq O(G)
  BY ServicesKeep, defaultMeshUnBlockKeeps, ExitKeeps, NilKeeps
<1>2. \A x \in G : meshDisable(FlushIf(x.isVpnSet, peerRouterFlush(x))) \subseteq O(G)
  BY ServicesKeep, RouteIfKeeps, VpnKeeps
<1>3. \A x \in G : AddRouteIf(x.isVpnSet, x) \subseteq O(G)
  BY RouteIfKeeps
<1>4. \A x \in G : Nil([x EXCEPT !.isMeshnetSet = FALSE]) \subseteq O(G)
  BY ZenonT(60), FieldsKeep, NilKeeps
<1>5. \A o \in O(G) : o.s \in G
  BY DEF O
<1> QED
  <2> DEFINE Unset(x) == [x EXCEPT !.isMeshnetSet = FALSE]
  <2>1. \A x \in G : Nil(Unset(x)) \subseteq O(G)
    BY <1>4
  <2>2. unSetMesh(s) =
           IF ~s.isMeshnetSet THEN Fail(s)
           ELSE Then(UnsetHosts(s),
                LAMBDA s1 : Then(defaultMeshUnBlock(s1),
                LAMBDA s2 : Then(exitDisable(s2),
                LAMBDA s3 : Then(IF s3.isVpnSet THEN Nil(s3) ELSE CleanupRouting(s3),
                LAMBDA s4 : Then(meshDisable(FlushIf(s4.isVpnSet, peerRouterFlush(s4))),
                LAMBDA s5 : Then(AddRouteIf(s5.isVpnSet, s5),
                LAMBDA s6 : Nil(Unset(s6))))))))
    BY Zenon DEF unSetMesh
  <2> HIDE DEF Unset
  <2> QED
    BY <1>1, <1>2, <1>3, <1>5, <2>1, <2>2 DEF Then

\* switchToNextVpn replaces the VPN implementation only.
LEMMA switchToNextVpnKeeps ==
    ASSUME NEW G, Good(G), NEW s \in G
    PROVE  switchToNextVpn(s) \in G
BY Zenon, FieldTypes, FieldsKeep DEF switchToNextVpn

\* vpnet.Start, with the Stop that follows when it fails.
LEMMA vpnStartOrStopKeeps ==
    ASSUME NEW G, Good(G), NEW s \in G
    PROVE  vpnStartOrStop(s) \subseteq O(G)
<1>1. \A o \in O(G) : o.s \in G /\ o.err \in Errs
  BY DEF O
<1>2. \A x \in G, e \in Errs : WithErr(Logged(vpnStop(x)), e) \subseteq O(G)
  BY VpnKeeps, LoggedKeeps, WithErrKeeps
<1>3. vpnStart(s) \subseteq O(G)
  BY VpnKeeps
<1> SUFFICES ASSUME NEW o \in vpnStart(s)
             PROVE  /\ {o} \subseteq O(G)
                    /\ WithErr(Logged(vpnStop(o.s)), o.err) \subseteq O(G)
  BY DEF vpnStartOrStop, OnError
<1> QED
  BY <1>1, <1>2, <1>3

\* setDNS and configureDNS.
LEMMA DnsKeeps ==
    ASSUME NEW G, Good(G), NEW s \in G, NEW ns \in Nameservers \cup {None}, NEW server
    PROVE  setDNS(s, ns) \subseteq O(G) /\ configureDNS(s, server, ns) \subseteq O(G)
<1>1. \A v \in Nameservers \cup {None, DefaultNameservers} : setDNS(s, v) \subseteq O(G)
  BY ServicesKeep, Zenon
<1> QED
  BY <1>1 DEF configureDNS

\* handleNetworkChanged: the mesh, the VPN, DNS and the allowlist, in this
\* order.
LEMMA handleNetworkChangedKeeps ==
    ASSUME NEW G, Good(G), NEW s \in G, links \subseteq Links
    PROVE  handleNetworkChanged(s) \subseteq O(G)
<1>1. \A o \in O(G) : o.s \in G
  BY DEF O
<1>2. \A x \in G : setDNS(x, x.lastNameservers) \subseteq O(G)
  BY FieldTypes, DnsKeeps, Zenon
<1>3. \A x \in G : fixForLinuxMint20(x) \subseteq O(G)
  BY <1>1, <1>2 DEF fixForLinuxMint20, Then
<1>4. \A x \in G : /\ telioNetworkChanged(x) \subseteq O(G)
                   /\ vpnNetworkChanged(x) \subseteq O(G)
                   /\ Nil(x) \subseteq O(G)
                   /\ resetAllowlist(x) \subseteq O(G)
  BY VpnKeeps, NilKeeps, resetAllowlistKeeps
<1> QED
  BY <1>1, <1>3, <1>4 DEF handleNetworkChanged, Then

\* The part of refreshVPN that unsets and sets the mesh.
LEMMA remeshKeeps ==
    ASSUME NEW G, Good(G), NEW s \in G
    PROVE  remesh(s) \subseteq O(G)
<1>1. \A o \in O(G) : o.s \in G
  BY DEF O
<1>2. \A x \in G : unSetMesh(x) \subseteq O(G) /\ setMesh(x) \subseteq O(G)
  BY unSetMeshKeeps, setMeshKeeps
<1>3. Then(unSetMesh(s), LAMBDA t : setMesh(t)) \subseteq O(G)
  BY <1>1, <1>2 DEF Then
<1> QED
  BY Zenon, <1>3, LoggedKeeps DEF remesh

-----------------------------------------------------------------------------
(* The methods that set and unset the network.                              *)

\* The drop rules are there; all blocking rules are there.
Dropping == {s \in I : {"drop-fw", "drop"} \subseteq RuleNames(s.fw)}
Blocking == {s \in I : BlocksTraffic(s)}

\* The states of I that have "drop", and those that have all blocking rules,
\* are Good.
LEMMA GoodBlocking == Good(Dropping) /\ Good(Blocking)
<1>1. Good(I)
  BY GoodI
<1>2. "drop-fw" \in BlockRules /\ "drop" \in BlockRules
  BY SMTT(30) DEF BlockRules
<1> QED
  BY <1>1, <1>2 DEF Good, Dropping, Blocking, Frame, BlocksTraffic

\* A blocking rule that is added, whether or not the store is one of J.
LEMMA AddStore ==
    ASSUME NEW s \in CombinedSet, IsStore(s.fw, RuleSet), links \subseteq Links,
           NEW name \in {"drop-fw", "drop"}
    PROVE  LET t == WithStore(s, AddRule(s.fw, Rule(name, Body(devices, {}, {}))))
           IN  /\ t \in CombinedSet /\ IsStore(t.fw, RuleSet)
               /\ RuleNames(t.fw) = RuleNames(s.fw) \cup {name}
               /\ t.rules = s.rules /\ t.isNetworkSet = s.isNetworkSet
               /\ t.isKillSwitchSet = s.isKillSwitchSet
<1> DEFINE rule == Rule(name, Body(devices, {}, {}))
           f == AddRule(s.fw, rule)
<1>1. rule \in RuleSet /\ rule.name = name
  BY Zenon DEF RuleSet, Rule, Body, BodySet, devices, RuleNameSet, MeshRule
<1> HIDE DEF rule
<1>2. IsStore(f, RuleSet) /\ RuleNames(f) = RuleNames(s.fw) \cup {name}
  BY ZenonT(60), <1>1, AddRuleStore
<1> HIDE DEF f
<1> QED
  BY <1>2, StoreUpdate, Zenon DEF f, rule

\* After blockTraffic, or the ErrRuleAlreadyExists that setNetwork ignores,
\* traffic is dropped.
LEMMA blockTrafficKeeps ==
    ASSUME NEW s \in I, links \subseteq Links
    PROVE  Tolerate(blockTraffic(s), "exists") \subseteq O(Dropping)
<1> DEFINE b == Body(devices, {}, {})
           u == WithStore(s, AddRule(s.fw, Rule("drop-fw", b)))
           w == WithStore(u, AddRule(u.fw, Rule("drop", b)))
<1>1. s \in J /\ s \in CombinedSet /\ IsStore(s.fw, RuleSet)
  BY DEF I, J
<1>2. /\ u \in CombinedSet /\ IsStore(u.fw, RuleSet)
      /\ RuleNames(u.fw) = RuleNames(s.fw) \cup {"drop-fw"}
      /\ u.rules = s.rules /\ u.isNetworkSet = s.isNetworkSet
      /\ u.isKillSwitchSet = s.isKillSwitchSet
  BY Zenon, <1>1, AddStore
<1> HIDE DEF u
<1>3. /\ w \in CombinedSet /\ IsStore(w.fw, RuleSet)
      /\ RuleNames(w.fw) = RuleNames(u.fw) \cup {"drop"}
      /\ w.rules = u.rules /\ w.isNetworkSet = u.isNetworkSet
      /\ w.isKillSwitchSet = u.isKillSwitchSet
  BY Zenon, <1>2, AddStore
<1> HIDE DEF w
<1>4. fwAdd(s, "drop-fw", b) = IF IsEqualRule(s.fw, Rule("drop-fw", b))
                              THEN {[s |-> s, err |-> "exists"]}
                              ELSE {[s |-> u, err |-> "nil"]}
  BY DEF fwAdd, Nil, Out, u, WithStore
<1>5. fwAdd(u, "drop", b) = IF IsEqualRule(u.fw, Rule("drop", b))
                           THEN {[s |-> u, err |-> "exists"]}
                           ELSE {[s |-> w, err |-> "nil"]}
  BY DEF fwAdd, Nil, Out, w, WithStore
<1>6. IsEqualRule(s.fw, Rule("drop-fw", b)) => "drop-fw" \in RuleNames(s.fw)
  BY NamesOfStore DEF IsEqualRule, Rule
<1>7. IsEqualRule(u.fw, Rule("drop", b)) => "drop" \in RuleNames(u.fw)
  BY NamesOfStore DEF IsEqualRule, Rule
<1> HIDE DEF b
<1>8. ASSUME NEW t \in CombinedSet, IsStore(t.fw, RuleSet), t.rules = s.rules,
             t.isNetworkSet = s.isNetworkSet, t.isKillSwitchSet = s.isKillSwitchSet,
             RuleNames(s.fw) \subseteq RuleNames(t.fw),
             {"drop-fw", "drop"} \subseteq RuleNames(t.fw)
      PROVE  t \in Dropping
  <2>1. t \in J /\ Frame(s, t)
    BY <1>1, <1>8 DEF J, Frame
  <2>2. t \in I
    BY <2>1, GoodI DEF Good
  <2> QED
    BY <1>8, <2>2 DEF Dropping
<1>9. IsEqualRule(s.fw, Rule("drop-fw", b)) => s \in Dropping
  BY <1>1, <1>6 DEF J, Dropping
<1>10. IsEqualRule(u.fw, Rule("drop", b)) => u \in Dropping
  BY <1>2, <1>7, <1>8
<1>11. w \in Dropping
  BY <1>2, <1>3, <1>8
<1>12. ASSUME NEW o \in blockTraffic(s)
       PROVE  o \in O(Dropping)
  <2>1. CASE IsEqualRule(s.fw, Rule("drop-fw", b))
    <3>1. o = [s |-> s, err |-> "exists"]
      BY <2>1, <1>4, <1>12 DEF blockTraffic, Then, b
    <3> QED
      BY <2>1, <3>1, <1>9 DEF O, Errs
  <2>2. CASE ~IsEqualRule(s.fw, Rule("drop-fw", b))
    <3>1. o \in fwAdd(u, "drop", b)
      BY <2>2, <1>4, <1>12 DEF blockTraffic, Then, b
    <3> QED
      BY <3>1, <1>5, <1>10, <1>11 DEF O, Errs
  <2> QED
    BY <2>1, <2>2
<1> QED
  BY <1>12, TolerateKeeps

\* The flags.
LEMMA FlagUpdates ==
    ASSUME NEW s \in J, NEW v \in BOOLEAN
    PROVE  /\ LET t == [s EXCEPT !.isNetworkSet = v]
              IN  /\ t \in J /\ t.isNetworkSet = v
                  /\ t.isKillSwitchSet = s.isKillSwitchSet /\ t.fw = s.fw
           /\ LET t == [s EXCEPT !.isKillSwitchSet = v]
              IN  /\ t \in J /\ t.isKillSwitchSet = v
                  /\ t.isNetworkSet = s.isNetworkSet /\ t.fw = s.fw
<1> DEFINE t == [s EXCEPT !.isNetworkSet = v]
           u == [s EXCEPT !.isKillSwitchSet = v]
<1>1. s \in CombinedSet
  BY DEF J
<1>2. /\ t \in CombinedSet /\ t.isNetworkSet = v /\ t.rules = s.rules
      /\ t.isKillSwitchSet = s.isKillSwitchSet /\ t.fw = s.fw
  BY <1>1 DEF CombinedSet
<1>3. /\ u \in CombinedSet /\ u.isKillSwitchSet = v /\ u.rules = s.rules
      /\ u.isNetworkSet = s.isNetworkSet /\ u.fw = s.fw
  BY <1>1 DEF CombinedSet
<1> HIDE DEF t, u
<1>4. t \in J /\ u \in J
  BY <1>2, <1>3 DEF J
<1> QED
  BY <1>2, <1>3, <1>4 DEF t, u

\* A setNetwork that returns nil has set the flag.
LEMMA setNetworkKeeps ==
    ASSUME NEW s \in I, NEW allowlist \in AllowlistSet, links \subseteq Links
    PROVE  /\ setNetwork(s, allowlist) \subseteq O(I)
           /\ \A o \in setNetwork(s, allowlist) : o.err = "nil" => o.s.isNetworkSet
<1> DEFINE Done(x) == [x EXCEPT !.isNetworkSet = TRUE]
           api == Body(devices, {}, {})
           Ok == {o \in O(I) : o.err = "nil" => o.s.isNetworkSet}
<1>1. /\ \A o \in O(Dropping) : o.s \in Dropping /\ o \in O(I)
      /\ \A o \in O(Blocking) : o.s \in Blocking /\ o \in O(I)
  BY DEF O, Dropping, Blocking
<1>2. Tolerate(blockTraffic(s), "exists") \subseteq O(Dropping)
  BY blockTrafficKeeps
<1>3. ASSUME NEW x \in Dropping
      PROVE  fwAdd(x, "api_allowlist", api) \subseteq O(Blocking)
  <2>1. api \in BodySet
    BY DEF Body, BodySet, devices
  <2>2. "api_allowlist" \in RuleNameSet \ {"drop-fw"} /\ "api_allowlist" # MeshRule
    BY DEF RuleNameSet, MeshRule
  <2> HIDE DEF api
  <2>3. /\ fwAdd(x, "api_allowlist", api) \subseteq O(Dropping)
        /\ \A o \in fwAdd(x, "api_allowlist", api) : "api_allowlist" \in RuleNames(o.s.fw)
    BY <2>1, <2>2, GoodBlocking, fwAddKeeps
  <2> SUFFICES ASSUME NEW o \in fwAdd(x, "api_allowlist", api)
               PROVE  o \in O(Blocking)
    OBVIOUS
  <2>4. o \in O(Dropping) /\ o.s \in Dropping
    BY <2>3, <1>1
  <2>5. o.s \in Blocking
    BY <2>3, <2>4 DEF Dropping, Blocking, BlocksTraffic, BlockRules
  <2> QED
    BY <2>4, <2>5 DEF O
<1>4. \A x \in Blocking : setAllowlist(x, allowlist) \subseteq O(Blocking)
  BY GoodBlocking, setAllowlistKeeps
<1>5. \A x \in Blocking :
         Logged(exitResetFirewall(x, x.lanDiscovery, TRUE)) \subseteq O(Blocking)
  <2>1. \A x \in Blocking : x.lanDiscovery \in BOOLEAN
    BY GoodBlocking, FieldTypes
  <2>2. \A x \in Blocking :
           exitResetFirewall(x, x.lanDiscovery, TRUE) \subseteq O(Blocking)
    BY <2>1, GoodBlocking, ExitKeeps, Zenon
  <2> QED
    BY Zenon, <2>2, LoggedKeeps
<1>6. ASSUME NEW x \in Blocking
      PROVE  Done(x) \in I /\ Done(x).isNetworkSet
  <2>1. x \in J /\ BlocksTraffic(x)
    BY DEF Blocking, I
  <2>2. Done(x) \in J /\ Done(x).isNetworkSet = TRUE /\ Done(x).fw = x.fw
    BY Zenon, <2>1, FlagUpdates
  <2> HIDE DEF Done
  <2> QED
    BY <2>1, <2>2 DEF I, FlagsHold, BlocksTraffic
<1>7. \A x \in Blocking : Nil(Done(x)) \subseteq Ok
  <2> HIDE DEF Done
  <2> QED
    BY <1>6 DEF Nil, Out, O, Errs
<1>8. setNetwork(s, allowlist) =
         Then(Tolerate(blockTraffic(s), "exists"),
         LAMBDA s1 : Then(fwAdd(s1, "api_allowlist", api),
         LAMBDA s2 : Then(setAllowlist(s2, allowlist),
         LAMBDA s3 : Then(Logged(exitResetFirewall(s3, s3.lanDiscovery, TRUE)),
         LAMBDA s4 : Nil(Done(s4))))))
  BY Zenon DEF setNetwork
<1> HIDE DEF Done, api
<1>9. \A o \in O(I) : o.err # "nil" => {o} \subseteq Ok
  OBVIOUS
<1> HIDE DEF Ok
<1>10. setNetwork(s, allowlist) \subseteq Ok
  <2> DEFINE F4(x) == Then(Logged(exitResetFirewall(x, x.lanDiscovery, TRUE)),
                           LAMBDA y : Nil(Done(y)))
             F3(x) == Then(setAllowlist(x, allowlist), LAMBDA y : F4(y))
             F2(x) == Then(fwAdd(x, "api_allowlist", api), LAMBDA y : F3(y))
  <2>1. \A x \in Blocking : F4(x) \subseteq Ok
    BY Zenon, <1>1, <1>5, <1>7, <1>9 DEF Then
  <2>2. setNetwork(s, allowlist) =
           Then(Tolerate(blockTraffic(s), "exists"), LAMBDA x : F2(x))
    BY <1>8
  <2> HIDE DEF F4
  <2>3. \A x \in Blocking : F3(x) \subseteq Ok
    BY <1>1, <1>4, <1>9, <2>1 DEF Then
  <2> HIDE DEF F3
  <2>4. \A x \in Dropping : F2(x) \subseteq Ok
    BY <1>1, <1>3, <1>9, <2>3 DEF Then
  <2> HIDE DEF F2
  <2> QED
    BY <1>1, <1>2, <1>9, <2>2, <2>4 DEF Then
<1> QED
  BY <1>10 DEF Ok

\* A blocking rule that is deleted.
LEMMA DeleteBlock ==
    ASSUME NEW s \in J, NEW name \in BlockRules,
           name = "drop" => "drop-fw" \notin RuleNames(s.fw)
    PROVE  LET t == WithStore(s, DeleteRule(s.fw, name))
           IN  /\ t \in J /\ t.isKillSwitchSet = s.isKillSwitchSet
               /\ name \notin RuleNames(t.fw)
<1> DEFINE f == DeleteRule(s.fw, name)
           t == WithStore(s, f)
<1>1. /\ s \in CombinedSet /\ IsStore(s.fw, RuleSet) /\ s.rules \in Tracked
      /\ Names(s.rules) \subseteq RuleNames(s.fw)
      /\ "drop-fw" \in RuleNames(s.fw) => "drop" \in RuleNames(s.fw)
  BY Zenon DEF J, CombinedSet
<1>2. IsStore(f, RuleSet) /\ RuleNames(f) = RuleNames(s.fw) \ {name}
  BY <1>1, DeleteRuleStore
<1> HIDE DEF f
<1>3. /\ t \in CombinedSet /\ t.fw = f /\ t.rules = s.rules
      /\ t.isKillSwitchSet = s.isKillSwitchSet
  BY <1>1, <1>2, StoreUpdate
<1> HIDE DEF t
<1>4. name \notin Names(s.rules)
  <2>1. Names(s.rules) \subseteq {Dns, MeshRule}
    BY <1>1 DEF Names, Tracked
  <2> QED
    BY <2>1 DEF BlockRules, Dns, MeshRule
<1>5. t \in J
  BY <1>1, <1>2, <1>3, <1>4 DEF J
<1> QED
  BY SMTT(30), <1>2, <1>3, <1>5 DEF t, f

\* unsetNetwork leaves the kill switch flag alone.  While the port routing
\* cannot fail, it fails only where it has changed nothing.
LEMMA unsetNetworkKeeps ==
    ASSUME NEW s \in I
    PROVE  /\ unsetNetwork(s) \subseteq O(J)
           /\ \A o \in unsetNetwork(s) :
                 /\ o.s.isKillSwitchSet = s.isKillSwitchSet
                 /\ "ports" \notin Faulty => \/ o.err = "nil" /\ ~o.s.isNetworkSet
                                             \/ o.err # "nil" /\ o.s = s
<1> DEFINE K == {t \in J : t.isKillSwitchSet = s.isKillSwitchSet}
           Done(x) == [x EXCEPT !.isNetworkSet = FALSE]
           Ok == {o \in O(K) : "ports" \notin Faulty =>
                                  \/ o.err = "nil" /\ ~o.s.isNetworkSet
                                  \/ o.err # "nil" /\ o.s = s}
<1>1. s \in K /\ s \in J
  BY DEF I
<1>2. Good(K)
  BY DEF Good, Frame
<1>3. \A x \in K : Nil(Done(x)) \subseteq Ok
  <2>1. \A x \in K : Done(x) \in K /\ Done(x).isNetworkSet = FALSE
    BY FlagUpdates, Zenon
  <2> HIDE DEF Done
  <2> QED
    BY <2>1 DEF Nil, Out, O, Errs
<1>4. \A o \in O(K) : o.s \in K
  BY DEF O
<1>5. ASSUME NEW x \in K, NEW name \in BlockRules,
             name = "drop" => "drop-fw" \notin RuleNames(x.fw)
      PROVE  /\ fwDelete(x, name) \subseteq O(K)
             /\ \A o \in fwDelete(x, name) :
                   /\ o.err \in {"nil", "notfound"}
                   /\ o.err = "nil" => name \notin RuleNames(o.s.fw)
                   /\ o.err # "nil" => o.s = x
  <2> DEFINE t == WithStore(x, DeleteRule(x.fw, name))
  <2>1. t \in K /\ name \notin RuleNames(t.fw)
    BY <1>5, DeleteBlock
  <2>2. fwDelete(x, name) = IF ~HasRule(x.fw, name) THEN {[s |-> x, err |-> "notfound"]}
                            ELSE {[s |-> t, err |-> "nil"]}
    BY DEF fwDelete, Nil, Out, WithStore
  <2> HIDE DEF t
  <2>3. CASE HasRule(x.fw, name)
    <3>1. fwDelete(x, name) = {[s |-> t, err |-> "nil"]}
      BY Zenon, <2>2, <2>3
    <3> QED
      BY SMTT(30), <2>1, <3>1 DEF O, Errs
  <2>4. CASE ~HasRule(x.fw, name)
    <3>1. fwDelete(x, name) = {[s |-> x, err |-> "notfound"]}
      BY Zenon, <2>2, <2>4
    <3> QED
      BY SMTT(30), <1>5, <3>1 DEF O, Errs
  <2> QED
    BY Zenon, <2>3, <2>4
<1>6. "drop-fw" \in BlockRules /\ "drop" \in BlockRules /\ "api_allowlist" \in BlockRules
  BY DEF BlockRules
<1>7. \A t \in K : t.isKillSwitchSet = s.isKillSwitchSet
  OBVIOUS
<1>8. O(K) \subseteq O(J)
  BY DEF O
<1> HIDE DEF K
<1>9. ASSUME NEW x \in K
      PROVE  /\ Tolerate(unblockTraffic(x), "notfound") \subseteq O(K)
             /\ \A o \in Tolerate(unblockTraffic(x), "notfound") : o.err = "nil"
  <2>1. unblockTraffic(x) \subseteq O(K)
    BY <1>4, <1>5, <1>6 DEF unblockTraffic, Then
  <2>2. \A o \in unblockTraffic(x) : o.err \in {"nil", "notfound"}
    BY <1>4, <1>5, <1>6 DEF unblockTraffic, Then
  <2>3. \A o \in O(K) : [o EXCEPT !.err = "nil"].err = "nil"
    BY DEF O
  <2>4. Tolerate(unblockTraffic(x), "notfound") \subseteq O(K)
    BY <2>1, TolerateKeeps
  <2>5. \A o \in Tolerate(unblockTraffic(x), "notfound") : o.err = "nil"
    BY Zenon, <2>1, <2>2, <2>3 DEF Tolerate
  <2> QED
    BY <2>4, <2>5
<1>10. ASSUME NEW x \in K
      PROVE  /\ unsetAllowlist(x) \subseteq O(K)
             /\ "ports" \notin Faulty => \A o \in unsetAllowlist(x) : o.err = "nil"
  <2>1. x \in J
    BY <1>2 DEF Good
  <2> QED
    BY <1>2, <2>1, unsetAllowlistKeeps, unsetAllowlistNil
<1>11. ASSUME NEW x \in K
      PROVE  /\ Logged(exitResetFirewall(x, TRUE, FALSE)) \subseteq O(K)
             /\ \A o \in Logged(exitResetFirewall(x, TRUE, FALSE)) : o.err = "nil"
  <2>1. /\ exitResetFirewall(x, TRUE, FALSE) \subseteq O(K)
        /\ \A o \in Logged(exitResetFirewall(x, TRUE, FALSE)) : o.err = "nil"
    BY <1>2, ExitKeeps, Zenon
  <2> QED
    BY Zenon, <2>1, LoggedKeeps
<1>12. unsetNetwork(s) =
          Then(fwDelete(s, "api_allowlist"),
          LAMBDA s1 : Then(Tolerate(unblockTraffic(s1), "notfound"),
          LAMBDA s2 : Then(unsetAllowlist(s2),
          LAMBDA s3 : Then(Logged(exitResetFirewall(s3, TRUE, FALSE)),
          LAMBDA s4 : Nil(Done(s4))))))
  BY Zenon DEF unsetNetwork
<1>13. \A o \in O(K) : o.err # "nil" /\ (o.s = s \/ "ports" \in Faulty) => {o} \subseteq Ok
  OBVIOUS
<1>14. fwDelete(s, "api_allowlist") \subseteq O(K)
       /\ \A o \in fwDelete(s, "api_allowlist") : o.err # "nil" => o.s = s
  BY <1>1, <1>5, <1>6
<1>15. Ok \subseteq O(K)
  OBVIOUS
<1>16. \A o \in Ok : /\ o.s \in K
                     /\ "ports" \notin Faulty => \/ o.err = "nil" /\ ~o.s.isNetworkSet
                                                 \/ o.err # "nil" /\ o.s = s
  BY <1>4
<1> HIDE DEF Done, Ok
<1>17. unsetNetwork(s) \subseteq Ok
  <2> DEFINE F4(x) == Then(Logged(exitResetFirewall(x, TRUE, FALSE)),
                           LAMBDA y : Nil(Done(y)))
             F3(x) == Then(unsetAllowlist(x), LAMBDA y : F4(y))
             F2(x) == Then(Tolerate(unblockTraffic(x), "notfound"), LAMBDA y : F3(y))
  <2>1. unsetNetwork(s) = Then(fwDelete(s, "api_allowlist"), LAMBDA x : F2(x))
    BY <1>12
  <2>2. \A x \in K : F4(x) \subseteq Ok
    BY <1>3, <1>4, <1>11, Zenon DEF Then
  <2> HIDE DEF F4
  <2>3. \A x \in K : F3(x) \subseteq Ok
    BY <1>4, <1>10, <1>13, <2>2 DEF Then
  <2> HIDE DEF F3
  <2>4. \A x \in K : F2(x) \subseteq Ok
    BY <1>4, <1>9, <2>3 DEF Then
  <2> HIDE DEF F2
  <2> QED
    BY <1>4, <1>13, <1>14, <2>1, <2>4 DEF Then
<1> QED
  BY <1>15, <1>16, <1>7, <1>17, <1>8

\* unsetNetwork keeps the invariant when no kill switch relies on the rules.
LEMMA unsetNetworkI ==
    ASSUME NEW s \in I, ~s.isKillSwitchSet
    PROVE  unsetNetwork(s) \subseteq O(I)
<1> SUFFICES ASSUME NEW o \in unsetNetwork(s)
             PROVE  o \in O(I)
  OBVIOUS
<1>1. /\ o \in O(J) /\ o.s.isKillSwitchSet = s.isKillSwitchSet
      /\ "ports" \notin Faulty => \/ o.err = "nil" /\ ~o.s.isNetworkSet
                                  \/ o.err # "nil" /\ o.s = s
  BY unsetNetworkKeeps
<1>2. o.s \in J
  BY <1>1 DEF O
<1>3. o.s \in I
  BY <1>1, <1>2 DEF I, FlagsHold
<1> QED
  BY <1>1, <1>3 DEF O

\* setKillSwitch raises its flag only once the network is set.
LEMMA setKillSwitchKeeps ==
    ASSUME NEW s \in I, NEW allowlist \in AllowlistSet, links \subseteq Links
    PROVE  setKillSwitch(s, allowlist) \subseteq O(I)
<1> DEFINE On(x) == [x EXCEPT !.isKillSwitchSet = TRUE]
           out == IF s.isNetworkSet THEN Nil(s) ELSE setNetwork(s, allowlist)
<1>1. ASSUME NEW x \in I, x.isNetworkSet
      PROVE  On(x) \in I
  <2>1. x \in J /\ FlagsHold(x)
    BY DEF I
  <2>2. On(x) \in J /\ On(x).isNetworkSet = x.isNetworkSet /\ On(x).fw = x.fw
    BY Zenon, <2>1, FlagUpdates
  <2> HIDE DEF On
  <2> QED
    BY Zenon, <1>1, <2>1, <2>2 DEF I, FlagsHold, BlocksTraffic
<1>2. out \subseteq O(I) /\ \A o \in out : o.err = "nil" => o.s.isNetworkSet
  <2>1. CASE s.isNetworkSet
    BY <2>1, NilKeeps DEF Nil, Out
  <2>2. CASE ~s.isNetworkSet
    BY <2>2, setNetworkKeeps
  <2> QED
    BY <2>1, <2>2
<1>3. setKillSwitch(s, allowlist) = Then(out, LAMBDA t : Nil(On(t)))
  BY DEF setKillSwitch
<1> HIDE DEF On, out
<1>4. ASSUME NEW o \in out, o.err = "nil"
      PROVE  Nil(On(o.s)) \subseteq O(I)
  <2>1. o.s \in I /\ o.s.isNetworkSet
    BY <1>2, <1>4 DEF O
  <2> QED
    BY <1>1, <2>1, NilKeeps
<1> QED
  BY <1>2, <1>3, <1>4 DEF Then

\* refreshVPN may clear the kill switch flag at any time: the rules stay.
LEMMA OffKeeps ==
    ASSUME NEW s \in I
    PROVE  [s EXCEPT !.isKillSwitchSet = FALSE] \in I
<1> DEFINE t == [s EXCEPT !.isKillSwitchSet = FALSE]
<1>1. s \in J /\ FlagsHold(s)
  BY DEF I
<1>2. t \in J /\ t.isKillSwitchSet = FALSE /\ t.isNetworkSet = s.isNetworkSet /\ t.fw = s.fw
  BY Zenon, <1>1, FlagUpdates
<1> HIDE DEF t
<1>3. t \in I
  BY <1>1, <1>2 DEF I, FlagsHold, BlocksTraffic
<1> QED
  BY <1>3 DEF t

\* unsetKillSwitch clears the flag unless it fails; a failure while the rules
\* are half gone needs the port routing to fail.
LEMMA unsetKillSwitchKeeps ==
    ASSUME NEW s \in I
    PROVE  unsetKillSwitch(s) \subseteq O(I)
<1> DEFINE Off(x) == [x EXCEPT !.isKillSwitchSet = FALSE]
           out == IF s.isVpnSet THEN Nil(s) ELSE unsetNetwork(s)
<1>1. unsetKillSwitch(s) = Then(out, LAMBDA t : Nil(Off(t)))
  BY DEF unsetKillSwitch
<1>2. ASSUME NEW o \in out
      PROVE  (IF o.err = "nil" THEN Nil(Off(o.s)) ELSE {o}) \subseteq O(I)
  <2>1. CASE s.isVpnSet
    <3>1. o = [s |-> s, err |-> "nil"]
      BY <2>1, <1>2 DEF Nil, Out
    <3>2. Off(s) \in I
      BY OffKeeps
    <3> HIDE DEF Off
    <3> QED
      BY <3>1, <3>2, NilKeeps
  <2>2. CASE ~s.isVpnSet
    <3>1. /\ o \in O(J)
          /\ "ports" \notin Faulty => \/ o.err = "nil" /\ ~o.s.isNetworkSet
                                      \/ o.err # "nil" /\ o.s = s
      BY <2>2, <1>2, unsetNetworkKeeps
    <3>2. o.s \in J
      BY <3>1 DEF O
    <3>3. CASE o.err = "nil"
      <4>1. /\ Off(o.s) \in J /\ Off(o.s).isKillSwitchSet = FALSE
            /\ Off(o.s).isNetworkSet = o.s.isNetworkSet
        BY Zenon, <3>2, FlagUpdates
      <4> HIDE DEF Off
      <4>2. Off(o.s) \in I
        BY <3>1, <3>3, <4>1 DEF I, FlagsHold
      <4> QED
        BY <3>3, <4>2, NilKeeps
    <3>4. CASE o.err # "nil"
      <4>1. o.s \in I
        BY <3>1, <3>2, <3>4 DEF I, FlagsHold
      <4> QED
        BY <3>1, <3>4, <4>1 DEF O
    <3> QED
      BY Zenon, <3>3, <3>4
  <2> QED
    BY <2>1, <2>2, Zenon
<1> HIDE DEF Off, out
<1> QED
  BY <1>1, <1>2 DEF Then

-----------------------------------------------------------------------------
(* Connecting, disconnecting and a change of the network.                   *)

\* Assignments of start, restart and stop, as facts about I.
LEMMA FlagI ==
    ASSUME NEW s \in I
    PROVE  /\ \A v \in BOOLEAN : [s EXCEPT !.isVpnSet = v] \in I
           /\ \A v \in SUBSET Links : [s EXCEPT !.interfaces = v] \in I
           /\ \A v \in Servers \cup Peers \cup {None} : [s EXCEPT !.lastServer = v] \in I
           /\ \A v \in BOOLEAN : [s EXCEPT !.enableLocalTraffic = v] \in I
           /\ switchToNextVpn(s) \in I /\ routerFlush(s) \in I
BY Zenon, GoodI, FieldsKeep, switchToNextVpnKeeps, ServicesKeep

\* failureRecover unsets the network only when no kill switch needs it.
LEMMA failureRecoverKeeps ==
    ASSUME NEW s \in I
    PROVE  failureRecover(s) \subseteq O(I)
<1> DEFINE Done(x) == [x EXCEPT !.isVpnSet = FALSE]
<1>1. \A x \in I : Logged(CleanupRouting(x)) \subseteq O(I) /\ Nil(x) \subseteq O(I)
  BY SMTT(30), GoodI, ServicesKeep, LoggedKeeps, NilKeeps
<1>2. \A x \in I : Logged(vpnStop(routerFlush(x))) \subseteq O(I)
  BY GoodI, ServicesKeep, VpnKeeps, LoggedKeeps
<1>3. \A x \in I : ~x.isKillSwitchSet => Logged(unsetNetwork(x)) \subseteq O(I)
  BY unsetNetworkI, LoggedKeeps
<1>4. \A x \in I : Nil(Done(x)) \subseteq O(I)
  BY FlagI, NilKeeps, Zenon
<1>5. \A o \in O(I) : o.s \in I
  BY DEF O
<1>6. failureRecover(s) =
         Then(IF s.isMeshnetSet THEN Nil(s) ELSE Logged(CleanupRouting(s)),
         LAMBDA s1 : Then(Logged(vpnStop(routerFlush(s1))),
         LAMBDA s2 : Then(IF s2.isNetworkSet /\ ~s2.isKillSwitchSet
                          THEN Logged(unsetNetwork(s2)) ELSE Nil(s2),
         LAMBDA s3 : Nil(Done(s3)))))
  BY Zenon DEF failureRecover
<1> HIDE DEF Done
<1> QED
  BY SMTT(30), <1>1, <1>2, <1>3, <1>4, <1>5, <1>6 DEF Then

\* configureNetwork sets the network after the VPN started.
LEMMA configureNetworkKeeps ==
    ASSUME NEW s \in I, NEW allowlist \in AllowlistSet, links \subseteq Links,
           NEW ns \in Nameservers \cup {None}, NEW server
    PROVE  configureNetwork(s, allowlist, server, ns) \subseteq O(I)
<1>1. \A o \in O(I) : o.s \in I
  BY DEF O
<1>2. configureFirewall(s, allowlist) \subseteq O(I)
  <2> DEFINE Pick(o) == IF o.err = "exists" \/ (o.err # "panic" /\ o.s.isNetworkSet)
                        THEN [o EXCEPT !.err = "nil"] ELSE o
             out == {Pick(o) : o \in setNetwork(s, allowlist)}
  <2>1. \A o \in O(I) : Pick(o) \in O(I)
    BY DEF O, Errs
  <2>2. configureFirewall(s, allowlist) = Then(out, LAMBDA t : resetAllowlist(t))
    BY DEF configureFirewall
  <2> HIDE DEF Pick
  <2>3. out \subseteq O(I)
    BY <2>1, setNetworkKeeps
  <2>4. \A x \in I : resetAllowlist(x) \subseteq O(I)
    BY SMTT(30), GoodI, resetAllowlistKeeps
  <2> HIDE DEF out
  <2> QED
    BY <1>1, <2>2, <2>3, <2>4 DEF Then
<1>3. \A x \in I : /\ addDefaultRoute(x) \subseteq O(I)
                   /\ configureDNS(x, server, ns) \subseteq O(I)
                   /\ refresh(x) \subseteq O(I) /\ Nil(x) \subseteq O(I)
                   /\ disableIPv6IfNeeded(x) \subseteq O(I)
  BY GoodI, ServicesKeep, DnsKeeps, refreshKeeps, NilKeeps, Zenon
<1> DEFINE F4(x) == Then(IF x.isMeshnetSet THEN refresh(x) ELSE Nil(x),
                         LAMBDA y : disableIPv6IfNeeded(y))
           F3(x) == Then(configureDNS(x, server, ns), LAMBDA y : F4(y))
           F2(x) == Then(addDefaultRoute(x), LAMBDA y : F3(y))
<1>4. configureNetwork(s, allowlist, server, ns) =
         Then(configureFirewall(s, allowlist), LAMBDA x : F2(x))
  BY Zenon DEF configureNetwork
<1>5. \A x \in I : F4(x) \subseteq O(I)
  BY Zenon, <1>1, <1>3 DEF Then
<1> HIDE DEF F4
<1>6. \A x \in I : F3(x) \subseteq O(I)
  BY Zenon, <1>1, <1>3, <1>5 DEF Then
<1> HIDE DEF F3
<1>7. \A x \in I : F2(x) \subseteq O(I)
  BY Zenon, <1>1, <1>3, <1>6 DEF Then
<1> HIDE DEF F2
<1> QED
  BY Zenon, <1>1, <1>2, <1>4, <1>7 DEF Then

\* A method followed by failureRecover when it fails.
LEMMA Recovered ==
    ASSUME NEW out, out \subseteq O(I)
    PROVE  OnError(out, LAMBDA t : failureRecover(t)) \subseteq O(I)
<1>1. \A o \in O(I) : o.s \in I /\ o.err \in Errs
  BY DEF O
<1>2. \A x \in I, e \in Errs : WithErr(failureRecover(x), e) \subseteq O(I)
  BY failureRecoverKeeps, WithErrKeeps
<1> SUFFICES ASSUME NEW o \in out
             PROVE  /\ {o} \subseteq O(I)
                    /\ WithErr(failureRecover(o.s), o.err) \subseteq O(I)
  BY SMTT(30) DEF OnError
<1> QED
  BY <1>1, <1>2

\* The calls of SetupRoutingRules, with the arguments the networker passes.
LEMMA PolicyKeeps ==
    ASSUME NEW s \in I, NEW nets \in SUBSET Subnets
    PROVE  /\ SetupRoutingRules(s, s.enableLocalTraffic, s.lanDiscovery, nets) \subseteq O(I)
           /\ SetupRoutingRules(s, s.enableLocalTraffic, s.lanDiscovery,
                                s.allowlist.subnets) \subseteq O(I)
           /\ SetupRoutingRules(s, TRUE, s.lanDiscovery, s.allowlist.subnets) \subseteq O(I)
<1>1. s.enableLocalTraffic \in BOOLEAN /\ s.lanDiscovery \in BOOLEAN
  BY SMTT(30), GoodI, FieldTypes
<1>2. s.allowlist.subnets \in SUBSET Subnets
  BY GoodI, FieldTypes DEF AllowlistSet
<1> QED
  BY <1>1, <1>2, GoodI, ServicesKeep, Zenon

\* start: the VPN, the routes, the network, and failureRecover on the first
\* error.
LEMMA startKeeps ==
    ASSUME NEW s \in I, NEW server \in Servers \cup Peers \cup {None},
           NEW allowlist \in AllowlistSet, NEW ns \in Nameservers \cup {None},
           links \subseteq Links
    PROVE  start(s, server, allowlist, ns) \subseteq O(I)
<1> DEFINE Done(x) == [x EXCEPT !.isVpnSet = TRUE, !.lastServer = server,
                                !.lastNameservers = ns, !.interfaces = links]
           out == Then(vpnStartOrStop(s),
                  LAMBDA s1 : Then(SetupRoutingRules(s1, s1.enableLocalTraffic,
                                                     s1.lanDiscovery, allowlist.subnets),
                  LAMBDA s2 : Then(configureNetwork(s2, allowlist, server, ns),
                  LAMBDA s3 : Nil(Done(s3)))))
<1>1. \A o \in O(I) : o.s \in I
  BY DEF O
<1>2. vpnStartOrStop(s) \subseteq O(I)
  BY GoodI, vpnStartOrStopKeeps
<1>3. \A x \in I : SetupRoutingRules(x, x.enableLocalTraffic, x.lanDiscovery,
                                     allowlist.subnets) \subseteq O(I)
  BY Zenon, PolicyKeeps DEF AllowlistSet
<1>4. \A x \in I : configureNetwork(x, allowlist, server, ns) \subseteq O(I)
  BY configureNetworkKeeps
<1>5. ASSUME NEW x \in I
      PROVE  Done(x) \in I
  <2> DEFINE x1 == [x EXCEPT !.isVpnSet = TRUE]
             x2 == [x1 EXCEPT !.lastServer = server]
             x3 == [x2 EXCEPT !.lastNameservers = ns]
             x4 == [x3 EXCEPT !.interfaces = links]
  <2>1. x1 \in I
    BY Zenon, GoodI, FieldsKeep
  <2>2. Done(x) = x4
    BY DEF I, J, CombinedSet
  <2> HIDE DEF x1
  <2>3. x2 \in I
    BY ZenonT(60), <2>1, GoodI, FieldsKeep
  <2> HIDE DEF x2
  <2>4. x3 \in I
    BY ZenonT(60), <2>3, GoodI, FieldsKeep
  <2> HIDE DEF x3
  <2>5. x4 \in I
    BY Zenon, <2>4, GoodI, FieldsKeep
  <2> QED
    BY <2>2, <2>5
<1>6. \A x \in I : Nil(Done(x)) \subseteq O(I)
  <2> HIDE DEF Done
  <2> QED
    BY <1>5, NilKeeps
<1>7. start(s, server, allowlist, ns) =
         IF s.isVpnSet THEN Fail(s) ELSE OnError(out, LAMBDA t : failureRecover(t))
  BY Zenon DEF start
<1> HIDE DEF Done
<1>8. out \subseteq O(I)
  <2> DEFINE F3(x) == Then(configureNetwork(x, allowlist, server, ns), LAMBDA y : Nil(Done(y)))
             F2(x) == Then(SetupRoutingRules(x, x.enableLocalTraffic, x.lanDiscovery,
                                             allowlist.subnets), LAMBDA y : F3(y))
  <2>1. out = Then(vpnStartOrStop(s), LAMBDA x : F2(x))
    BY Zenon
  <2>2. \A x \in I : F3(x) \subseteq O(I)
    BY Zenon, <1>1, <1>4, <1>6 DEF Then
  <2> HIDE DEF F3, out
  <2>3. \A x \in I : F2(x) \subseteq O(I)
    BY Zenon, <1>1, <1>3, <2>2 DEF Then
  <2> HIDE DEF F2
  <2> QED
    BY Zenon, <1>1, <1>2, <2>1, <2>3 DEF Then
<1> HIDE DEF out
<1> QED
  BY Zenon, <1>7, <1>8, Recovered, NilKeeps

\* restart replaces a running VPN and never touches the network rules.
LEMMA restartKeeps ==
    ASSUME NEW s \in I, NEW server \in Servers \cup Peers \cup {None},
           NEW ns \in Nameservers \cup {None}
    PROVE  restart(s, server, ns) \subseteq O(I)
<1> DEFINE Done(x) == [x EXCEPT !.lastServer = server]
           out == Then(vpnStop(routerFlush(s)),
                  LAMBDA s1 : Then(vpnStartOrStop(switchToNextVpn(s1)),
                  LAMBDA s2 : Then(addDefaultRoute(s2),
                  LAMBDA s3 : Then(configureDNS(s3, server, ns),
                  LAMBDA s4 : Then(Logged(disableIPv6IfNeeded(s4)),
                  LAMBDA s5 : Nil(Done(s5)))))))
<1>1. \A o \in O(I) : o.s \in I
  BY DEF O
<1>2. vpnStop(routerFlush(s)) \subseteq O(I)
  BY GoodI, FlagI, VpnKeeps
<1>3. \A x \in I : vpnStartOrStop(switchToNextVpn(x)) \subseteq O(I)
  BY SMTT(30), GoodI, FlagI, vpnStartOrStopKeeps
<1>4. \A x \in I : /\ addDefaultRoute(x) \subseteq O(I)
                   /\ configureDNS(x, server, ns) \subseteq O(I)
                   /\ Logged(disableIPv6IfNeeded(x)) \subseteq O(I)
  BY GoodI, ServicesKeep, DnsKeeps, LoggedKeeps
<1>5. \A x \in I : Nil(Done(x)) \subseteq O(I)
  BY FlagI, NilKeeps
<1>6. restart(s, server, ns) = OnError(out, LAMBDA t : failureRecover(t))
  BY Zenon DEF restart
<1> HIDE DEF Done
<1>7. out \subseteq O(I)
  <2> DEFINE F5(x) == Then(Logged(disableIPv6IfNeeded(x)), LAMBDA y : Nil(Done(y)))
             F4(x) == Then(configureDNS(x, server, ns), LAMBDA y : F5(y))
             F3(x) == Then(addDefaultRoute(x), LAMBDA y : F4(y))
             F2(x) == Then(vpnStartOrStop(switchToNextVpn(x)), LAMBDA y : F3(y))
  <2>1. out = Then(vpnStop(routerFlush(s)), LAMBDA x : F2(x))
    BY Zenon
  <2>2. \A x \in I : F5(x) \subseteq O(I)
    BY Zenon, <1>1, <1>4, <1>5 DEF Then
  <2> HIDE DEF F5, out
  <2>3. \A x \in I : F4(x) \subseteq O(I)
    BY Zenon, <1>1, <1>4, <2>2 DEF Then
  <2> HIDE DEF F4
  <2>4. \A x \in I : F3(x) \subseteq O(I)
    BY Zenon, <1>1, <1>4, <2>3 DEF Then
  <2> HIDE DEF F3
  <2>5. \A x \in I : F2(x) \subseteq O(I)
    BY Zenon, <1>1, <1>3, <2>4 DEF Then
  <2> HIDE DEF F2
  <2> QED
    BY Zenon, <1>1, <1>2, <2>1, <2>5 DEF Then
<1> HIDE DEF out
<1> QED
  BY Zenon, <1>6, <1>7, Recovered

\* stop keeps the network rules while the kill switch is set.
LEMMA stopKeeps ==
    ASSUME NEW s \in I
    PROVE  stop(s) \subseteq O(I)
<1> DEFINE Done(x) == [switchToNextVpn(x) EXCEPT !.isVpnSet = FALSE]
<1>1. \A o \in O(I) : o.s \in I
  BY DEF O
<1>2. \A x \in I : /\ Logged(ipv6Unblock(x)) \subseteq O(I)
                   /\ unsetDNS(x) \subseteq O(I)
                   /\ Logged(CleanupRouting(x)) \subseteq O(I)
                   /\ Nil(x) \subseteq O(I)
  BY GoodI, ServicesKeep, LoggedKeeps, NilKeeps
<1>3. \A x \in I : SetupRoutingRules(x, TRUE, x.lanDiscovery, x.allowlist.subnets)
                      \subseteq O(I)
  BY Zenon, PolicyKeeps
<1>4. \A x \in I : vpnStop(routerFlush(x)) \subseteq O(I)
  BY GoodI, FlagI, VpnKeeps
<1>5. \A x \in I : ~x.isKillSwitchSet => unsetNetwork(x) \subseteq O(I)
  BY unsetNetworkI
<1>6. \A x \in I : Nil(Done(x)) \subseteq O(I)
  BY Zenon, FlagI, NilKeeps
<1>7. stop(s) =
         Then(Logged(ipv6Unblock(s)),
         LAMBDA s1 : Then(unsetDNS(s1),
         LAMBDA s2 : Then(IF s2.isMeshnetSet
                          THEN SetupRoutingRules(s2, TRUE, s2.lanDiscovery,
                                                 s2.allowlist.subnets)
                          ELSE Logged(CleanupRouting(s2)),
         LAMBDA s3 : Then(vpnStop(routerFlush(s3)),
         LAMBDA s4 : Then(IF s4.isKillSwitchSet THEN Nil(s4) ELSE unsetNetwork(s4),
         LAMBDA s5 : Nil(Done(s5)))))))
  BY Zenon DEF stop
<1> HIDE DEF Done
<1> DEFINE F4(x) == Then(IF x.isKillSwitchSet THEN Nil(x) ELSE unsetNetwork(x),
                         LAMBDA y : Nil(Done(y)))
           F3(x) == Then(vpnStop(routerFlush(x)), LAMBDA y : F4(y))
           F2(x) == Then(IF x.isMeshnetSet
                         THEN SetupRoutingRules(x, TRUE, x.lanDiscovery, x.allowlist.subnets)
                         ELSE Logged(CleanupRouting(x)), LAMBDA y : F3(y))
<1>8. stop(s) = Then(Logged(ipv6Unblock(s)),
                LAMBDA s1 : Then(unsetDNS(s1), LAMBDA s2 : F2(s2)))
  BY <1>7
<1>9. \A x \in I : F4(x) \subseteq O(I)
  BY <1>1, <1>2, <1>5, <1>6 DEF Then
<1> HIDE DEF F4
<1>10. \A x \in I : F3(x) \subseteq O(I)
  BY <1>1, <1>4, <1>9 DEF Then
<1> HIDE DEF F3
<1>11. \A x \in I : F2(x) \subseteq O(I)
  BY Zenon, <1>1, <1>2, <1>3, <1>10 DEF Then
<1> HIDE DEF F2
<1> QED
  BY SMTT(30), <1>1, <1>2, <1>8, <1>11 DEF Then

\* refreshVPN's stop, remesh and start.
LEMMA recreateKeeps ==
    ASSUME NEW s \in I, NEW b, links \subseteq Links
    PROVE  recreate(s, b) \subseteq O(I)
<1>1. \A o \in O(I) : o.s \in I
  BY DEF O
<1>2. \A x \in I : /\ stop(x) \subseteq O(I) /\ Nil(x) \subseteq O(I)
                   /\ remesh(x) \subseteq O(I)
  BY SMTT(30), GoodI, stopKeeps, remeshKeeps, NilKeeps
<1>3. \A x \in I : start(x, x.lastServer, x.allowlist, x.lastNameservers) \subseteq O(I)
  BY GoodI, FieldTypes, startKeeps, Zenon
<1> QED
  BY <1>1, <1>2, <1>3 DEF recreate, Then

\* refreshVPN without the user's kill switch: it sets one for the time of the
\* reconnection and takes it down when that succeeded.
LEMMA underKillSwitchKeeps ==
    ASSUME NEW s \in I, NEW b, links \subseteq Links
    PROVE  underKillSwitch(s, b) \subseteq O(I)
<1> DEFINE Off(o) == [o EXCEPT !.s.isKillSwitchSet = FALSE]
           Last(o) == CASE o.err = "nil" -> unsetKillSwitch(o.s)
                        [] o.err = "panic" -> {o}
                        [] OTHER -> {Off(o)}
           Rest(x) == UNION {Last(o) : o \in recreate(x, b)}
<1>1. \A o \in O(I) : o.s \in I
  BY DEF O
<1>2. setKillSwitch(s, s.allowlist) \subseteq O(I)
  BY GoodI, FieldTypes, setKillSwitchKeeps, Zenon
<1>3. ASSUME NEW o \in O(I)
      PROVE  Off(o) \in O(I)
  <2>1. [o.s EXCEPT !.isKillSwitchSet = FALSE] \in I
    BY <1>1, OffKeeps
  <2> QED
    BY Zenon, <2>1 DEF O
<1>4. underKillSwitch(s, b) = Then(setKillSwitch(s, s.allowlist), LAMBDA x : Rest(x))
  BY Zenon DEF underKillSwitch
<1> HIDE DEF Off
<1>5. ASSUME NEW o \in O(I)
      PROVE  Last(o) \subseteq O(I)
  BY <1>1, <1>3, unsetKillSwitchKeeps
<1> HIDE DEF Last
<1>6. \A x \in I : Rest(x) \subseteq O(I)
  BY <1>5, recreateKeeps
<1> HIDE DEF Rest
<1> QED
  BY SMTT(30), <1>1, <1>2, <1>4, <1>6 DEF Then

\* refreshVPN as a whole.
LEMMA refreshVPNKeeps ==
    ASSUME NEW s \in I, links \subseteq Links
    PROVE  refreshVPN(s) \subseteq O(I)
<1> DEFINE again(x) == reinit(x, s.isVpnSet, s.isMeshnetSet)
<1>1. \A o \in O(I) : o.s \in I
  BY DEF O
<1>2. ASSUME NEW x \in I
      PROVE  again(x) \subseteq O(I)
  <2> DEFINE t == [x EXCEPT !.interfaces = links]
  <2>1. t \in I
    BY FlagI
  <2> HIDE DEF t
  <2>2. /\ remesh(t) \subseteq O(I)
        /\ recreate(t, s.isMeshnetSet) \subseteq O(I)
        /\ underKillSwitch(t, s.isMeshnetSet) \subseteq O(I)
    BY <2>1, GoodI, remeshKeeps, recreateKeeps, underKillSwitchKeeps
  <2> QED
    BY <2>2 DEF reinit, t
<1>3. handleNetworkChanged(s) \subseteq O(I)
  BY GoodI, handleNetworkChangedKeeps
<1> HIDE DEF again
<1>4. OrElse(handleNetworkChanged(s), LAMBDA t : again(t)) \subseteq O(I)
  BY <1>1, <1>2, <1>3 DEF OrElse
<1>5. Nil(s) \subseteq O(I)
  BY NilKeeps
<1> QED
  BY Zenon, <1>2, <1>4, <1>5 DEF refreshVPN, again

-----------------------------------------------------------------------------
(* The public methods.                                                      *)

\* The exported methods that connect, disconnect and reconnect.
LEMMA StartStopKeep ==
    ASSUME NEW s \in I, links \subseteq Links
    PROVE  /\ \A server \in Servers \cup Peers, a \in AllowlistSet, ns \in Nameservers,
                 local \in BOOLEAN : Start(s, server, a, ns, local) \subseteq O(I)
           /\ Stop(s) \subseteq O(I)
           /\ UnsetFirewall(s) \subseteq O(I)
           /\ \A up \in BOOLEAN : Reconnect(s, up) \subseteq O(I)
<1>1. \A o \in O(I) : o.s \in I
  BY DEF O
<1>2. \A x \in I : Nil(x) \subseteq O(I)
  BY NilKeeps
<1>3. ASSUME NEW server \in Servers \cup Peers, NEW a \in AllowlistSet,
             NEW ns \in Nameservers, NEW local \in BOOLEAN
      PROVE  Start(s, server, a, ns, local) \subseteq O(I)
  <2> DEFINE t == [s EXCEPT !.enableLocalTraffic = local]
  <2>1. t \in I
    BY FlagI
  <2> HIDE DEF t
  <2>2. restart(t, server, ns) \subseteq O(I) /\ start(t, server, a, ns) \subseteq O(I)
    BY <2>1, restartKeeps, startKeeps
  <2> QED
    BY <2>2 DEF Start, t
<1>4. Stop(s) \subseteq O(I)
  <2> DEFINE Done(x) == [x EXCEPT !.interfaces = {}]
  <2>1. \A x \in I : Nil(Done(x)) \subseteq O(I)
    BY FlagI, NilKeeps
  <2>2. Stop(s) = IF ~s.isVpnSet THEN Nil(s) ELSE Then(stop(s), LAMBDA t : Nil(Done(t)))
    BY DEF Stop
  <2> HIDE DEF Done
  <2> QED
    BY <1>1, <1>2, <2>1, <2>2, stopKeeps DEF Then
<1>5. UnsetFirewall(s) \subseteq O(I)
  BY <1>2, unsetNetworkI DEF UnsetFirewall
<1>6. ASSUME NEW up \in BOOLEAN
      PROVE  Reconnect(s, up) \subseteq O(I)
  <2>1. \A x \in I : /\ Logged(disableIPv6IfNeeded(x)) \subseteq O(I)
                     /\ Logged(refreshVPN(x)) \subseteq O(I)
    BY GoodI, ServicesKeep, refreshVPNKeeps, LoggedKeeps, Zenon
  <2> QED
    BY SMTT(30), <1>1, <1>2, <2>1 DEF Reconnect, Then
<1> QED
  BY <1>3, <1>4, <1>5, <1>6

\* The exported methods that change a setting.
LEMMA SettingsKeep ==
    ASSUME NEW s \in I, links \subseteq Links
    PROVE  /\ \A v \in Technologies : SetVPN(s, v) \in I
           /\ \A ns \in Nameservers : SetDNS(s, ns) \subseteq O(I)
           /\ PermitIPv6(s) \subseteq O(I)
           /\ UnSetMesh(s) \subseteq O(I)
           /\ \A a \in AllowlistSet : SetAllowlist(s, a) \subseteq O(I)
           /\ \A enabled \in BOOLEAN : SetLanDiscovery(s, enabled) \subseteq O(I)
<1>1. \A o \in O(I) : o.s \in I
  BY DEF O
<1>2. \A x \in I : Nil(x) \subseteq O(I)
  BY NilKeeps
<1>3. \A v \in Technologies : SetVPN(s, v) \in I
  BY Zenon, GoodI, FieldsKeep DEF SetVPN
<1>4. ASSUME NEW ns \in Nameservers
      PROVE  SetDNS(s, ns) \subseteq O(I)
  <2>1. [s EXCEPT !.lastNameservers = ns] \in I
    BY Zenon, GoodI, FieldsKeep
  <2> QED
    BY <1>2, <2>1, GoodI, DnsKeeps DEF SetDNS
<1>5. PermitIPv6(s) \subseteq O(I)
  <2>1. [s EXCEPT !.ipv6Enabled = TRUE] \in I
    BY Zenon, GoodI, FieldsKeep
  <2> QED
    BY <2>1, GoodI, ServicesKeep DEF PermitIPv6
<1>6. UnSetMesh(s) \subseteq O(I)
  <2>1. [s EXCEPT !.enableLocalTraffic = TRUE] \in I
    BY FlagI, Zenon
  <2> QED
    BY <2>1, GoodI, unSetMeshKeeps DEF UnSetMesh
<1>7. ASSUME NEW a \in AllowlistSet
      PROVE  SetAllowlist(s, a) \subseteq O(I)
  <2>1. \A x \in I : /\ unsetAllowlist(x) \subseteq O(I)
                     /\ setAllowlist(x, a) \subseteq O(I)
                     /\ exitSetAllowlist(x) \subseteq O(I)
    BY GoodI, unsetAllowlistKeeps, setAllowlistKeeps, ExitKeeps
  <2> QED
    BY <1>1, <1>2, <2>1 DEF SetAllowlist, Then
<1>8. ASSUME NEW enabled \in BOOLEAN
      PROVE  SetLanDiscovery(s, enabled) \subseteq O(I)
  <2> DEFINE t == [s EXCEPT !.lanDiscovery = enabled]
  <2>1. t \in I
    BY Zenon, GoodI, FieldsKeep
  <2> HIDE DEF t
  <2>2. t.enableLocalTraffic \in BOOLEAN /\ t.allowlist.subnets \in SUBSET Subnets
    BY SMTT(30), <2>1, GoodI, FieldTypes DEF AllowlistSet
  <2>3. Logged(SetupRoutingRules(t, t.enableLocalTraffic, enabled, t.allowlist.subnets))
           \subseteq O(I)
    BY <2>1, <2>2, GoodI, ServicesKeep, LoggedKeeps, Zenon
  <2>4. ASSUME NEW x \in I
        PROVE  Logged(exitResetFirewall(x, lanAvailable(x), x.isKillSwitchSet)) \subseteq O(I)
    <3>1. lanAvailable(x) \in BOOLEAN /\ x.isKillSwitchSet \in BOOLEAN
      BY GoodI, FieldTypes, Zenon DEF lanAvailable
    <3> QED
      BY SMTT(30), <3>1, GoodI, ExitKeeps, LoggedKeeps
  <2> QED
    BY <1>1, <1>2, <2>1, <2>3, <2>4 DEF SetLanDiscovery, Then, t
<1> QED
  BY <1>3, <1>4, <1>5, <1>6, <1>7, <1>8

-----------------------------------------------------------------------------
(* The theorems.                                                            *)

\* NewCombined, on a system without rules of ours, satisfies the invariant.
LEMMA InitInv == Init => Inv
<1> SUFFICES ASSUME Init PROVE Inv
  OBVIOUS
<1>1. PICK lanDiscovery \in BOOLEAN, a \in Allowlists :
         /\ netw = NewCombined(lanDiscovery)
         /\ config = [tech |-> "NORDLYNX", allowlist |-> a, lan |-> lanDiscovery]
  BY Zenon DEF Init
<1>2. netw \in CombinedSet
  <2>1. <<>> \in Tracked /\ <<>> \in Seq([name : RuleNameSet, body : BodySet])
    BY SMTT(30) DEF Tracked
  <2>2. EmptyAllowlist \in AllowlistSet /\ NoPolicy \in PolicySet /\ ExitOff \in ExitSet
    BY Zenon DEF EmptyAllowlist, AllowlistSet, NoPolicy, PolicySet, ExitOff, ExitSet
  <2> QED
    BY Zenon, <1>1, <2>1, <2>2
       DEF NewCombined, CombinedSet, Technologies, TelioSet, OvpnSet
<1>3. TypeOK
  <2>1. a \in AllowlistSet
    BY AllowlistsAssumption DEF AllowlistSet
  <2>2. config \in ConfigSet
    BY <1>1, <2>1 DEF Technologies, ConfigSet
  <2> QED
    BY <1>2, <2>2, Zenon DEF Init, TypeOK, NoReset, ExitSet
<1>4. netw.fw = <<>> /\ netw.rules = <<>> /\ netw.isNetworkSet = FALSE
      /\ netw.isKillSwitchSet = FALSE
  BY Zenon, <1>1 DEF NewCombined
<1>5. IsStore(<<>>, RuleSet) /\ Names(<<>>) = {} /\ RuleNames(<<>>) = {}
  BY DEF IsStore, UniqueNames, Names, RuleNames
<1>6. netw \in I
  BY <1>2, <1>4, <1>5 DEF I, J, FlagsHold
<1> QED
  BY <1>3, <1>6 DEF Inv

\* What is left of the invariant after a step that returns one of out.
LEMMA ReturnInv ==
    ASSUME NEW out, out \subseteq O(I), Return(out)
    PROVE  netw' \in I /\ netw' \in CombinedSet /\ crashed' \in BOOLEAN
<1>1. PICK o \in out : netw' = o.s /\ crashed' = (o.err = "panic")
  BY DEF Return
<1>2. o.s \in I
  BY DEF O
<1> QED
  BY <1>1, <1>2 DEF I, J

\* Every handler of the daemon, and every change of the interfaces, keeps it.
LEMMA NextInv == Inv /\ [Next]_vars => Inv'
<1> SUFFICES ASSUME Inv, [Next]_vars PROVE Inv'
  OBVIOUS
<1>1. /\ netw \in I /\ netw \in CombinedSet
      /\ links \subseteq Links /\ cached \subseteq Links
      /\ disc \in {"idle", "unset", "stop"} /\ reset \in ExitSet
      /\ config.allowlist \in AllowlistSet /\ config.tech \in Technologies
      /\ config.lan \in BOOLEAN /\ config \in ConfigSet
      /\ crashed \in BOOLEAN
  BY DEF Inv, TypeOK, ConfigSet
<1>2. ASSUME NEW out, out \subseteq O(I), Return(out), UNCHANGED env
      PROVE  Inv'
  BY <1>1, <1>2, ReturnInv DEF env, Inv, TypeOK
<1>3. CASE ConnectServer
  <2>1. PICK server \in Servers, ns \in Nameservers :
           Return(Start(netw, server, config.allowlist, ns, TRUE)) /\ UNCHANGED env
    BY Zenon, <1>3 DEF ConnectServer
  <2>2. Start(netw, server, config.allowlist, ns, TRUE) \subseteq O(I)
    BY Zenon, <1>1, StartStopKeep
  <2> QED
    BY Zenon, <2>1, <2>2, <1>2
<1>4. CASE ConnectPeer
  <2>1. PICK peer \in Peers, ns \in Nameservers, local \in BOOLEAN :
           Return(Start(netw, peer, config.allowlist, ns, local)) /\ UNCHANGED env
    BY <1>4 DEF ConnectPeer
  <2>2. Start(netw, peer, config.allowlist, ns, local) \subseteq O(I)
    BY <1>1, StartStopKeep
  <2> QED
    BY <2>1, <2>2, <1>2
<1>5. CASE StopVPN
  BY <1>1, <1>2, <1>5, StartStopKeep DEF StopVPN
<1>6. CASE DisconnectCheck
  BY SMTT(30), <1>1, <1>6 DEF DisconnectCheck, Inv, TypeOK
<1>7. CASE DisconnectUnset
  <2>1. UnsetFirewall(netw) \subseteq O(I)
    BY <1>1, StartStopKeep
  <2>2. netw' \in I /\ netw' \in CombinedSet /\ crashed' \in BOOLEAN
    BY <1>7, <2>1, ReturnInv DEF DisconnectUnset
  <2> QED
    BY <1>1, <1>7, <2>2 DEF DisconnectUnset, Inv, TypeOK
<1>8. CASE DisconnectStop
  <2>1. Stop(netw) \subseteq O(I)
    BY <1>1, StartStopKeep
  <2>2. netw' \in I /\ netw' \in CombinedSet /\ crashed' \in BOOLEAN
    BY <1>8, <2>1, ReturnInv DEF DisconnectStop
  <2> QED
    BY <1>1, <1>8, <2>2 DEF DisconnectStop, Inv, TypeOK
<1>9. CASE SetKillSwitch
  BY <1>1, <1>2, <1>9, setKillSwitchKeeps DEF SetKillSwitch
<1>10. CASE UnsetKillSwitch
  BY <1>1, <1>2, <1>10, unsetKillSwitchKeeps DEF UnsetKillSwitch
<1>11. CASE SetMesh
  BY <1>1, <1>2, <1>11, GoodI, setMeshKeeps DEF SetMesh
<1>12. CASE RefreshMesh
  BY SMTT(30), <1>1, <1>2, <1>12, GoodI, refreshKeeps DEF RefreshMesh
<1>13. CASE UnsetMesh
  BY <1>1, <1>2, <1>13, SettingsKeep DEF UnsetMesh
<1>14. ASSUME NEW out, out \subseteq O(I), NEW saved \in ConfigSet,
              ReturnAndSave(out, saved)
       PROVE  Inv'
  <2>1. PICK o \in out :
           /\ netw' = o.s /\ crashed' = (o.err = "panic")
           /\ config' = IF o.err = "nil" THEN saved ELSE config
    BY <1>14 DEF ReturnAndSave
  <2>2. netw' \in I /\ netw' \in CombinedSet /\ crashed' \in BOOLEAN
    BY <1>14, <2>1 DEF O, I, J
  <2>3. config' \in ConfigSet
    BY <1>1, <2>1
  <2> QED
    BY <1>1, <1>14, <2>2, <2>3 DEF ReturnAndSave, Inv, TypeOK
<1>15. CASE ChangeAllowlist
  <2>1. PICK a \in Allowlists :
           ReturnAndSave(SetAllowlist(netw, a), [config EXCEPT !.allowlist = a])
    BY <1>15 DEF ChangeAllowlist
  <2>2. a \in AllowlistSet
    BY SMTT(30), AllowlistsAssumption DEF AllowlistSet
  <2>3. SetAllowlist(netw, a) \subseteq O(I)
    BY <1>1, <2>2, SettingsKeep
  <2>4. [config EXCEPT !.allowlist = a] \in ConfigSet
    BY <1>1, <2>2 DEF ConfigSet
  <2> QED
    BY SMTT(30), <1>14, <2>1, <2>3, <2>4
<1>16. CASE ChangeLanDiscovery
  <2> DEFINE enabled == ~config.lan
             a == IF enabled THEN [config.allowlist EXCEPT !.subnets = @ \ LAN]
                  ELSE config.allowlist
             out == Then(SetLanDiscovery(netw, enabled), LAMBDA t : SetAllowlist(t, a))
             saved == [config EXCEPT !.allowlist = a, !.lan = enabled]
  <2>1. ReturnAndSave(out, saved)
    BY <1>16 DEF ChangeLanDiscovery
  <2>2. a \in AllowlistSet
    BY <1>1 DEF AllowlistSet
  <2> HIDE DEF a
  <2>3. SetLanDiscovery(netw, enabled) \subseteq O(I)
    BY Zenon, <1>1, SettingsKeep
  <2>4. enabled \in BOOLEAN
    BY <1>1
  <2> HIDE DEF enabled
  <2>5. \A x \in I : SetAllowlist(x, a) \subseteq O(I)
    BY <1>1, <2>2, SettingsKeep
  <2>6. \A o \in O(I) : o.s \in I
    BY DEF O
  <2>7. out \subseteq O(I)
    BY <2>3, <2>5, <2>6 DEF Then
  <2>8. saved \in ConfigSet
    BY <1>1, <2>2, <2>4, Zenon DEF ConfigSet
  <2> HIDE DEF out, saved
  <2> QED
    BY <1>14, <2>1, <2>7, <2>8
<1>17. CASE ChangeDNS
  BY SMTT(30), <1>1, <1>2, <1>17, SettingsKeep DEF ChangeDNS
<1>18. CASE Permit
  BY SMTT(30), <1>1, <1>2, <1>18, SettingsKeep DEF Permit
<1>19. CASE Deny
  BY <1>1, <1>2, <1>19, GoodI, ServicesKeep, Zenon DEF Deny
<1>20. CASE ChangeTechnology
  <2>1. PICK v \in Technologies :
           Return(Nil(SetVPN(netw, v))) /\ config' = [config EXCEPT !.tech = v]
    BY SMTT(30), <1>20 DEF ChangeTechnology
  <2>2. Nil(SetVPN(netw, v)) \subseteq O(I)
    BY <1>1, SettingsKeep, NilKeeps, Zenon
  <2>3. netw' \in I /\ netw' \in CombinedSet /\ crashed' \in BOOLEAN
    BY <2>1, <2>2, ReturnInv
  <2>4. config' \in ConfigSet
    BY SMTT(30), <1>1, <2>1 DEF ConfigSet
  <2> QED
    BY <1>1, <1>20, <2>3, <2>4 DEF ChangeTechnology, Inv, TypeOK
<1>21. CASE ResetRoutingRead
  <2>0. netw.isKillSwitchSet \in BOOLEAN
    BY Zenon, <1>1, GoodI, FieldTypes
  <2>1. lanAvailable(netw) \in BOOLEAN /\ netw.isKillSwitchSet \in BOOLEAN
    BY ONLY <2>0 DEF lanAvailable
  <2>2. /\ reset' = [on |-> TRUE, lan |-> lanAvailable(netw), ks |-> netw.isKillSwitchSet]
        /\ UNCHANGED <<netw, links, cached, disc, config, crashed>>
    BY Zenon, <1>21 DEF ResetRoutingRead
  <2>3. \A lan, ks \in BOOLEAN : [on |-> TRUE, lan |-> lan, ks |-> ks] \in ExitSet
    BY ONLY TRUE DEF ExitSet
  <2>4. reset' \in ExitSet
    BY Zenon, <2>1, <2>2, <2>3
  <2> QED
    BY <1>1, <2>2, <2>4, Zenon DEF Inv, TypeOK
<1>22. CASE ResetRoutingApply
  <2>1. reset.lan \in BOOLEAN /\ reset.ks \in BOOLEAN
    BY SMTT(30), <1>1 DEF ExitSet
  <2>2. exitResetPeers(netw, reset.lan, reset.ks) \subseteq O(I)
    BY <1>1, <2>1, GoodI, ExitKeeps, Zenon
  <2>3. netw' \in I /\ netw' \in CombinedSet /\ crashed' \in BOOLEAN
    BY SMTT(30), <1>22, <2>2, ReturnInv DEF ResetRoutingApply
  <2>4. reset' \in ExitSet
    BY <1>22, Zenon DEF ResetRoutingApply, NoReset, ExitSet
  <2> QED
    BY <1>1, <1>22, <2>3, <2>4 DEF ResetRoutingApply, Inv, TypeOK
<1>23. CASE LinksChange
  <2>1. links' \subseteq Links
    BY SMTT(30), <1>1, <1>23 DEF LinksChange
  <2> QED
    BY <1>1, <1>23, <2>1 DEF LinksChange, Inv, TypeOK
<1>24. CASE checkForChanges
  <2>1. Reconnect(netw, links # {}) \subseteq O(I)
    BY <1>1, StartStopKeep, Zenon
  <2>2. netw' \in I /\ netw' \in CombinedSet /\ crashed' \in BOOLEAN
    BY <1>24, <2>1, ReturnInv DEF checkForChanges
  <2> QED
    BY <1>1, <1>24, <2>2 DEF checkForChanges, Inv, TypeOK
<1>25. CASE UNCHANGED vars
  BY <1>1, <1>25, Zenon DEF vars, Inv, TypeOK
<1> QED
  BY <1>3, <1>4, <1>5, <1>6, <1>7, <1>8, <1>9, <1>10, <1>11, <1>12, <1>13, <1>15,
     <1>16, <1>17, <1>18, <1>19, <1>20, <1>21, <1>22, <1>23, <1>24, <1>25, Zenon DEF Next

\* The inductive invariant holds in every reachable state.
LEMMA SpecInv == Spec => []Inv
<1> QED
  BY InitInv, NextInv, PTL DEF Spec

\* In every reachable state the variables have their types: above all, the
\* networker never tracks a rule name twice (netw.rules), whichever services
\* fail and however its methods follow each other.
THEOREM TypeCorrect == Spec => []TypeOK
<1>1. Inv => TypeOK
  BY DEF Inv
<1> QED
  BY <1>1, SpecInv, PTL

\* While the kill switch flag is set the firewall has the rules that block
\* traffic, whichever calls of the VPN and mesh libraries, the routers, DNS,
\* IPv6 and the exit node fail, and whichever handlers interleave.  The one
\* service that must not fail is the routing of allowlisted ports.
THEOREM KillSwitchSafe ==
    ASSUME "ports" \notin Faulty
    PROVE  Spec => []KillSwitchBlocks
<1>1. Inv => KillSwitchBlocks
  BY DEF Inv, I, FlagsHold, KillSwitchBlocks
<1> QED
  BY <1>1, SpecInv, PTL

-----------------------------------------------------------------------------
(* A change of the network keeps the blocking rules.                        *)

\* The states with all blocking rules and the kill switch flag k.
Held(k) == {s \in Blocking : s.isKillSwitchSet = k}

\* They are Good, for either value of the flag.
LEMMA GoodHeld == \A k : Good(Held(k))
BY GoodBlocking DEF Good, Held, Frame

\* An outcome in Held(k) has its state in Held(k), in Blocking and in I.
LEMMA HeldFacts ==
    ASSUME NEW k
    PROVE  /\ \A o \in O(Held(k)) : o.s \in Held(k) /\ o \in O(Blocking) /\ o.err \in Errs
           /\ \A x \in Held(k) : x \in I /\ x \in J /\ x.isKillSwitchSet = k /\ BlocksTraffic(x)
BY DEF O, Held, Blocking, I

\* blockTraffic replaces the drop rules and takes none away.
LEMMA blockTrafficHeld ==
    ASSUME NEW k, NEW s \in Held(k), links \subseteq Links
    PROVE  Tolerate(blockTraffic(s), "exists") \subseteq O(Held(k))
<1> DEFINE b == Body(devices, {}, {})
           u(x, n) == WithStore(x, AddRule(x.fw, Rule(n, b)))
<1>1. ASSUME NEW x \in Held(k), NEW n \in {"drop-fw", "drop"}
      PROVE  u(x, n) \in Held(k)
  <2>1. x \in J /\ x \in CombinedSet /\ IsStore(x.fw, RuleSet)
    BY HeldFacts, Zenon DEF J
  <2>2. /\ u(x, n) \in CombinedSet /\ IsStore(u(x, n).fw, RuleSet)
        /\ RuleNames(u(x, n).fw) = RuleNames(x.fw) \cup {n}
        /\ u(x, n).rules = x.rules /\ u(x, n).isNetworkSet = x.isNetworkSet
        /\ u(x, n).isKillSwitchSet = x.isKillSwitchSet
    BY Zenon, <2>1, AddStore
  <2> HIDE DEF u
  <2>3. {"drop-fw", "drop"} \subseteq RuleNames(x.fw)
    BY HeldFacts DEF BlocksTraffic, BlockRules
  <2>4. u(x, n) \in J /\ Frame(x, u(x, n))
    BY <2>1, <2>2, <2>3, Zenon DEF J, Frame
  <2> QED
    BY <2>4, GoodHeld DEF Good
<1>2. \A x, n : fwAdd(x, n, b) = IF IsEqualRule(x.fw, Rule(n, b))
                                 THEN Out(x, "exists") ELSE Nil(u(x, n))
  BY DEF fwAdd, WithStore
<1> HIDE DEF u, b
<1>3. ASSUME NEW x \in Held(k), NEW n \in {"drop-fw", "drop"}
      PROVE  fwAdd(x, n, b) \subseteq O(Held(k))
  <2>1. Out(x, "exists") \subseteq O(Held(k)) /\ Nil(u(x, n)) \subseteq O(Held(k))
    BY <1>1, OutKeeps, NilKeeps DEF Errs
  <2> QED
    BY <1>2, <2>1
<1>4. blockTraffic(s) = Then(fwAdd(s, "drop-fw", b), LAMBDA t : fwAdd(t, "drop", b))
  BY DEF blockTraffic, b
<1>5. blockTraffic(s) \subseteq O(Held(k))
  BY <1>3, <1>4, HeldFacts DEF Then
<1> QED
  BY <1>5, TolerateKeeps

\* setNetwork where the rules are there already: whichever step of it fails,
\* they stay, and so does the kill switch flag.
LEMMA setNetworkHeld ==
    ASSUME NEW k, NEW s \in Held(k), NEW allowlist \in AllowlistSet, links \subseteq Links
    PROVE  setNetwork(s, allowlist) \subseteq O(Held(k))
<1> DEFINE Done(x) == [x EXCEPT !.isNetworkSet = TRUE]
           api == Body(devices, {}, {})
<1>1. \A o \in O(Held(k)) : o.s \in Held(k)
  BY HeldFacts
<1>2. Tolerate(blockTraffic(s), "exists") \subseteq O(Held(k))
  BY blockTrafficHeld
<1>3. \A x \in Held(k) : fwAdd(x, "api_allowlist", api) \subseteq O(Held(k))
  <2>1. api \in BodySet
    BY DEF Body, BodySet, devices
  <2>2. "api_allowlist" \in RuleNameSet \ {"drop-fw"} /\ "api_allowlist" # MeshRule
    BY DEF RuleNameSet, MeshRule
  <2> HIDE DEF api
  <2> QED
    BY <2>1, <2>2, GoodHeld, fwAddKeeps, Zenon
<1>4. \A x \in Held(k) : setAllowlist(x, allowlist) \subseteq O(Held(k))
  BY GoodHeld, setAllowlistKeeps
<1>5. \A x \in Held(k) :
         Logged(exitResetFirewall(x, x.lanDiscovery, TRUE)) \subseteq O(Held(k))
  <2>1. \A x \in Held(k) : x.lanDiscovery \in BOOLEAN
    BY GoodHeld, FieldTypes, Zenon
  <2>2. \A x \in Held(k) :
           exitResetFirewall(x, x.lanDiscovery, TRUE) \subseteq O(Held(k))
    BY <2>1, GoodHeld, ExitKeeps, Zenon
  <2> QED
    BY Zenon, <2>2, LoggedKeeps
<1>6. ASSUME NEW x \in Held(k)
      PROVE  Done(x) \in Held(k)
  <2>1. x \in J /\ BlocksTraffic(x) /\ x.isKillSwitchSet = k
    BY HeldFacts
  <2>2. /\ Done(x) \in J /\ Done(x).isNetworkSet = TRUE /\ Done(x).fw = x.fw
        /\ Done(x).isKillSwitchSet = x.isKillSwitchSet
    BY Zenon, <2>1, FlagUpdates
  <2> HIDE DEF Done
  <2> QED
    BY <2>1, <2>2, Zenon DEF Held, Blocking, I, FlagsHold, BlocksTraffic
<1>7. \A x \in Held(k) : Nil(Done(x)) \subseteq O(Held(k))
  <2> HIDE DEF Done
  <2> QED
    BY <1>6, NilKeeps
<1>8. setNetwork(s, allowlist) =
         Then(Tolerate(blockTraffic(s), "exists"),
         LAMBDA s1 : Then(fwAdd(s1, "api_allowlist", api),
         LAMBDA s2 : Then(setAllowlist(s2, allowlist),
         LAMBDA s3 : Then(Logged(exitResetFirewall(s3, s3.lanDiscovery, TRUE)),
         LAMBDA s4 : Nil(Done(s4))))))
  BY Zenon DEF setNetwork
<1> HIDE DEF Done, api
<1> DEFINE F4(x) == Then(Logged(exitResetFirewall(x, x.lanDiscovery, TRUE)),
                         LAMBDA y : Nil(Done(y)))
           F3(x) == Then(setAllowlist(x, allowlist), LAMBDA y : F4(y))
           F2(x) == Then(fwAdd(x, "api_allowlist", api), LAMBDA y : F3(y))
<1>9. setNetwork(s, allowlist) =
         Then(Tolerate(blockTraffic(s), "exists"), LAMBDA x : F2(x))
  BY <1>8
<1>10. \A x \in Held(k) : F4(x) \subseteq O(Held(k))
  BY Zenon, <1>1, <1>5, <1>7 DEF Then
<1> HIDE DEF F4
<1>11. \A x \in Held(k) : F3(x) \subseteq O(Held(k))
  BY <1>1, <1>4, <1>10, Zenon DEF Then
<1> HIDE DEF F3
<1>12. \A x \in Held(k) : F2(x) \subseteq O(Held(k))
  BY <1>1, <1>3, <1>11, Zenon DEF Then
<1> HIDE DEF F2
<1> QED
  BY <1>1, <1>2, <1>9, <1>12, Zenon DEF Then

\* failureRecover under a kill switch unsets no network.
LEMMA failureRecoverHeld ==
    ASSUME NEW s \in Held(TRUE)
    PROVE  failureRecover(s) \subseteq O(Held(TRUE))
<1> DEFINE G == Held(TRUE)
           Done(x) == [x EXCEPT !.isVpnSet = FALSE]
<1>0. Good(G) /\ s \in G
  BY GoodHeld, Zenon
<1>1. \A o \in O(G) : o.s \in G
  BY HeldFacts, Zenon
<1>2. \A x \in G : x.isKillSwitchSet
  BY HeldFacts, Zenon
<1> HIDE DEF G
<1>3. \A x \in G : Logged(CleanupRouting(x)) \subseteq O(G) /\ Nil(x) \subseteq O(G)
  BY <1>0, ServicesKeep, LoggedKeeps, NilKeeps, Zenon
<1>4. \A x \in G : Logged(vpnStop(routerFlush(x))) \subseteq O(G)
  BY <1>0, ServicesKeep, VpnKeeps, LoggedKeeps, Zenon
<1>5. \A x \in G : Nil(Done(x)) \subseteq O(G)
  BY <1>0, FieldsKeep, NilKeeps, Zenon
<1>6. failureRecover(s) =
         Then(IF s.isMeshnetSet THEN Nil(s) ELSE Logged(CleanupRouting(s)),
         LAMBDA s1 : Then(Logged(vpnStop(routerFlush(s1))),
         LAMBDA s2 : Then(IF s2.isNetworkSet /\ ~s2.isKillSwitchSet
                          THEN Logged(unsetNetwork(s2)) ELSE Nil(s2),
         LAMBDA s3 : Nil(Done(s3)))))
  BY Zenon DEF failureRecover
<1> HIDE DEF Done
<1>7. failureRecover(s) \subseteq O(G)
  <2> DEFINE F3(x) == Then(IF x.isNetworkSet /\ ~x.isKillSwitchSet
                           THEN Logged(unsetNetwork(x)) ELSE Nil(x),
                           LAMBDA y : Nil(Done(y)))
             F2(x) == Then(Logged(vpnStop(routerFlush(x))), LAMBDA y : F3(y))
  <2>1. failureRecover(s) =
           Then(IF s.isMeshnetSet THEN Nil(s) ELSE Logged(CleanupRouting(s)), LAMBDA x : F2(x))
    BY Zenon, <1>6
  <2>2. \A x \in G : F3(x) \subseteq O(G)
    BY Zenon, <1>1, <1>2, <1>3, <1>5 DEF Then
  <2> HIDE DEF F3
  <2>3. \A x \in G : F2(x) \subseteq O(G)
    BY Zenon, <1>1, <1>4, <2>2 DEF Then
  <2> HIDE DEF F2
  <2> QED
    BY Zenon, <1>0, <1>1, <1>3, <2>1, <2>3 DEF Then
<1> QED
  BY <1>7, Zenon DEF G

\* configureNetwork where the rules are there already.
LEMMA configureNetworkHeld ==
    ASSUME NEW k, NEW s \in Held(k), NEW allowlist \in AllowlistSet, links \subseteq Links,
           NEW ns \in Nameservers \cup {None}, NEW server
    PROVE  configureNetwork(s, allowlist, server, ns) \subseteq O(Held(k))
<1> DEFINE G == Held(k)
<1>0. Good(G) /\ s \in G
  BY GoodHeld
<1>1. \A o \in O(G) : o.s \in G
  BY HeldFacts
<1>2. configureFirewall(s, allowlist) \subseteq O(G)
  <2> DEFINE Pick(o) == IF o.err = "exists" \/ (o.err # "panic" /\ o.s.isNetworkSet)
                        THEN [o EXCEPT !.err = "nil"] ELSE o
             out == {Pick(o) : o \in setNetwork(s, allowlist)}
  <2>1. \A o \in O(G) : Pick(o) \in O(G)
    BY DEF O, Errs
  <2>2. configureFirewall(s, allowlist) = Then(out, LAMBDA t : resetAllowlist(t))
    BY DEF configureFirewall
  <2> HIDE DEF Pick
  <2>3. out \subseteq O(G)
    BY <2>1, setNetworkHeld
  <2> HIDE DEF G
  <2>4. \A x \in G : resetAllowlist(x) \subseteq O(G)
    BY SMTT(30), <1>0, resetAllowlistKeeps
  <2> HIDE DEF out
  <2> QED
    BY <1>1, <2>2, <2>3, <2>4 DEF Then
<1> HIDE DEF G
<1>3. \A x \in G : /\ addDefaultRoute(x) \subseteq O(G)
                   /\ configureDNS(x, server, ns) \subseteq O(G)
                   /\ refresh(x) \subseteq O(G) /\ Nil(x) \subseteq O(G)
                   /\ disableIPv6IfNeeded(x) \subseteq O(G)
  BY <1>0, ServicesKeep, DnsKeeps, refreshKeeps, NilKeeps, Zenon
<1> DEFINE F4(x) == Then(IF x.isMeshnetSet THEN refresh(x) ELSE Nil(x),
                         LAMBDA y : disableIPv6IfNeeded(y))
           F3(x) == Then(configureDNS(x, server, ns), LAMBDA y : F4(y))
           F2(x) == Then(addDefaultRoute(x), LAMBDA y : F3(y))
<1>4. configureNetwork(s, allowlist, server, ns) =
         Then(configureFirewall(s, allowlist), LAMBDA x : F2(x))
  BY Zenon DEF configureNetwork
<1>5. \A x \in G : F4(x) \subseteq O(G)
  BY Zenon, <1>1, <1>3 DEF Then
<1> HIDE DEF F4
<1>6. \A x \in G : F3(x) \subseteq O(G)
  BY Zenon, <1>1, <1>3, <1>5 DEF Then
<1> HIDE DEF F3
<1>7. \A x \in G : F2(x) \subseteq O(G)
  BY Zenon, <1>1, <1>3, <1>6 DEF Then
<1> HIDE DEF F2
<1>8. configureNetwork(s, allowlist, server, ns) \subseteq O(G)
  BY Zenon, <1>1, <1>2, <1>4, <1>7 DEF Then
<1> QED
  BY <1>8 DEF G

\* start under a kill switch: the rules stay whether it succeeds or not, and
\* only a start that ran to its end returns nil.
LEMMA startHeld ==
    ASSUME NEW s \in Held(TRUE), NEW server \in Servers \cup Peers \cup {None},
           NEW allowlist \in AllowlistSet, NEW ns \in Nameservers \cup {None},
           links \subseteq Links
    PROVE  /\ start(s, server, allowlist, ns) \subseteq O(Held(TRUE))
           /\ \A o \in start(s, server, allowlist, ns) : o.err = "nil" => o.s.isVpnSet
<1> DEFINE G == Held(TRUE)
           Ok == {o \in O(G) : o.err = "nil" => o.s.isVpnSet}
           Done(x) == [x EXCEPT !.isVpnSet = TRUE, !.lastServer = server,
                                !.lastNameservers = ns, !.interfaces = links]
           F3(x) == Then(configureNetwork(x, allowlist, server, ns), LAMBDA y : Nil(Done(y)))
           F2(x) == Then(SetupRoutingRules(x, x.enableLocalTraffic, x.lanDiscovery,
                                           allowlist.subnets), LAMBDA y : F3(y))
           out == Then(vpnStartOrStop(s), LAMBDA y : F2(y))
<1>0. Good(G) /\ s \in G
  BY GoodHeld, Zenon
<1>1. \A o \in O(G) : o.s \in G /\ o.err \in Errs
  BY HeldFacts, Zenon
<1>2. \A x \in G : failureRecover(x) \subseteq O(G)
  BY failureRecoverHeld, Zenon
<1>3. \A x \in G : configureNetwork(x, allowlist, server, ns) \subseteq O(G)
  BY configureNetworkHeld, Zenon
<1>4. start(s, server, allowlist, ns) =
         IF s.isVpnSet THEN Fail(s) ELSE OnError(out, LAMBDA t : failureRecover(t))
  BY Zenon DEF start
<1> HIDE DEF G
<1>5. vpnStartOrStop(s) \subseteq O(G)
  BY <1>0, vpnStartOrStopKeeps
<1>6. \A x \in G : SetupRoutingRules(x, x.enableLocalTraffic, x.lanDiscovery,
                                     allowlist.subnets) \subseteq O(G)
  <2>1. \A x \in G : x.enableLocalTraffic \in BOOLEAN /\ x.lanDiscovery \in BOOLEAN
    BY <1>0, FieldTypes, Zenon
  <2>2. allowlist.subnets \in SUBSET Subnets
    BY DEF AllowlistSet
  <2> QED
    BY <1>0, <2>1, <2>2, ServicesKeep, Zenon
<1>7. ASSUME NEW x \in G
      PROVE  Done(x) \in G /\ Done(x).isVpnSet
  <2> DEFINE x1 == [x EXCEPT !.isVpnSet = TRUE]
             x2 == [x1 EXCEPT !.lastServer = server]
             x3 == [x2 EXCEPT !.lastNameservers = ns]
             x4 == [x3 EXCEPT !.interfaces = links]
  <2>0. x \in CombinedSet
    BY <1>0, InCombined
  <2>1. x1 \in G
    BY Zenon, <1>0, FieldsKeep
  <2>2. Done(x) = x4 /\ Done(x).isVpnSet
    BY <2>0 DEF CombinedSet
  <2> HIDE DEF x1
  <2>3. x2 \in G
    BY ZenonT(60), <1>0, <2>1, FieldsKeep
  <2> HIDE DEF x2
  <2>4. x3 \in G
    BY ZenonT(60), <1>0, <2>3, FieldsKeep
  <2> HIDE DEF x3
  <2>5. x4 \in G
    BY Zenon, <1>0, <2>4, FieldsKeep
  <2> QED
    BY <2>2, <2>5
<1> HIDE DEF Done
<1>8. \A x \in G : Nil(Done(x)) \subseteq Ok
  BY <1>7 DEF Nil, Out, O, Errs
<1>9. /\ \A o \in O(G) : o.err # "nil" => {o} \subseteq Ok
      /\ \A o \in Ok : o \in O(G) /\ o.s \in G /\ o.err \in Errs
  BY <1>1
<1>10. Fail(s) \subseteq Ok
  BY <1>0 DEF Fail, Out, O, Errs
<1>11. ASSUME NEW x \in G, NEW e \in Errs, e # "nil"
       PROVE  WithErr(failureRecover(x), e) \subseteq Ok
  <2>1. WithErr(failureRecover(x), e) \subseteq O(G)
    BY <1>2, WithErrKeeps
  <2>2. \A o \in O(G) : [o EXCEPT !.err = e].err = e
    BY DEF O
  <2>3. \A o \in WithErr(failureRecover(x), e) : o.err = e
    BY <1>2, <2>2, Zenon DEF WithErr
  <2> QED
    BY <1>11, <2>1, <2>3
<1> HIDE DEF Ok
<1>12. \A x \in G : F3(x) \subseteq Ok
  BY Zenon, <1>1, <1>3, <1>8, <1>9 DEF Then
<1> HIDE DEF F3
<1>13. \A x \in G : F2(x) \subseteq Ok
  BY Zenon, <1>1, <1>6, <1>9, <1>12 DEF Then
<1> HIDE DEF F2
<1>14. out \subseteq Ok
  BY Zenon, <1>1, <1>5, <1>9, <1>13 DEF Then
<1> HIDE DEF out
<1>15. OnError(out, LAMBDA t : failureRecover(t)) \subseteq Ok
  BY <1>9, <1>11, <1>14 DEF OnError
<1>16. start(s, server, allowlist, ns) \subseteq Ok
  BY <1>4, <1>10, <1>15, Zenon
<1> QED
  BY <1>16, Zenon DEF Ok, G

\* stop under a kill switch unsets no network.
LEMMA stopHeld ==
    ASSUME NEW s \in Held(TRUE)
    PROVE  stop(s) \subseteq O(Held(TRUE))
<1> DEFINE G == Held(TRUE)
           Done(x) == [switchToNextVpn(x) EXCEPT !.isVpnSet = FALSE]
           F4(x) == Then(IF x.isKillSwitchSet THEN Nil(x) ELSE unsetNetwork(x),
                         LAMBDA y : Nil(Done(y)))
           F3(x) == Then(vpnStop(routerFlush(x)), LAMBDA y : F4(y))
           F2(x) == Then(IF x.isMeshnetSet
                         THEN SetupRoutingRules(x, TRUE, x.lanDiscovery, x.allowlist.subnets)
                         ELSE Logged(CleanupRouting(x)), LAMBDA y : F3(y))
           F1(x) == Then(unsetDNS(x), LAMBDA y : F2(y))
<1>0. Good(G) /\ s \in G
  BY GoodHeld, Zenon
<1>1. \A o \in O(G) : o.s \in G
  BY HeldFacts, Zenon
<1>2. \A x \in G : x.isKillSwitchSet
  BY HeldFacts, Zenon
<1>3. stop(s) = Then(Logged(ipv6Unblock(s)), LAMBDA y : F1(y))
  BY Zenon DEF stop
<1> HIDE DEF G
<1>4. \A x \in G : /\ Logged(ipv6Unblock(x)) \subseteq O(G)
                   /\ unsetDNS(x) \subseteq O(G)
                   /\ Logged(CleanupRouting(x)) \subseteq O(G)
                   /\ Nil(x) \subseteq O(G)
  BY <1>0, ServicesKeep, LoggedKeeps, NilKeeps, Zenon
<1>5. \A x \in G : SetupRoutingRules(x, TRUE, x.lanDiscovery, x.allowlist.subnets)
                      \subseteq O(G)
  <2>1. \A x \in G : x.lanDiscovery \in BOOLEAN
    BY <1>0, FieldTypes, Zenon
  <2>2. \A x \in G : x.allowlist.subnets \in SUBSET Subnets
    BY <1>0, FieldTypes, Zenon DEF AllowlistSet
  <2> QED
    BY <1>0, <2>1, <2>2, ServicesKeep, Zenon
<1>6. \A x \in G : vpnStop(routerFlush(x)) \subseteq O(G)
  BY <1>0, ServicesKeep, VpnKeeps, Zenon
<1>7. \A x \in G : Nil(Done(x)) \subseteq O(G)
  BY Zenon, <1>0, switchToNextVpnKeeps, FieldsKeep, NilKeeps
<1> HIDE DEF Done
<1>8. \A x \in G : F4(x) \subseteq O(G)
  BY <1>1, <1>2, <1>4, <1>7, Zenon DEF Then
<1> HIDE DEF F4
<1>9. \A x \in G : F3(x) \subseteq O(G)
  BY <1>1, <1>6, <1>8 DEF Then
<1> HIDE DEF F3
<1>10. \A x \in G : F2(x) \subseteq O(G)
  BY Zenon, <1>1, <1>4, <1>5, <1>9 DEF Then
<1> HIDE DEF F2
<1>11. \A x \in G : F1(x) \subseteq O(G)
  BY Zenon, <1>1, <1>4, <1>10 DEF Then
<1> HIDE DEF F1
<1>12. stop(s) \subseteq O(G)
  BY <1>0, <1>1, <1>3, <1>4, <1>11 DEF Then
<1> QED
  BY <1>12, Zenon DEF G

\* recreate under a kill switch: stop, meshnet, start.
LEMMA recreateHeld ==
    ASSUME NEW s \in Held(TRUE), NEW b, links \subseteq Links
    PROVE  /\ recreate(s, b) \subseteq O(Held(TRUE))
           /\ \A o \in recreate(s, b) : o.err = "nil" => o.s.isVpnSet
<1> DEFINE G == Held(TRUE)
           Ok == {o \in O(G) : o.err = "nil" => o.s.isVpnSet}
           F3(x) == start(x, x.lastServer, x.allowlist, x.lastNameservers)
           F2(x) == Then(IF b THEN remesh(x) ELSE Nil(x), LAMBDA y : F3(y))
<1>0. Good(G) /\ s \in G
  BY GoodHeld, Zenon
<1>1. \A o \in O(G) : o.s \in G /\ (o.err # "nil" => {o} \subseteq Ok)
  BY HeldFacts, Zenon
<1>2. \A x \in G : stop(x) \subseteq O(G)
  BY stopHeld, Zenon
<1>3. \A x \in G : /\ x.lastServer \in Servers \cup Peers \cup {None}
                   /\ x.allowlist \in AllowlistSet
                   /\ x.lastNameservers \in Nameservers \cup {None}
  <2> HIDE DEF G
  <2> QED
    BY <1>0, FieldTypes, Zenon
<1>4. \A x \in G : F3(x) \subseteq Ok
  BY <1>3, startHeld, Zenon
<1>5. \A x \in G : remesh(x) \subseteq O(G) /\ Nil(x) \subseteq O(G)
  <2> HIDE DEF G
  <2> QED
    BY SMTT(30), <1>0, remeshKeeps, NilKeeps
<1>6. recreate(s, b) = Then(stop(s), LAMBDA y : F2(y))
  BY Zenon DEF recreate
<1> HIDE DEF G, Ok, F3
<1>7. \A x \in G : F2(x) \subseteq Ok
  BY <1>1, <1>4, <1>5 DEF Then
<1> HIDE DEF F2
<1>8. recreate(s, b) \subseteq Ok
  BY <1>0, <1>1, <1>2, <1>6, <1>7 DEF Then
<1> QED
  BY <1>8, Zenon DEF Ok, G

\* The kill switch that refreshVPN sets for the time of the reconnection keeps
\* the rules: a failure leaves them, and a success leaves VPN set, for which
\* unsetKillSwitch keeps them.
LEMMA underKillSwitchHeld ==
    ASSUME NEW s \in Blocking, NEW b, links \subseteq Links
    PROVE  underKillSwitch(s, b) \subseteq O(Blocking)
<1> DEFINE On(x) == [x EXCEPT !.isKillSwitchSet = TRUE]
           Off(x) == [x EXCEPT !.isKillSwitchSet = FALSE]
           Last(o) == CASE o.err = "nil" -> unsetKillSwitch(o.s)
                        [] o.err = "panic" -> {o}
                        [] OTHER -> {[o EXCEPT !.s.isKillSwitchSet = FALSE]}
           Rest(x) == UNION {Last(o) : o \in recreate(x, b)}
           first == IF s.isNetworkSet THEN Nil(s) ELSE setNetwork(s, s.allowlist)
<1>1. s \in I /\ s \in Held(s.isKillSwitchSet) /\ s.allowlist \in AllowlistSet
  BY GoodBlocking, FieldTypes, Zenon DEF Held, Blocking
<1>2. /\ \A o \in O(Blocking) : o.s \in Blocking
      /\ \A o \in O(Held(TRUE)) : o.s \in Blocking /\ o \in O(Blocking) /\ o.err \in Errs
  BY HeldFacts DEF O, Held
<1>3. ASSUME NEW x \in Blocking, x.isNetworkSet
      PROVE  On(x) \in Held(TRUE)
  <2>1. x \in J /\ BlocksTraffic(x)
    BY DEF Blocking, I
  <2>2. /\ On(x) \in J /\ On(x).isNetworkSet = x.isNetworkSet /\ On(x).fw = x.fw
        /\ On(x).isKillSwitchSet = TRUE
    BY Zenon, <2>1, FlagUpdates
  <2> HIDE DEF On
  <2> QED
    BY <1>3, <2>1, <2>2, Zenon DEF Held, Blocking, I, FlagsHold, BlocksTraffic
<1>4. ASSUME NEW x \in Blocking
      PROVE  Off(x) \in Blocking
  <2>1. x \in I /\ x \in J /\ BlocksTraffic(x)
    BY DEF Blocking, I
  <2>2. Off(x) \in I /\ Off(x).fw = x.fw
    BY Zenon, <2>1, FlagUpdates, OffKeeps
  <2> HIDE DEF Off
  <2> QED
    BY <2>1, <2>2 DEF Blocking, BlocksTraffic
<1>5. first \subseteq O(Blocking) /\ \A o \in first : o.err = "nil" => o.s.isNetworkSet
  <2>1. CASE s.isNetworkSet
    BY <2>1, NilKeeps DEF Nil, Out
  <2>2. CASE ~s.isNetworkSet
    <3>1. setNetwork(s, s.allowlist) \subseteq O(Held(s.isKillSwitchSet))
      BY <1>1, setNetworkHeld
    <3>2. setNetwork(s, s.allowlist) \subseteq O(Blocking)
      BY <3>1, HeldFacts
    <3> QED
      BY <1>1, <2>2, <3>2, setNetworkKeeps
  <2> QED
    BY <2>1, <2>2, Zenon
<1>6. ASSUME NEW o \in O(Held(TRUE)), o.err = "nil" => o.s.isVpnSet
      PROVE  Last(o) \subseteq O(Blocking)
  <2>1. CASE o.err = "nil"
    <3>1. unsetKillSwitch(o.s) = Then(Nil(o.s), LAMBDA t : Nil(Off(t)))
      BY <1>6, <2>1 DEF unsetKillSwitch
    <3>2. Off(o.s) \in Blocking
      BY Zenon, <1>2, <1>4
    <3> HIDE DEF Off
    <3>3. unsetKillSwitch(o.s) = Nil(Off(o.s))
      <4> DEFINE r == [s |-> o.s, err |-> "nil"]
      <4>1. Nil(o.s) = {r} /\ r.s = o.s /\ r.err = "nil"
        BY Zenon DEF Nil, Out
      <4> HIDE DEF r
      <4>2. Then({r}, LAMBDA t : Nil(Off(t))) = Nil(Off(r.s))
        BY Zenon, <4>1 DEF Then
      <4> QED
        BY Zenon, <3>1, <4>1, <4>2
    <3> QED
      BY <2>1, <3>2, <3>3, NilKeeps
  <2>2. CASE o.err = "panic"
    BY <1>2, <2>2, Zenon
  <2>3. CASE o.err # "nil" /\ o.err # "panic"
    <3>1. Off(o.s) \in Blocking
      BY Zenon, <1>2, <1>4
    <3>2. [o EXCEPT !.s.isKillSwitchSet = FALSE] \in O(Blocking)
      BY Zenon, <3>1 DEF O
    <3> QED
      BY <2>3, <3>2, Zenon
  <2> QED
    BY <2>1, <2>2, <2>3
<1>7. underKillSwitch(s, b) = Then(setKillSwitch(s, s.allowlist), LAMBDA x : Rest(x))
  BY Zenon DEF underKillSwitch
<1>8. setKillSwitch(s, s.allowlist) = Then(first, LAMBDA t : Nil(On(t)))
  BY DEF setKillSwitch
<1> HIDE DEF Last, On, Off, first
<1>9. \A x \in Held(TRUE) : Rest(x) \subseteq O(Blocking)
  BY <1>6, recreateHeld, Zenon
<1> HIDE DEF Rest
<1>10. ASSUME NEW o \in setKillSwitch(s, s.allowlist)
       PROVE  o \in O(Blocking) /\ (o.err = "nil" => o.s \in Held(TRUE))
  <2>1. PICK p \in first : o \in IF p.err = "nil" THEN Nil(On(p.s)) ELSE {p}
    BY <1>8, <1>10 DEF Then
  <2>2. CASE p.err = "nil"
    <3>1. On(p.s) \in Held(TRUE)
      BY <1>2, <1>3, <1>5, <2>2, Zenon
    <3>2. o = [s |-> On(p.s), err |-> "nil"]
      BY <2>1, <2>2 DEF Nil, Out
    <3> QED
      BY <3>1, <3>2 DEF O, Held, Errs
  <2>3. CASE p.err # "nil"
    BY <1>5, <2>1, <2>3, Zenon
  <2> QED
    BY <2>2, <2>3, Zenon
<1> QED
  BY <1>7, <1>9, <1>10, Zenon DEF Then

\* refreshVPN of a VPN that is set, as a whole.
LEMMA refreshVPNHeld ==
    ASSUME NEW s \in Blocking, s.isVpnSet, links \subseteq Links
    PROVE  refreshVPN(s) \subseteq O(Blocking)
<1> DEFINE again(x) == reinit(x, s.isVpnSet, s.isMeshnetSet)
<1>1. \A o \in O(Blocking) : o.s \in Blocking
  BY DEF O
<1>2. ASSUME NEW x \in Blocking
      PROVE  again(x) \subseteq O(Blocking)
  <2> DEFINE t == [x EXCEPT !.interfaces = links]
  <2>1. t \in Blocking
    BY Zenon, GoodBlocking, FieldsKeep
  <2>2. again(x) = IF t.isKillSwitchSet THEN recreate(t, s.isMeshnetSet)
                   ELSE underKillSwitch(t, s.isMeshnetSet)
    BY DEF reinit
  <2> HIDE DEF t
  <2>3. CASE t.isKillSwitchSet
    <3>1. t.isKillSwitchSet = TRUE
      BY <2>1, <2>3, GoodBlocking, InCombined DEF CombinedSet
    <3>2. t \in Held(TRUE)
      BY <2>1, <3>1 DEF Held
    <3>3. recreate(t, s.isMeshnetSet) \subseteq O(Held(TRUE))
      BY <3>2, recreateHeld, Zenon
    <3>4. O(Held(TRUE)) \subseteq O(Blocking)
      BY HeldFacts, Zenon
    <3> HIDE DEF again
    <3> QED
      BY <2>2, <2>3, <3>3, <3>4, Zenon
  <2>4. CASE ~t.isKillSwitchSet
    BY <2>1, <2>2, <2>4, underKillSwitchHeld, Zenon
  <2> QED
    BY <2>3, <2>4, Zenon
<1>3. handleNetworkChanged(s) \subseteq O(Blocking)
  BY GoodBlocking, handleNetworkChangedKeeps
<1> HIDE DEF again
<1>4. OrElse(handleNetworkChanged(s), LAMBDA t : again(t)) \subseteq O(Blocking)
  BY <1>1, <1>2, <1>3 DEF OrElse
<1>5. Nil(s) \subseteq O(Blocking)
  BY NilKeeps
<1> QED
  BY Zenon, <1>2, <1>4, <1>5 DEF refreshVPN, again

\* Reconnect, with the network up or down.
LEMMA ReconnectHeld ==
    ASSUME NEW s \in Blocking, s.isVpnSet, NEW up, links \subseteq Links
    PROVE  Reconnect(s, up) \subseteq O(Blocking)
<1> DEFINE Ok == {x \in Blocking : x.isVpnSet}
           F(x) == IF up THEN Logged(refreshVPN(x)) ELSE Nil(x)
<1>1. \A o \in O(Ok) : o.s \in Ok /\ o \in O(Blocking)
  BY DEF O
<1>2. Logged(disableIPv6IfNeeded(s)) \subseteq O(Ok)
  <2>1. \A x \in Ok : x \in Blocking
    OBVIOUS
  <2>2. s \in CombinedSet
    BY GoodBlocking, InCombined
  <2> DEFINE u == [s EXCEPT !.ipv6Enabled = FALSE]
             w == [u EXCEPT !.ipv6Blocked = TRUE]
  <2>3. u \in Blocking /\ w \in Blocking
    <3>1. u \in Blocking
      BY Zenon, GoodBlocking, FieldsKeep
    <3> HIDE DEF u
    <3> QED
      BY Zenon, <3>1, GoodBlocking, FieldsKeep
  <2>4. u.isVpnSet /\ w.isVpnSet
    BY <2>2 DEF CombinedSet
  <2>5. denyIPv6(s) = IF ~u.isNetworkSet THEN Nil(u) ELSE Call("ipv6", u, w)
    BY DEF denyIPv6
  <2> HIDE DEF u, w
  <2>6. /\ Nil(u) \subseteq O(Ok) /\ Call("ipv6", u, w) \subseteq O(Ok)
        /\ Nil(s) \subseteq O(Ok)
    BY <2>3, <2>4, NilKeeps, CallKeeps, Zenon
  <2>7. disableIPv6IfNeeded(s) \subseteq O(Ok)
    BY <2>5, <2>6, Zenon DEF disableIPv6IfNeeded
  <2> QED
    BY <2>7, LoggedKeeps
<1>3. \A x \in Ok : F(x) \subseteq O(Blocking)
  BY refreshVPNHeld, LoggedKeeps, NilKeeps
<1>4. Reconnect(s, up) = Then(Logged(disableIPv6IfNeeded(s)), LAMBDA y : F(y))
  BY DEF Reconnect
<1> HIDE DEF F, Ok
<1> QED
  BY <1>1, <1>2, <1>3, <1>4 DEF Then

\* When the network of the machine changes while VPN is set, the rules that
\* block traffic outside the tunnel stay, whichever service fails on the way
\* and whether or not the tunnel can be made again ("Keep iptables rules to
\* not expose user").  No service is assumed to work.
THEOREM ReconnectIsGuarded == Spec => ReconnectKeepsBlocking
<1>1. ASSUME Inv, [Next]_vars, cached' # cached, netw.isVpnSet, BlocksTraffic(netw)
      PROVE  BlocksTraffic(netw')
  <2>1. checkForChanges
    BY Zenon, <1>1 DEF Next, vars, env, ConnectServer, ConnectPeer, StopVPN, DisconnectCheck,
       DisconnectUnset, DisconnectStop, SetKillSwitch, UnsetKillSwitch, SetMesh, RefreshMesh,
       UnsetMesh, ChangeAllowlist, ChangeLanDiscovery, ReturnAndSave, ChangeDNS, Permit, Deny,
       ChangeTechnology, ResetRoutingRead, ResetRoutingApply, LinksChange
  <2>2. netw \in Blocking /\ links \subseteq Links
    BY <1>1 DEF Inv, TypeOK, Blocking
  <2>3. Reconnect(netw, links # {}) \subseteq O(Blocking)
    BY <1>1, <2>2, ReconnectHeld
  <2>4. PICK o \in Reconnect(netw, links # {}) : netw' = o.s
    BY <2>1 DEF checkForChanges, Return
  <2> QED
    BY <2>3, <2>4 DEF O, Blocking
<1>2. Inv /\ [Next]_vars => [cached' # cached /\ netw.isVpnSet /\ BlocksTraffic(netw)
                               => BlocksTraffic(netw')]_vars
  BY <1>1
<1> QED
  BY <1>2, SpecInv, PTL DEF Spec, ReconnectKeepsBlocking
=============================================================================
