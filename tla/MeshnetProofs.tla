--------------------------- MODULE MeshnetProofs ---------------------------
(***************************************************************************)
(* What holds of Meshnet.tla for every set of peers: of handlers that      *)
(* interleave in any number, and of requests that come one at a time.      *)
(***************************************************************************)
EXTENDS Meshnet, TLAPS

-----------------------------------------------------------------------------
(* Types.                                                                  *)

Machine == [listed : BOOLEAN, addr : BOOLEAN, perm : SUBSET Permissions]
Lists == [Peers -> Machine]
Rules == {Block} \cup ({"allow", "block-lan", "fileshare"} \X Peers \X BOOLEAN)
Forwarding == [Peers -> SUBSET {"routing", "lan"}]
CallType ==
    [kind : Kinds, pc : Pcs, peer : Peers \cup {None, Self}, perm : Permissions \cup {None},
     grant : BOOLEAN, list : Lists, removed : BOOLEAN]

ConfigOK == config \in [mesh : BOOLEAN, device : BOOLEAN, user : BOOLEAN, pq : BOOLEAN]
RegistryOK == registry \in [registered : BOOLEAN, peer : Lists]
NetwType ==
    [isMeshnetSet : BOOLEAN, rules : SUBSET Rules, exit : Forwarding,
     vpn : Peers \cup {None, "server"}, lastServer : Peers \cup {None, "server"}]
NetwOK == netw \in NetwType
CallsOK == calls \in [Calls -> CallType]
LocalOK ==
    /\ share \in BOOLEAN /\ monitored \in BOOLEAN /\ booting \in BOOLEAN /\ crashed \in BOOLEAN
    /\ lastConnectedPeer \in Peers \cup {None}

\* The kinds of requests that get to a call.
Where(pc) ==
    CASE pc = "idle" -> {None}
      [] pc = "load" -> {"enable", "permission", "auto", "remove", "accept", "transfer", "connect", "invitation"}
      [] pc = "list" -> {"permission", "auto", "remove", "transfer", "connect", "getPeers", "nickname", "job"}
      [] pc = "configure" -> {"permission", "nickname", "auto"}
      [] pc \in {"apply", "refreshIncoming"} -> {"permission"}
      [] pc = "accept" -> {"accept"}
      [] pc = "remove" -> {"remove"}
      [] pc \in {"map", "saveDevice", "refresh"} ->
             {"enable", "start", "refresh", "peerUpdate", "nickname", "accept", "machineNickname"}
      [] pc \in {"setMesh", "share"} -> {"enable", "start"}
      [] pc = "saveOn" -> {"enable"}
      [] pc \in {"unshare", "stop", "unset", "saveOff"} -> {"disable", "logout", "defaults"}
      [] pc = "notify" -> {"getPeers"}
      [] pc \in {"connect", "connected"} -> {"connect"}
      [] pc = "job" -> {"job"}
      [] pc \in {"update", "saveName"} -> {"machineNickname"}
      [] pc = "savePq" -> {"pq"}
      [] pc = "invite" -> {"invitation"}

PeerKinds == {"permission", "auto", "remove", "accept", "transfer", "connect", "nickname"}

\* A handler whose machine was removed runs the meshunsetter and does nothing else any more.
Shape(e) ==
    /\ IF e.removed THEN e.pc \in {"unshare", "unset", "saveOff"} ELSE e.kind \in Where(e.pc)
    /\ e.kind \in PeerKinds => e.peer \in Peers
    /\ e.kind = "permission" => e.perm \in Permissions

TypeInv == ConfigOK /\ RegistryOK /\ NetwOK /\ CallsOK /\ LocalOK /\ \A c \in Calls : Shape(calls[c])

-----------------------------------------------------------------------------
(* What the helpers do to the calls.                                        *)

\* Handler c is at a call, and the others are where they were.
Only(c) == CallsOK' /\ \A d \in Calls \ {c} : calls'[d] = calls[d]

Fields(e, kind, pc, peer, perm, grant, removed) ==
    e.kind = kind /\ e.pc = pc /\ e.peer = peer /\ e.perm = perm /\ (e.grant <=> grant) /\ (e.removed <=> removed)

\* A handler that is not called (calls[c] = Idle) has its type and shape.
LEMMA IdleFacts == Idle \in CallType /\ Fields(Idle, None, "idle", None, None, FALSE, FALSE) /\ Shape(Idle)
<1>1. NoList \in Lists
  BY DEF NoList, Lists, Machine, Gone
<1>2. Idle \in CallType
  BY <1>1 DEF Idle, CallType, Kinds, Pcs
<1>3. Fields(Idle, None, "idle", None, None, FALSE, FALSE)
  BY DEF Idle, Fields
<1> QED
  BY <1>2, <1>3 DEF Fields, Shape, Where, PeerKinds, None

\* Writing the call of one handler leaves the other handlers where they were.
LEMMA OnlyFacts ==
    ASSUME CallsOK, NEW c \in Calls, NEW e \in CallType, calls' = [calls EXCEPT ![c] = e]
    PROVE  Only(c) /\ calls'[c] = e
BY DEF CallsOK, Only

\* A handler that returns is idle, and the others are where they were.
LEMMA ReturnFacts ==
    ASSUME CallsOK, NEW c \in Calls, Return(c)
    PROVE  Only(c) /\ calls'[c] = Idle
BY IdleFacts, OnlyFacts, Zenon DEF Return

\* A handler that goes on to its next call keeps its arguments and its list.
LEMMA GotoFacts ==
    ASSUME CallsOK, NEW c \in Calls, NEW pc \in Pcs, Goto(c, pc)
    PROVE  /\ Only(c)
           /\ Fields(calls'[c], calls[c].kind, pc, calls[c].peer, calls[c].perm, calls[c].grant, calls[c].removed)
           /\ calls'[c].list = calls[c].list
<1> DEFINE e == [calls[c] EXCEPT !.pc = pc]
<1>1. calls[c] \in CallType
  BY DEF CallsOK
<1>2. e \in CallType /\ e.list = calls[c].list
  BY <1>1 DEF CallType
<1>3. Fields(e, calls[c].kind, pc, calls[c].peer, calls[c].perm, calls[c].grant, calls[c].removed)
  BY <1>1 DEF CallType, Fields
<1>4. calls' = [calls EXCEPT ![c] = e]
  BY DEF Goto, CallsOK
<1> HIDE DEF e
<1> QED
  BY <1>2, <1>3, <1>4, OnlyFacts, Zenon

\* A handler that was given a list goes on with that list and the arguments it had.
LEMMA ReceivedFacts ==
    ASSUME CallsOK, NEW c \in Calls, NEW pc \in Pcs, NEW list \in Lists, Received(c, list, pc)
    PROVE  /\ Only(c)
           /\ Fields(calls'[c], calls[c].kind, pc, calls[c].peer, calls[c].perm, calls[c].grant, calls[c].removed)
           /\ calls'[c].list = list
<1> DEFINE e == [calls[c] EXCEPT !.list = list, !.pc = pc]
<1>1. calls[c] \in CallType
  BY DEF CallsOK
<1>2. e \in CallType /\ e.list = list
  BY <1>1, Zenon DEF CallType
<1>3. Fields(e, calls[c].kind, pc, calls[c].peer, calls[c].perm, calls[c].grant, calls[c].removed)
  BY <1>1 DEF CallType, Fields
<1>4. calls' = [calls EXCEPT ![c] = e]
  BY Zenon DEF Received, CallsOK
<1> HIDE DEF e
<1> QED
  BY <1>2, <1>3, <1>4, OnlyFacts, Zenon

\* A request without arguments begins at its first call.
LEMMA BeginFacts ==
    ASSUME CallsOK, NEW c \in Calls, NEW kind \in Kinds, NEW pc \in Pcs, Begin(c, kind, pc)
    PROVE  Only(c) /\ Fields(calls'[c], kind, pc, None, None, FALSE, FALSE)
<1> DEFINE e == [Idle EXCEPT !.kind = kind, !.pc = pc]
<1>1. e \in CallType
  BY IdleFacts, Zenon DEF CallType
<1>2. Fields(e, kind, pc, None, None, FALSE, FALSE)
  BY DEF Idle, Fields
<1> HIDE DEF e
<1> QED
  BY <1>1, <1>2, OnlyFacts, Zenon DEF Begin, e

\* A request about a peer begins with that peer.
LEMMA PeerFacts ==
    ASSUME CallsOK, NEW c \in Calls, NEW kind \in Kinds, NEW pc \in Pcs, NEW p \in Peers \cup {None, Self},
           calls' = [calls EXCEPT ![c] = [Idle EXCEPT !.kind = kind, !.pc = pc, !.peer = p]]
    PROVE  Only(c) /\ Fields(calls'[c], kind, pc, p, None, FALSE, FALSE)
<1> DEFINE e == [Idle EXCEPT !.kind = kind, !.pc = pc, !.peer = p]
<1>1. e \in CallType
  BY IdleFacts, Zenon DEF CallType
<1>2. Fields(e, kind, pc, p, None, FALSE, FALSE)
  BY DEF Idle, Fields
<1>3. calls' = [calls EXCEPT ![c] = e]
  OBVIOUS
<1> HIDE DEF e
<1> QED
  BY <1>1, <1>2, <1>3, OnlyFacts, Zenon

\* A request that turns a setting on or off begins with that value.
LEMMA GrantFacts ==
    ASSUME CallsOK, NEW c \in Calls, NEW kind \in Kinds, NEW pc \in Pcs, NEW grant \in BOOLEAN,
           calls' = [calls EXCEPT ![c] = [Idle EXCEPT !.kind = kind, !.pc = pc, !.grant = grant]]
    PROVE  Only(c) /\ Fields(calls'[c], kind, pc, None, None, grant, FALSE)
<1> DEFINE e == [Idle EXCEPT !.kind = kind, !.pc = pc, !.grant = grant]
<1>1. e \in CallType
  BY IdleFacts, Zenon DEF CallType
<1>2. Fields(e, kind, pc, None, None, grant, FALSE)
  BY DEF Idle, Fields
<1>3. calls' = [calls EXCEPT ![c] = e]
  OBVIOUS
<1> HIDE DEF e
<1> QED
  BY <1>1, <1>2, <1>3, OnlyFacts, Zenon

\* A permission or peer request begins by loading the configuration, about some peer.
LEMMA RequestFacts ==
    ASSUME CallsOK, NEW c \in Calls, NEW kind \in Kinds, NEW perm \in Permissions \cup {None}, NEW grant \in BOOLEAN,
           PeerRequest(c, kind, perm, grant)
    PROVE  \E p \in Peers : Only(c) /\ Fields(calls'[c], kind, "load", p, perm, grant, FALSE)
<1>1. PICK p \in Peers : calls' = [calls EXCEPT ![c] = [Idle EXCEPT !.kind = kind, !.pc = "load", !.peer = p,
                                          !.perm = perm, !.grant = grant]]
  BY Zenon DEF PeerRequest
<1> DEFINE e == [Idle EXCEPT !.kind = kind, !.pc = "load", !.peer = p, !.perm = perm, !.grant = grant]
<1>2. e \in CallType
  BY IdleFacts, Zenon DEF CallType, Pcs
<1>3. Fields(e, kind, "load", p, perm, grant, FALSE)
  BY DEF Idle, Fields
<1>4. calls' = [calls EXCEPT ![c] = e]
  BY <1>1
<1> HIDE DEF e
<1> QED
  BY <1>2, <1>3, <1>4, OnlyFacts, Zenon

\* A handler told that its machine was removed runs the meshunsetter (meshunsetter.go) next.
LEMMA RemovedFacts ==
    ASSUME CallsOK, NEW c \in Calls, SelfRemoved(c)
    PROVE  Only(c) /\ Fields(calls'[c], calls[c].kind, "unshare", calls[c].peer, calls[c].perm, calls[c].grant, TRUE)
<1> DEFINE e == [calls[c] EXCEPT !.removed = TRUE, !.pc = "unshare"]
<1>1. calls[c] \in CallType
  BY DEF CallsOK
<1>2. e \in CallType
  BY <1>1, Zenon DEF CallType, Pcs
<1>3. Fields(e, calls[c].kind, "unshare", calls[c].peer, calls[c].perm, calls[c].grant, TRUE)
  BY <1>1 DEF CallType, Fields
<1>4. calls' = [calls EXCEPT ![c] = e]
  BY Zenon DEF SelfRemoved, CallsOK
<1> HIDE DEF e
<1> QED
  BY <1>2, <1>3, <1>4, OnlyFacts, Zenon

-----------------------------------------------------------------------------
(* What they do to the rest of the state.                                   *)

\* Registration leaves a saved device and changes nothing else of the configuration, and no peer.
LEMMA RegisterFacts ==
    ASSUME ConfigOK, RegistryOK, IsRegistrationInfoCorrect \/ Register
    PROVE  /\ ConfigOK' /\ config'.device = TRUE
           /\ config'.mesh = config.mesh /\ config'.user = config.user /\ config'.pq = config.pq
           /\ RegistryOK' /\ registry'.peer = registry.peer
<1>1. config' = [config EXCEPT !.device = TRUE]
  BY DEF IsRegistrationInfoCorrect, Register
<1>2. registry' = registry \/ registry' = [registry EXCEPT !.registered = TRUE]
  BY DEF IsRegistrationInfoCorrect, Register
<1>3. ConfigOK' /\ config'.device = TRUE
  BY <1>1, Zenon DEF ConfigOK
<1>4. config'.mesh = config.mesh /\ config'.user = config.user /\ config'.pq = config.pq
  BY <1>1 DEF ConfigOK
<1>5. RegistryOK' /\ registry'.peer = registry.peer
  BY <1>2, Zenon DEF RegistryOK
<1> QED
  BY <1>3, <1>4, <1>5

\* One peer of the registry.
LEMMA PeerChanges ==
    ASSUME RegistryOK, NEW p \in Peers, NEW m \in Machine, registry' = [registry EXCEPT !.peer[p] = m]
    PROVE  /\ RegistryOK' /\ registry'.registered = registry.registered
           /\ registry'.peer[p] = m /\ \A x \in Peers \ {p} : registry'.peer[x] = registry.peer[x]
<1> DEFINE list == [registry.peer EXCEPT ![p] = m]
<1>1. registry.peer \in Lists
  BY DEF RegistryOK
<1>2. list \in Lists /\ list[p] = m /\ \A x \in Peers \ {p} : list[x] = registry.peer[x]
  BY <1>1 DEF Lists
<1>3. registry' = [registry EXCEPT !.peer = list]
  BY DEF RegistryOK
<1> HIDE DEF list
<1> QED
  BY <1>2, <1>3, Zenon DEF RegistryOK

\* What resetPeersTraffic makes of a list is a forwarding of peers.
LEMMA ForwardsType == ASSUME NEW list \in Lists PROVE Forwards(list) \in Forwarding
BY DEF Forwards, Forwarding, Lists, Machine

\* The exit node without peers.
LEMMA NoForwardsType == NoForwards \in Forwarding
BY DEF NoForwards, Forwarding

-----------------------------------------------------------------------------
(* The networker.                                                           *)

\* t is s but for the rules, or for the VPN.
RulesOf(t, s, rules) ==
    /\ t \in NetwType /\ t.rules = rules /\ t.exit = s.exit
    /\ t.isMeshnetSet = s.isMeshnetSet /\ t.vpn = s.vpn /\ t.lastServer = s.lastServer
VpnOf(t, s, vpn, last) ==
    /\ t \in NetwType /\ t.rules = s.rules /\ t.exit = s.exit
    /\ t.isMeshnetSet = s.isMeshnetSet /\ t.vpn = vpn /\ t.lastServer = last
MeshOf(t, s, set, rules, exit) ==
    /\ t \in NetwType /\ t.rules = rules /\ t.exit = exit
    /\ t.isMeshnetSet = set /\ t.vpn = s.vpn /\ t.lastServer = s.lastServer

\* Setting the tracked rules changes nothing else of the networker.
LEMMA RulesChange ==
    ASSUME NEW s \in NetwType, NEW rules \in SUBSET Rules
    PROVE  RulesOf([s EXCEPT !.rules = rules], s, rules)
BY DEF NetwType, RulesOf

\* Setting the exit node's peers changes nothing else of the networker.
LEMMA ExitChange ==
    ASSUME NEW s \in NetwType, NEW exit \in Forwarding
    PROVE  MeshOf([s EXCEPT !.exit = exit], s, s.isMeshnetSet, s.rules, exit)
BY DEF NetwType, MeshOf

\* Setting the rules and the exit node's peers changes nothing else of the networker.
LEMMA BothChange ==
    ASSUME NEW s \in NetwType, NEW rules \in SUBSET Rules, NEW exit \in Forwarding
    PROVE  MeshOf([s EXCEPT !.rules = rules, !.exit = exit], s, s.isMeshnetSet, rules, exit)
BY Zenon DEF NetwType, MeshOf

\* Setting isMeshnetSet changes nothing else of the networker.
LEMMA FlagChange ==
    ASSUME NEW s \in NetwType, NEW set \in BOOLEAN
    PROVE  MeshOf([s EXCEPT !.isMeshnetSet = set], s, set, s.rules, s.exit)
BY DEF NetwType, MeshOf

\* Setting the flag, the rules and the peers leaves the connection alone.
LEMMA MeshChange ==
    ASSUME NEW s \in NetwType, NEW set \in BOOLEAN, NEW rules \in SUBSET Rules, NEW exit \in Forwarding
    PROVE  MeshOf([s EXCEPT !.isMeshnetSet = set, !.rules = rules, !.exit = exit], s, set, rules, exit)
BY Zenon DEF NetwType, MeshOf

\* Setting the connection leaves flag, rules and peers alone.
LEMMA ConnectionChange ==
    ASSUME NEW s \in NetwType, NEW vpn \in Peers \cup {None, "server"}, NEW last \in Peers \cup {None, "server"}
    PROVE  /\ VpnOf([s EXCEPT !.vpn = vpn, !.lastServer = last], s, vpn, last)
           /\ VpnOf([s EXCEPT !.vpn = vpn], s, vpn, s.lastServer)
BY Zenon DEF NetwType, VpnOf

\* The name of a peer's rule is a rule.
LEMMA NameType ==
    ASSUME NEW p \in Peers, NEW m \in Machine, NEW rule \in {"allow", "block-lan", "fileshare"}
    PROVE  Name(rule, p, m) \in Rules
<1>1. m.addr \in BOOLEAN
  BY DEF Machine
<1> QED
  BY <1>1 DEF Name, Rules

\* The rules allowIncoming adds.
Incoming(p, m) == {Name("allow", p, m)} \cup (IF LanAllowed(m) THEN {} ELSE {Name("block-lan", p, m)})

\* allowIncoming tracks the allow rule and, without LAN access, block-lan; both only when allow is not tracked yet.
LEMMA AllowFacts ==
    ASSUME NEW s \in NetwType, NEW p \in Peers, NEW m \in Machine
    PROVE  RulesOf(allowIncoming(s, p, m), s,
                   IF Name("allow", p, m) \in s.rules THEN s.rules ELSE s.rules \cup Incoming(p, m))
<1>1. s.rules \in SUBSET Rules
  BY DEF NetwType
<1>2. CASE Name("allow", p, m) \in s.rules
  BY <1>2 DEF allowIncoming, RulesOf
<1>3. CASE Name("allow", p, m) \notin s.rules
  <2> DEFINE rules == s.rules \cup Incoming(p, m)
  <2>1. rules \in SUBSET Rules
    BY <1>1, NameType DEF Incoming
  <2>2. allowIncoming(s, p, m) = [s EXCEPT !.rules = rules]
    BY <1>3 DEF allowIncoming, Incoming, NetwType
  <2> HIDE DEF rules
  <2>3. RulesOf(allowIncoming(s, p, m), s, rules)
    BY <2>1, <2>2, RulesChange
  <2> QED
    BY <1>3, <2>3 DEF rules
<1> QED
  BY <1>2, <1>3

\* blockIncoming removes the allow rule together with its block-lan rule.
LEMMA BlockFacts ==
    ASSUME NEW s \in NetwType, NEW p \in Peers, NEW m \in Machine
    PROVE  RulesOf(blockIncoming(s, p, m), s, s.rules \ {Name("allow", p, m), Name("block-lan", p, m)})
<1> DEFINE rules == s.rules \ {Name("allow", p, m), Name("block-lan", p, m)}
<1>1. rules \in SUBSET Rules /\ blockIncoming(s, p, m) = [s EXCEPT !.rules = rules]
  BY DEF NetwType, blockIncoming
<1> HIDE DEF rules
<1>2. RulesOf(blockIncoming(s, p, m), s, rules)
  BY <1>1, RulesChange
<1> QED
  BY <1>2 DEF rules

\* allowFileshare and BlockFileshare change the fileshare rule of one peer and no other rule.
LEMMA FileshareFacts ==
    ASSUME NEW s \in NetwType, NEW p \in Peers, NEW m \in Machine
    PROVE  /\ RulesOf(allowFileshare(s, p, m), s, s.rules \cup {Name("fileshare", p, m)})
           /\ RulesOf(BlockFileshare(s, p, m), s, s.rules \ {Name("fileshare", p, m)})
<1> DEFINE more == s.rules \cup {Name("fileshare", p, m)}
           less == s.rules \ {Name("fileshare", p, m)}
<1>1. more \in SUBSET Rules /\ less \in SUBSET Rules
  BY NameType DEF NetwType
<1>2. allowFileshare(s, p, m) = [s EXCEPT !.rules = more] /\ BlockFileshare(s, p, m) = [s EXCEPT !.rules = less]
  BY DEF NetwType, allowFileshare, BlockFileshare
<1> HIDE DEF more, less
<1>3. RulesOf(allowFileshare(s, p, m), s, more) /\ RulesOf(BlockFileshare(s, p, m), s, less)
  BY <1>1, <1>2, RulesChange
<1> QED
  BY <1>3 DEF more, less

\* A block-lan rule is there only with the rule it restricts.
LanOK(rules) ==
    \A p \in Peers, addr \in BOOLEAN : <<"block-lan", p, addr>> \in rules => <<"allow", p, addr>> \in rules

\* None of the four leaves a block-lan rule without its allow rule.
LEMMA IncomingLan ==
    ASSUME NEW rules, LanOK(rules), NEW p \in Peers, NEW m \in Machine
    PROVE  /\ LanOK(rules \cup Incoming(p, m))
           /\ LanOK(rules \ {Name("allow", p, m), Name("block-lan", p, m)})
           /\ LanOK(rules \cup {Name("fileshare", p, m)})
           /\ LanOK(rules \ {Name("fileshare", p, m)})
BY DEF LanOK, Incoming, Name

\* refreshIncoming makes the two rules anew, or leaves them alone.
Anew(rules, p, m) == (rules \ {Name("allow", p, m), Name("block-lan", p, m)}) \cup Incoming(p, m)

\* refreshIncoming, in the terms of Anew, when block-lan is tracked only with allow.
LEMMA RefreshIncomingFacts ==
    ASSUME NEW s \in NetwType, LanOK(s.rules), NEW p \in Peers, NEW m \in Machine
    PROVE  RulesOf(refreshIncoming(s, p, m), s, IF Has(m, "inbound") THEN Anew(s.rules, p, m) ELSE s.rules)
<1> DEFINE b == blockIncoming(s, p, m)
<1>1. CASE ~Has(m, "inbound")
  BY <1>1 DEF refreshIncoming, RulesOf
<1>2. CASE Has(m, "inbound") /\ Name("allow", p, m) \in s.rules
  <2>1. RulesOf(b, s, s.rules \ {Name("allow", p, m), Name("block-lan", p, m)})
    BY BlockFacts
  <2>2. b \in NetwType /\ Name("allow", p, m) \notin b.rules
    BY <2>1 DEF RulesOf
  <2>3. refreshIncoming(s, p, m) = allowIncoming(b, p, m)
    BY <1>2 DEF refreshIncoming
  <2> HIDE DEF b
  <2>4. RulesOf(allowIncoming(b, p, m), b, b.rules \cup Incoming(p, m))
    BY <2>2, AllowFacts, Zenon
  <2> QED
    BY <1>2, <2>1, <2>3, <2>4 DEF RulesOf, Anew
<1>3. CASE Has(m, "inbound") /\ Name("allow", p, m) \notin s.rules
  <2>1. refreshIncoming(s, p, m) = allowIncoming(s, p, m)
    BY <1>3 DEF refreshIncoming
  <2>2. RulesOf(allowIncoming(s, p, m), s, s.rules \cup Incoming(p, m))
    BY <1>3, AllowFacts
  <2>3. Name("block-lan", p, m) \notin s.rules
    BY <1>3 DEF LanOK, Name, Machine
  <2>4. s.rules \cup Incoming(p, m) = Anew(s.rules, p, m)
    BY <1>3, <2>3 DEF Anew
  <2> QED
    BY <1>3, <2>1, <2>2, <2>4
<1> QED
  BY <1>1, <1>2, <1>3

\* Making the two rules anew keeps block-lan with allow.
LEMMA AnewLan ==
    ASSUME NEW rules, LanOK(rules), NEW p \in Peers, NEW m \in Machine
    PROVE  LanOK(Anew(rules, p, m))
BY IncomingLan, Zenon DEF Anew

\* The rules refresh makes of a list.
PeerRules(p, m) ==
    (IF m.listed /\ m.addr /\ Has(m, "inbound") THEN Incoming(p, m) ELSE {}) \cup
    (IF m.listed /\ m.addr /\ Has(m, "fileshare") THEN {Name("fileshare", p, m)} ELSE {})
RefreshRules(list) == {Block} \cup UNION {PeerRules(p, list[p]) : p \in Peers}

\* From no rules at all refresh tracks for a peer exactly what the list permits it.
LEMMA RefreshPeerFacts ==
    ASSUME NEW s \in NetwType, s.rules = {}, NEW p \in Peers, NEW m \in Machine
    PROVE  refreshPeer(s, p, m).rules = PeerRules(p, m)
<1> DEFINE s1 == IF m.listed /\ m.addr /\ Has(m, "inbound") THEN allowIncoming(s, p, m) ELSE s
<1>1. s1 \in NetwType /\ s1.rules = IF m.listed /\ m.addr /\ Has(m, "inbound") THEN Incoming(p, m) ELSE {}
  <2>1. RulesOf(allowIncoming(s, p, m), s, {} \cup Incoming(p, m))
    BY AllowFacts
  <2> QED
    BY <2>1 DEF RulesOf
<1>2. refreshPeer(s, p, m) = IF m.listed /\ m.addr /\ Has(m, "fileshare") THEN allowFileshare(s1, p, m) ELSE s1
  BY DEF refreshPeer
<1> HIDE DEF s1
<1>3. RulesOf(allowFileshare(s1, p, m), s1, s1.rules \cup {Name("fileshare", p, m)})
  BY <1>1, FileshareFacts, Zenon
<1> QED
  BY <1>1, <1>2, <1>3 DEF RulesOf, PeerRules

\* What a whole list makes are rules, with block-lan only where allow is.
LEMMA RefreshRulesFacts ==
    ASSUME NEW list \in Lists
    PROVE  RefreshRules(list) \in SUBSET Rules /\ LanOK(RefreshRules(list))
<1>1. \A p \in Peers : list[p] \in Machine
  BY DEF Lists
<1>2. ASSUME NEW p \in Peers PROVE PeerRules(p, list[p]) \in SUBSET Rules
  BY <1>1, NameType DEF PeerRules, Incoming
<1>3. RefreshRules(list) \in SUBSET Rules
  BY <1>2 DEF RefreshRules, Rules
<1>4. ASSUME NEW p \in Peers, NEW addr \in BOOLEAN, <<"block-lan", p, addr>> \in RefreshRules(list)
      PROVE  <<"allow", p, addr>> \in RefreshRules(list)
  <2>1. PICK x \in Peers : <<"block-lan", p, addr>> \in PeerRules(x, list[x])
    BY <1>4 DEF RefreshRules, Block
  <2>2. <<"allow", p, addr>> \in PeerRules(x, list[x])
    BY <2>1 DEF PeerRules, Incoming, Name
  <2> QED
    BY <2>2 DEF RefreshRules
<1> QED
  BY <1>3, <1>4 DEF LanOK

\* refresh forgets the rules of before: they and the exit node's peers follow from its list alone.
LEMMA RefreshFacts ==
    ASSUME NEW s \in NetwType, NEW list \in Lists
    PROVE  MeshOf(refresh(s, list), s, s.isMeshnetSet, RefreshRules(list), Forwards(list))
<1> DEFINE clear == [s EXCEPT !.rules = {}]
<1>1. clear \in NetwType /\ clear.rules = {}
  BY RulesChange DEF RulesOf
<1> HIDE DEF clear
<1>2. \A p \in Peers : refreshPeer(clear, p, list[p]).rules = PeerRules(p, list[p])
  BY <1>1, RefreshPeerFacts DEF Lists
<1>3. {refreshPeer(clear, p, list[p]).rules : p \in Peers} = {PeerRules(p, list[p]) : p \in Peers}
  BY <1>2
<1>4. refresh(s, list) = [s EXCEPT !.rules = RefreshRules(list), !.exit = Forwards(list)]
  BY <1>3, Zenon DEF refresh, RefreshRules, clear
<1> QED
  BY <1>4, RefreshRulesFacts, ForwardsType, BothChange, Zenon

-----------------------------------------------------------------------------
(* The invariants.  IInv holds of any number of handlers; Alone(c) is kept  *)
(* by the steps of c and of the environment, so that it holds when c is the *)
(* only handler.                                                            *)

IInv == TypeInv /\ MeshHasDevice /\ LanOK(netw.rules)

\* The device is there while a handler needs it.
Safe(c) ==
    /\ ~crashed
    /\ \/ calls[c].pc \in {"load", "update", "saveName", "saveOn"}
       \/ calls[c].kind \in {"enable", "start"} /\ calls[c].pc \in {"map", "setMesh"}
       => config.device

\* VPN is connected to a peer only when DisableMeshnet will find that out.
Carried(c) ==
    /\ netw.vpn \in Peers =>
          netw.vpn = netw.lastServer /\ (netw.lastServer = lastConnectedPeer \/ calls[c].pc = "connected")
    /\ calls[c].pc = "connected" => netw.lastServer = calls[c].peer
    /\ calls[c].pc \in {"unset", "saveOff"} /\ calls[c].kind = "disable" /\ ~calls[c].removed => netw.vpn \notin Peers

\* Meshnet runs as the configuration says, but between the two steps of EnableMeshnet.
Configured(c) ==
    /\ netw.isMeshnetSet => config.mesh \/ calls[c].pc = "saveOn"
    /\ calls[c].pc = "saveOff" => ~netw.isMeshnetSet
    /\ ~(config.mesh /\ config.pq)
    /\ calls[c].kind = "enable" /\ calls[c].pc \in {"map", "setMesh", "saveOn"} => ~config.pq
    /\ calls[c].kind = "start" /\ calls[c].pc \in {"map", "setMesh"} => config.mesh
    /\ calls[c].pc = "savePq" /\ calls[c].grant => ~config.mesh

Alone(c) == Safe(c) /\ Carried(c) /\ ("lib" \notin Faulty => Configured(c))

\* The type invariant after a step of handler c, from its parts.
LEMMA TypeClose ==
    ASSUME TypeInv, NEW c \in Calls, Only(c), Shape(calls'[c]), ConfigOK', RegistryOK', NetwOK', LocalOK'
    PROVE  TypeInv'
<1>1. \A d \in Calls : Shape(calls'[d])
  BY DEF TypeInv, Only
<1> QED
  BY <1>1, Zenon DEF TypeInv, Only, Shape, Where, PeerKinds

\* A handler that only goes on, from a call of the registry to another.
LEMMA GoesOn ==
    ASSUME IInv, NEW c \in Calls, Only(c), Shape(calls'[c]), RegistryOK',
           UNCHANGED <<config, netw, local>>
    PROVE  IInv'
<1>1. ConfigOK' /\ NetwOK' /\ LocalOK'
  BY DEF IInv, TypeInv, ConfigOK, NetwOK, LocalOK, local
<1>2. TypeInv'
  BY <1>1, TypeClose DEF IInv
<1> QED
  BY <1>2 DEF IInv, MeshHasDevice, LanOK

\* A handler that begins with the registration.
LEMMA Registers ==
    ASSUME IInv, NEW c \in Calls, Only(c), Shape(calls'[c]), IsRegistrationInfoCorrect \/ Register,
           UNCHANGED netw, LocalOK'
    PROVE  IInv' /\ config'.device /\ config'.mesh = config.mesh /\ config'.pq = config.pq
<1>1. ConfigOK' /\ RegistryOK' /\ config'.device = TRUE /\ config'.mesh = config.mesh /\ config'.pq = config.pq
  BY RegisterFacts, Zenon DEF IInv, TypeInv
<1>2. NetwOK' /\ LanOK(netw.rules)'
  BY DEF IInv, TypeInv, NetwOK, LanOK
<1>3. TypeInv'
  BY <1>1, <1>2, TypeClose DEF IInv
<1> QED
  BY <1>1, <1>2, <1>3 DEF IInv, MeshHasDevice

\* Requests about a peer.
LEMMA PeerRequestKeeps ==
    ASSUME IInv, NEW c \in Calls, NEW kind \in PeerKinds \ {"nickname"}, NEW perm \in Permissions \cup {None}, NEW grant \in BOOLEAN,
           kind = "permission" => perm \in Permissions,
           PeerRequest(c, kind, perm, grant)
    PROVE  IInv' /\ (Alone(c) => Alone(c)')
<1>1. kind \in Kinds
  BY DEF PeerKinds, Kinds
<1>2. PICK p \in Peers : Only(c) /\ Fields(calls'[c], kind, "load", p, perm, grant, FALSE)
  BY <1>1, RequestFacts, Zenon DEF IInv, TypeInv
<1>3. Shape(calls'[c])
  BY <1>2 DEF Fields, Shape, Where, PeerKinds
<1>4. IsRegistrationInfoCorrect /\ UNCHANGED <<netw, local>>
  BY DEF PeerRequest
<1>5. LocalOK'
  BY <1>4 DEF IInv, TypeInv, LocalOK, local
<1>6. IInv' /\ config'.device /\ config'.mesh = config.mesh /\ config'.pq = config.pq
  BY <1>2, <1>3, <1>4, <1>5, Registers
<1>7. calls[c].pc = "idle"
  BY DEF PeerRequest, Free
<1>8. ASSUME Safe(c) PROVE Safe(c)'
  BY <1>2, <1>4, <1>6, <1>8 DEF Safe, Fields, local
<1>9. ASSUME Carried(c) PROVE Carried(c)'
  BY <1>2, <1>4, <1>7, <1>9 DEF Carried, Fields, local
<1>10. ASSUME Configured(c) PROVE Configured(c)'
  BY <1>2, <1>4, <1>6, <1>7, <1>10 DEF Configured, Fields, local
<1> QED
  BY <1>6, <1>8, <1>9, <1>10 DEF Alone

\* Where a handler is when nothing is asked of the rest of the state.
Plain(e) ==
    /\ e.pc \notin {"load", "update", "saveName", "saveOn", "connected", "unset", "saveOff", "savePq"}
    /\ ~(e.kind \in {"enable", "start"} /\ e.pc \in {"map", "setMesh"})

\* A step to a plain call keeps Alone when it changes neither meshnet's state nor the connection.
LEMMA PlainAlone ==
    ASSUME NEW c \in Calls, Alone(c), calls[c].pc \notin {"connected", "saveOn"}, Plain(calls'[c]),
           netw'.isMeshnetSet = netw.isMeshnetSet, netw'.vpn = netw.vpn, netw'.lastServer = netw.lastServer,
           UNCHANGED <<lastConnectedPeer, crashed>>, config'.mesh = config.mesh, config'.pq = config.pq
    PROVE  Alone(c)'
<1>1. Safe(c)'
  BY DEF Alone, Safe, Plain
<1>2. Carried(c)'
  BY DEF Alone, Carried, Plain
<1>3. ASSUME Configured(c) PROVE Configured(c)'
  BY <1>3 DEF Configured, Plain
<1> QED
  BY <1>1, <1>2, <1>3 DEF Alone

\* An idle handler is plain: it needs nothing of the configuration.
LEMMA IdlePlain == Plain(Idle)
BY IdleFacts DEF Plain, Fields, None

\* Requests that load the configuration first.
LEMMA LoadedRequestKeeps ==
    ASSUME IInv, NEW c \in Calls, NEW kind \in {"refresh", "getPeers", "nickname", "machineNickname", "peerUpdate"},
           NEW p \in Peers \cup {None, Self}, NEW pc \in {"map", "list", "update"}, kind \in Where(pc),
           kind = "nickname" => p \in Peers,
           calls[c].pc \in {"idle", "notify"}, LoadedRequest(c, kind, p, pc)
    PROVE  IInv' /\ (Alone(c) => Alone(c)')
<1>1. kind \in Kinds /\ pc \in Pcs
  BY DEF Kinds, Pcs
<1>2. calls' = [calls EXCEPT ![c] = [Idle EXCEPT !.kind = kind, !.pc = pc, !.peer = p]]
  BY DEF LoadedRequest
<1>3. Only(c) /\ Fields(calls'[c], kind, pc, p, None, FALSE, FALSE)
  BY <1>1, <1>2, PeerFacts, Zenon DEF IInv, TypeInv
<1>4. Shape(calls'[c])
  BY <1>3 DEF Fields, Shape, PeerKinds
<1>5. IsRegistrationInfoCorrect /\ UNCHANGED <<netw, share, monitored, booting, lastConnectedPeer>>
      /\ crashed' = ~config.device /\ config.mesh
  BY DEF LoadedRequest
<1>6. crashed' = FALSE
  BY <1>5, Zenon DEF IInv, TypeInv, ConfigOK, MeshHasDevice
<1>7. LocalOK'
  BY <1>5, <1>6 DEF IInv, TypeInv, LocalOK
<1>8. IInv' /\ config'.device /\ config'.mesh = config.mesh /\ config'.pq = config.pq
  BY <1>3, <1>4, <1>5, <1>7, Registers, Zenon
<1>9. ASSUME Alone(c) PROVE Alone(c)'
  <2>1. Safe(c)'
    BY <1>6, <1>8 DEF Safe
  <2>2. Carried(c)'
    BY <1>3, <1>5, <1>9 DEF Alone, Carried, Fields
  <2>3. ASSUME Configured(c) PROVE Configured(c)'
    BY <1>3, <1>5, <1>8, <2>3 DEF Configured, Fields
  <2> QED
    BY <1>9, <2>1, <2>2, <2>3 DEF Alone
<1> QED
  BY <1>8, <1>9

\* Every request and event that makes a handler begin.
LEMMA HandlerKeeps ==
    ASSUME IInv, NEW c \in Calls, Handler(c)
    PROVE  IInv' /\ (Alone(c) /\ "job" \notin Ops => Alone(c)')
<1>types. TypeInv /\ ConfigOK /\ RegistryOK /\ NetwOK /\ CallsOK /\ LocalOK /\ MeshHasDevice /\ LanOK(netw.rules)
  BY DEF IInv, TypeInv
<1> USE <1>types
<1>1. ASSUME NEW perm \in Permissions, NEW grant \in BOOLEAN, PermissionRequest(c, perm, grant)
      PROVE  IInv' /\ (Alone(c) => Alone(c)')
  <2>1. PeerRequest(c, "permission", perm, grant) /\ "permission" \in PeerKinds \ {"nickname"}
    BY <1>1 DEF PermissionRequest, PeerKinds
  <2> QED
    BY <2>1, PeerRequestKeeps
<1>2. ASSUME NEW kind \in {"auto", "remove", "accept", "transfer", "connect"}, NEW grant \in BOOLEAN, PeerRequest(c, kind, None, grant)
      PROVE  IInv' /\ (Alone(c) => Alone(c)')
  <2>1. kind \in PeerKinds \ {"nickname"} /\ kind # "permission"
    BY DEF PeerKinds
  <2> QED
    BY <1>2, <2>1, PeerRequestKeeps
<1>3. CASE \/ AllowIncoming(c) \/ DenyIncoming(c) \/ AllowRouting(c) \/ DenyRouting(c)
           \/ AllowLocalNetwork(c) \/ DenyLocalNetwork(c) \/ AllowFileshare(c) \/ DenyFileshare(c)
  BY <1>1, <1>3, Zenon DEF AllowIncoming, DenyIncoming, AllowRouting, DenyRouting, AllowLocalNetwork, DenyLocalNetwork,
     AllowFileshare, DenyFileshare, Permissions
<1>4. CASE \/ EnableAutomaticFileshare(c) \/ DisableAutomaticFileshare(c) \/ RemovePeer(c) \/ AcceptInvite(c)
           \/ NotifyNewTransfer(c) \/ Connect(c)
  BY <1>2, <1>4, Zenon DEF EnableAutomaticFileshare, DisableAutomaticFileshare, RemovePeer, AcceptInvite, NotifyNewTransfer, Connect
<1>5. CASE RemoveUnregistered(c)
  <2>1. PICK p \in Peers : calls' = [calls EXCEPT ![c] = [Idle EXCEPT !.kind = "remove", !.pc = "remove", !.peer = p]]
    BY <1>5, Zenon DEF RemoveUnregistered
  <2>2. Only(c) /\ Fields(calls'[c], "remove", "remove", p, None, FALSE, FALSE)
    BY <2>1, PeerFacts, Zenon DEF Kinds, Pcs
  <2>3. Shape(calls'[c]) /\ Plain(calls'[c])
    BY <2>2 DEF Fields, Shape, Where, PeerKinds, Plain
  <2>4. UNCHANGED <<config, registry, netw, local>> /\ calls[c].pc = "idle"
    BY <1>5 DEF RemoveUnregistered, Free
  <2>5. RegistryOK'
    BY <2>4 DEF RegistryOK
  <2> QED
    BY <2>2, <2>3, <2>4, <2>5, GoesOn, PlainAlone, Zenon DEF local
<1>6. CASE Invite(c) \/ DenyInvite(c) \/ RevokeInvite(c) \/ GetInvites(c) \/ EnableMeshnet(c)
  <2>1. PICK kind \in {"invitation", "enable"} : Begin(c, kind, "load")
    BY <1>6 DEF Invite, DenyInvite, RevokeInvite, GetInvites, InvitationRequest, EnableMeshnet
  <2>2. Only(c) /\ Fields(calls'[c], kind, "load", None, None, FALSE, FALSE)
    BY <2>1, BeginFacts, Zenon DEF Kinds, Pcs
  <2>3. Shape(calls'[c])
    BY <2>2 DEF Fields, Shape, Where, PeerKinds
  <2>4. (IsRegistrationInfoCorrect \/ Register) /\ UNCHANGED <<netw, local>> /\ calls[c].pc = "idle"
    BY <1>6 DEF Invite, DenyInvite, RevokeInvite, GetInvites, InvitationRequest, EnableMeshnet, Free
  <2>5. LocalOK'
    BY <2>4 DEF LocalOK, local
  <2>6. IInv' /\ config'.device /\ config'.mesh = config.mesh /\ config'.pq = config.pq
    BY <2>2, <2>3, <2>4, <2>5, Registers
  <2>7. ASSUME Alone(c) PROVE Alone(c)'
    <3>1. Safe(c)'
      BY <2>4, <2>6, <2>7 DEF Alone, Safe, local
    <3>2. Carried(c)'
      BY <2>2, <2>4, <2>7 DEF Alone, Carried, Fields, local
    <3>3. ASSUME Configured(c) PROVE Configured(c)'
      BY <2>2, <2>4, <2>6, <3>3, Zenon DEF Configured, Fields
    <3> QED
      BY <2>7, <3>1, <3>2, <3>3 DEF Alone
  <2> QED
    BY <2>6, <2>7
<1>7. CASE StartMeshnet(c)
  <2>1. Only(c) /\ Fields(calls'[c], "start", "map", None, None, FALSE, FALSE)
    BY <1>7, BeginFacts, Zenon DEF StartMeshnet, Kinds, Pcs
  <2>2. Shape(calls'[c])
    BY <2>1 DEF Fields, Shape, Where, PeerKinds
  <2>3. Register /\ UNCHANGED <<netw, share, monitored, booting, lastConnectedPeer>> /\ calls[c].pc = "idle"
        /\ crashed' = ~config.device /\ config.mesh
    BY <1>7, Zenon DEF StartMeshnet, Free
  <2>4. crashed' = FALSE
    BY <2>3, Zenon DEF ConfigOK, MeshHasDevice
  <2>5. LocalOK'
    BY <2>3, <2>4 DEF LocalOK
  <2>6. IInv' /\ config'.device /\ config'.mesh = config.mesh /\ config'.pq = config.pq
    BY <2>1, <2>2, <2>3, <2>5, Registers, Zenon
  <2>7. ASSUME Alone(c) PROVE Alone(c)'
    <3>1. Safe(c)'
      BY <2>4, <2>6 DEF Safe
    <3>2. Carried(c)'
      BY <2>1, <2>3, <2>7 DEF Alone, Carried, Fields
    <3>3. ASSUME Configured(c) PROVE Configured(c)'
      BY <2>1, <2>3, <2>6, <3>3, Zenon DEF Configured, Fields
    <3> QED
      BY <2>7, <3>1, <3>2, <3>3 DEF Alone
  <2> QED
    BY <2>6, <2>7
<1>8. CASE DisableMeshnet(c) \/ Logout(c) \/ SetDefaults(c)
  <2>1. PICK kind \in {"disable", "logout", "defaults"}, pc \in {"unshare", "stop"} : Begin(c, kind, pc)
    BY <1>8 DEF DisableMeshnet, Logout, SetDefaults
  <2>2. Only(c) /\ Fields(calls'[c], kind, pc, None, None, FALSE, FALSE)
    BY <2>1, BeginFacts, ZenonT(60) DEF Kinds, Pcs
  <2>3. Shape(calls'[c]) /\ Plain(calls'[c])
    BY <2>2 DEF Fields, Shape, Where, PeerKinds, Plain
  <2>4. UNCHANGED <<config, registry, netw, local>> /\ calls[c].pc = "idle"
    BY <1>8 DEF DisableMeshnet, Logout, SetDefaults, Free
  <2>5. RegistryOK'
    BY <2>4 DEF RegistryOK
  <2> QED
    BY <2>2, <2>3, <2>4, <2>5, GoesOn, PlainAlone DEF local
<1>9. CASE RefreshMeshnet(c)
  BY <1>9, LoadedRequestKeeps DEF RefreshMeshnet, Free, Where
<1>10. CASE GetPeers(c)
  BY <1>10, LoadedRequestKeeps DEF GetPeers, Free, Where
<1>11. CASE ChangePeerNickname(c)
  BY <1>11, LoadedRequestKeeps DEF ChangePeerNickname, Free, Where
<1>12. CASE ChangeMachineNickname(c)
  BY <1>12, LoadedRequestKeeps DEF ChangeMachineNickname, Free, Where
<1>13. CASE NotifyPeerUpdate(c)
  BY <1>13, LoadedRequestKeeps DEF NotifyPeerUpdate, Free, Where
<1>14. CASE SetPostQuantum(c)
  <2>1. calls[c].pc = "idle" /\ (config.mesh => config.pq) /\ UNCHANGED <<config, registry, netw, local>>
        /\ calls' = [calls EXCEPT ![c] = [Idle EXCEPT !.kind = "pq", !.pc = "savePq", !.grant = ~config.pq]]
    BY <1>14 DEF SetPostQuantum, Free
  <2>2. Only(c) /\ Fields(calls'[c], "pq", "savePq", None, None, ~config.pq, FALSE)
    BY <2>1, GrantFacts, ZenonT(60) DEF Kinds, Pcs
  <2>3. Shape(calls'[c])
    BY <2>2 DEF Fields, Shape, Where, PeerKinds
  <2>4. RegistryOK'
    BY <2>1 DEF RegistryOK
  <2>5. IInv'
    BY <2>1, <2>2, <2>3, <2>4, GoesOn
  <2>6. ASSUME Alone(c) PROVE Alone(c)'
    <3>1. Safe(c)'
      BY <2>1, <2>2, <2>6 DEF Alone, Safe, Fields, local
    <3>2. Carried(c)'
      BY <2>1, <2>2, <2>6 DEF Alone, Carried, Fields, local
    <3>3. ASSUME Configured(c) PROVE Configured(c)'
      BY <2>1, <2>2, <3>3 DEF Configured, Fields
    <3> QED
      BY <2>6, <3>1, <3>2, <3>3 DEF Alone
  <2> QED
    BY <2>5, <2>6
<1>15. CASE JobMonitorFileshareProcess(c)
  <2>1. /\ calls' = [calls EXCEPT ![c] = [Idle EXCEPT !.kind = "job", !.pc = "list", !.grant = share]]
        /\ UNCHANGED <<config, registry, netw, share, monitored, booting, lastConnectedPeer>>
        /\ crashed' = ~config.device /\ "job" \in Ops
    BY <1>15 DEF JobMonitorFileshareProcess, Free
  <2>2. Only(c) /\ Fields(calls'[c], "job", "list", None, None, share, FALSE)
    BY <2>1, GrantFacts, Zenon DEF Kinds, Pcs, LocalOK
  <2>3. Shape(calls'[c])
    BY <2>2 DEF Fields, Shape, Where, PeerKinds
  <2>4. ConfigOK' /\ RegistryOK' /\ NetwOK'
    BY <2>1 DEF ConfigOK, RegistryOK, NetwOK
  <2>5. LocalOK'
    BY <2>1 DEF LocalOK, ConfigOK
  <2>6. TypeInv'
    BY <2>2, <2>3, <2>4, <2>5, TypeClose
  <2> QED
    BY <2>1, <2>6 DEF MeshHasDevice, LanOK, IInv
<1> QED
  BY <1>3, <1>4, <1>5, <1>6, <1>7, <1>8, <1>9, <1>10, <1>11, <1>12, <1>13, <1>14, <1>15 DEF Handler

\* The list a handler is given.
LEMMA ListType == TypeInv => registry.peer \in Lists /\ \A c \in Calls : calls[c] \in CallType /\ Shape(calls[c])
BY DEF TypeInv, RegistryOK, CallsOK

\* The target of a handler, in its list and in the registry.
LEMMA TargetType ==
    ASSUME TypeInv, NEW c \in Calls, calls[c].kind \in PeerKinds
    PROVE  /\ calls[c].peer \in Peers /\ calls[c].list \in Lists
           /\ Target(c) \in Machine /\ InList(c) \in Machine
<1>1. calls[c].peer \in Peers
  BY DEF TypeInv, Shape
<1>2. calls[c].list \in Lists /\ registry.peer \in Lists
  BY ListType DEF CallType
<1> QED
  BY <1>1, <1>2 DEF Target, InList, Lists

\* Every call of the registry: the configuration changes at most by the token.
LEMMA RegistryStepKeeps ==
    ASSUME IInv, NEW c \in Calls,
           \/ NotifyOff(c) \/ List(c) \/ Map(c) \/ SelfRemoved(c) \/ ApiFailure(c)
           \/ Configure(c) \/ Accept(c) \/ Invitations(c) \/ Remove(c) \/ Update(c)
    PROVE  IInv' /\ (Alone(c) => Alone(c)')
<1>types. TypeInv /\ ConfigOK /\ RegistryOK /\ NetwOK /\ CallsOK /\ LocalOK /\ MeshHasDevice /\ LanOK(netw.rules)
  BY DEF IInv, TypeInv
<1> USE <1>types
<1>0. UNCHANGED <<config, netw, local>>
  BY Zenon DEF NotifyOff, List, Map, SelfRemoved, ApiFailure, Configure, Accept, Invitations, Remove, Update
<1>1. calls[c] \in CallType /\ Shape(calls[c])
  BY ListType
<1>2. ASSUME Return(c), RegistryOK', calls[c].pc \notin {"connected", "saveOn"} PROVE IInv' /\ (Alone(c) => Alone(c)')
  BY <1>0, <1>2, ReturnFacts, IdleFacts, IdlePlain, GoesOn, PlainAlone DEF local
<1>3. CASE NotifyOff(c) \/ ApiFailure(c) \/ Invitations(c)
  <2>1. Return(c) /\ registry' = registry /\ calls[c].pc \notin {"connected", "saveOn"}
    BY <1>3 DEF NotifyOff, ApiFailure, Invitations, At
  <2> QED
    BY <1>2, <2>1 DEF RegistryOK
<1>4. CASE List(c)
  <2>1. calls[c].pc = "list" /\ registry' = registry /\ calls[c].kind \in Where("list") /\ ~calls[c].removed /\ RegistryOK'
    BY <1>1, <1>4 DEF List, At, Shape, RegistryOK
  <2>2. CASE Return(c)
    BY <1>2, <2>1, <2>2, Zenon
  <2>3. CASE Goto(c, "notify") /\ calls[c].kind = "getPeers"
    <3>1. Only(c) /\ Fields(calls'[c], calls[c].kind, "notify", calls[c].peer, calls[c].perm, calls[c].grant, calls[c].removed)
      BY <2>3, GotoFacts, Zenon DEF Pcs
    <3>2. Shape(calls'[c]) /\ Plain(calls'[c])
      BY <2>1, <2>3, <3>1 DEF Fields, Shape, Where, PeerKinds, Plain
    <3> QED
      BY <1>0, <2>1, <3>1, <3>2, GoesOn, PlainAlone, Zenon DEF local
  <2>4. ASSUME NEW list \in Lists, NEW pc \in {"configure", "remove", "connect", "job"}, calls[c].kind \in Where(pc),
               Received(c, list, pc)
        PROVE  IInv' /\ (Alone(c) => Alone(c)')
    <3>1. Only(c) /\ Fields(calls'[c], calls[c].kind, pc, calls[c].peer, calls[c].perm, calls[c].grant, calls[c].removed)
      BY <2>4, ReceivedFacts, ZenonT(60) DEF Pcs
    <3>2. Shape(calls'[c]) /\ Plain(calls'[c])
      BY <1>1, <2>1, <2>4, <3>1, Zenon DEF Fields, Shape, Plain
    <3> QED
      BY <1>0, <2>1, <3>1, <3>2, GoesOn, PlainAlone, Zenon DEF local
  <2>5. CASE PermissionListed(c)
    <3>1. calls[c].kind = "permission" /\ calls[c].kind \in Where("configure")
      BY <2>5 DEF PermissionListed, Where, Kind
    <3> DEFINE p == calls[c].peer
               perms == IF calls[c].grant THEN registry.peer[p].perm \cup {calls[c].perm} ELSE registry.peer[p].perm \ {calls[c].perm}
               list == [registry.peer EXCEPT ![p].perm = perms]
    <3>2. p \in Peers /\ registry.peer[p] \in Machine /\ calls[c].perm \in Permissions
      BY <1>1, <3>1, TargetType, Zenon DEF InList, PeerKinds, Shape
    <3>3. perms \in SUBSET Permissions
      BY <3>2, Zenon DEF Machine
    <3>4. list \in Lists
      <4>1. [registry.peer[p] EXCEPT !.perm = perms] \in Machine
        BY <3>2, <3>3, Zenon DEF Machine
      <4>2. list = [registry.peer EXCEPT ![p] = [registry.peer[p] EXCEPT !.perm = perms]]
        BY <3>2, ListType DEF Lists
      <4> HIDE DEF perms, list
      <4> QED
        BY <3>2, <4>1, <4>2, ListType DEF Lists
    <3>5. Return(c) \/ Received(c, list, "configure")
      <4>1. [registry.peer EXCEPT ![calls[c].peer].perm =
                IF calls[c].grant THEN @ \cup {calls[c].perm} ELSE @ \ {calls[c].perm}] = list
        BY <3>2, ListType DEF Lists
      <4> QED
        BY <2>5, <4>1 DEF PermissionListed
    <3> HIDE DEF list
    <3> QED
      BY <2>2, <2>4, <3>1, <3>4, <3>5, Zenon
  <2>6. CASE PeerListed(c)
    <3>1. Return(c) \/ \E pc \in {"configure", "remove", "connect"} : calls[c].kind \in Where(pc) /\ Received(c, registry.peer, pc)
      BY <2>6 DEF PeerListed, Where, Kind
    <3> QED
      BY <2>2, <2>4, <3>1, ListType
  <2>7. CASE PeersListed(c) \/ JobListed(c)
    <3>1. Return(c) \/ (Goto(c, "notify") /\ calls[c].kind = "getPeers") \/ (calls[c].kind \in Where("job") /\ Received(c, registry.peer, "job"))
      BY <2>7 DEF PeersListed, JobListed, Where, Kind
    <3> QED
      BY <2>2, <2>3, <2>4, <3>1, ListType
  <2> QED
    BY <1>4, <2>5, <2>6, <2>7 DEF List
<1>5. CASE Map(c)
  <2>1. calls[c].pc = "map" /\ registry' = registry /\ calls[c].kind \in Where("map") /\ ~calls[c].removed /\ RegistryOK'
    BY <1>1, <1>5, Zenon DEF Map, At, Shape, RegistryOK
  <2>2. PICK pc \in {"setMesh", "refresh", "saveDevice"} :
            Received(c, registry.peer, pc) /\ (pc = "setMesh" => calls[c].kind \in {"enable", "start"})
    BY <1>5, Zenon DEF Map, Kind
  <2>3. Only(c) /\ Fields(calls'[c], calls[c].kind, pc, calls[c].peer, calls[c].perm, calls[c].grant, calls[c].removed)
    BY SMTT(30), <2>2, ReceivedFacts, ListType DEF Pcs
  <2>4. Shape(calls'[c])
    BY <1>1, <2>1, <2>2, <2>3 DEF Fields, Shape, Where
  <2>5. IInv'
    BY <1>0, <2>1, <2>3, <2>4, GoesOn, Zenon
  <2>6. ASSUME Alone(c) PROVE Alone(c)'
    <3>1. Safe(c)'
      BY <1>0, <2>1, <2>2, <2>3, <2>6, Zenon DEF Alone, Safe, Fields, local
    <3>2. Carried(c)'
      BY <1>0, <2>1, <2>2, <2>3, <2>6, Zenon DEF Alone, Carried, Fields, local
    <3>3. ASSUME Configured(c) PROVE Configured(c)'
      BY <1>0, <2>1, <2>2, <2>3, <3>3, Zenon DEF Configured, Fields
    <3> QED
      BY <2>6, <3>1, <3>2, <3>3 DEF Alone
  <2> QED
    BY <2>5, <2>6
<1>6. CASE SelfRemoved(c)
  <2>1. calls[c].pc \in {"list", "map"} /\ registry' = registry /\ RegistryOK'
    BY <1>6 DEF SelfRemoved, At, RegistryOK
  <2>2. Only(c) /\ Fields(calls'[c], calls[c].kind, "unshare", calls[c].peer, calls[c].perm, calls[c].grant, TRUE)
    BY <1>6, RemovedFacts, Zenon
  <2>3. Shape(calls'[c]) /\ Plain(calls'[c])
    BY <1>1, <2>2, Zenon DEF Fields, Shape, Plain
  <2> QED
    BY <1>0, <2>1, <2>2, <2>3, GoesOn, PlainAlone, Zenon DEF local
<1>7. CASE Configure(c)
  <2>1. calls[c].pc = "configure" /\ calls[c].kind \in {"permission", "nickname", "auto"} /\ ~calls[c].removed
    BY <1>1, <1>7 DEF Configure, At, Shape, Where
  <2>2. CASE Return(c) /\ registry' = registry
    BY <1>2, <2>1, <2>2 DEF RegistryOK
  <2>3. CASE registry' = [registry EXCEPT !.peer[calls[c].peer].perm = Target(c).perm]
    <3> DEFINE p == calls[c].peer
               m == [registry.peer[p] EXCEPT !.perm = Target(c).perm]
    <3>1. p \in Peers /\ registry.peer[p] \in Machine /\ Target(c) \in Machine
      BY <2>1, TargetType DEF InList, PeerKinds
    <3>2. m \in Machine
      BY <3>1 DEF Machine
    <3>3. registry' = [registry EXCEPT !.peer[p] = m]
      BY <2>3, <3>1, ListType DEF RegistryOK, Lists
    <3> HIDE DEF p, m
    <3>4. RegistryOK'
      BY <3>1, <3>2, <3>3, PeerChanges
    <3>5. CASE Return(c)
      BY <1>2, <2>1, <3>4, <3>5
    <3>6. CASE \/ calls[c].kind = "nickname" /\ Goto(c, "map")
               \/ calls[c].kind = "permission" /\ Goto(c, "apply")
      <4>1. PICK pc \in {"map", "apply"} : Goto(c, pc) /\ calls[c].kind \in Where(pc)
        BY <3>6 DEF Where
      <4>2. Only(c) /\ Fields(calls'[c], calls[c].kind, pc, calls[c].peer, calls[c].perm, calls[c].grant, calls[c].removed)
        BY <4>1, GotoFacts, Zenon DEF Pcs
      <4>3. Shape(calls'[c]) /\ Plain(calls'[c])
        BY <1>1, <2>1, <4>1, <4>2, Zenon DEF Fields, Shape, Plain
      <4> QED
        BY <1>0, <2>1, <3>4, <4>2, <4>3, GoesOn, PlainAlone, Zenon DEF local
    <3> QED
      BY <1>7, <2>1, <2>2, <3>5, <3>6, Zenon DEF Configure, Kind
  <2> QED
    BY <1>7, <2>2, <2>3, Zenon DEF Configure
<1>8. CASE Accept(c)
  <2>1. calls[c].pc = "accept" /\ calls[c].kind = "accept" /\ ~calls[c].removed
    BY <1>1, <1>8, Zenon DEF Accept, At, Shape, Where
  <2>2. CASE Return(c) /\ registry' = registry
    BY <1>2, <2>1, <2>2, Zenon DEF RegistryOK
  <2>3. ASSUME NEW perm \in SUBSET Grantable, Goto(c, "map"),
               registry' = [registry EXCEPT !.peer[calls[c].peer] = [@ EXCEPT !.listed = TRUE, !.perm = perm]]
        PROVE  IInv' /\ (Alone(c) => Alone(c)')
    <3> DEFINE p == calls[c].peer
               m == [registry.peer[p] EXCEPT !.listed = TRUE, !.perm = perm]
    <3>1. p \in Peers /\ registry.peer[p] \in Machine
      BY <2>1, TargetType, Zenon DEF InList, PeerKinds
    <3>2. m \in Machine
      BY <3>1, GrantableAssumption, Zenon DEF Machine
    <3>3. registry' = [registry EXCEPT !.peer[p] = m]
      BY <2>3, <3>1, ListType DEF RegistryOK, Lists
    <3> HIDE DEF p, m
    <3>4. RegistryOK'
      BY <3>1, <3>2, <3>3, PeerChanges
    <3>5. Only(c) /\ Fields(calls'[c], calls[c].kind, "map", calls[c].peer, calls[c].perm, calls[c].grant, calls[c].removed)
      BY <2>3, GotoFacts, Zenon DEF Pcs
    <3>6. Shape(calls'[c]) /\ Plain(calls'[c])
      BY <1>1, <2>1, <3>5 DEF Fields, Shape, Where, Plain
    <3> QED
      BY <1>0, <2>1, <3>4, <3>5, <3>6, GoesOn, PlainAlone, Zenon DEF local
  <2> QED
    BY <1>8, <2>2, <2>3, Zenon DEF Accept
<1>9. CASE Remove(c)
  <2>1. calls[c].pc = "remove" /\ calls[c].kind = "remove" /\ ~calls[c].removed /\ Return(c)
    BY <1>1, <1>9 DEF Remove, At, Shape, Where
  <2> DEFINE p == calls[c].peer
             m == [registry.peer[p] EXCEPT !.listed = FALSE, !.perm = {}]
  <2>2. p \in Peers /\ registry.peer[p] \in Machine
    BY <2>1, TargetType DEF InList, PeerKinds
  <2>3. m \in Machine
    BY <2>2, Zenon DEF Machine
  <2>4. registry' = [registry EXCEPT !.peer[p] = m]
    BY <1>9, <2>2, ListType DEF Remove, RegistryOK, Lists
  <2> HIDE DEF p, m
  <2>5. RegistryOK'
    BY <2>2, <2>3, <2>4, PeerChanges
  <2> QED
    BY <1>2, <2>1, <2>5
<1>10. CASE Update(c)
  <2>1. calls[c].pc = "update" /\ calls[c].kind = "machineNickname" /\ ~calls[c].removed /\ registry' = registry /\ RegistryOK'
    BY <1>1, <1>10 DEF Update, At, Shape, Where, RegistryOK
  <2>2. Only(c) /\ Fields(calls'[c], calls[c].kind, "saveName", calls[c].peer, calls[c].perm, calls[c].grant, calls[c].removed)
    BY <1>10, GotoFacts, Zenon DEF Update, Pcs
  <2>3. Shape(calls'[c])
    BY <2>1, <2>2 DEF Fields, Shape, Where, PeerKinds
  <2>4. IInv'
    BY <1>0, <2>1, <2>2, <2>3, GoesOn, Zenon
  <2>5. ASSUME Alone(c) PROVE Alone(c)'
    <3>1. Safe(c)'
      BY <1>0, <2>1, <2>5 DEF Alone, Safe, local
    <3>2. Carried(c)'
      BY <1>0, <2>1, <2>2, <2>5, Zenon DEF Alone, Carried, Fields, local
    <3>3. ASSUME Configured(c) PROVE Configured(c)'
      BY <1>0, <2>1, <2>2, <3>3, Zenon DEF Configured, Fields
    <3> QED
      BY <2>5, <3>1, <3>2, <3>3 DEF Alone
  <2> QED
    BY <2>4, <2>5
<1> QED
  BY <1>3, <1>4, <1>5, <1>6, <1>7, <1>8, <1>9, <1>10

\* A step that changes the networker only.
LEMMA NetwGoesOn ==
    ASSUME IInv, NEW c \in Calls, Only(c), Shape(calls'[c]), NetwOK', LanOK(netw.rules)',
           UNCHANGED <<config, registry, local>>
    PROVE  IInv'
<1>1. ConfigOK' /\ RegistryOK' /\ LocalOK'
  BY DEF IInv, TypeInv, ConfigOK, RegistryOK, LocalOK, local
<1>2. TypeInv'
  BY <1>1, TypeClose, Zenon DEF IInv
<1> QED
  BY <1>2 DEF IInv, MeshHasDevice

\* A step that changes the rules or the forwarding of peers, after which the
\* handler returns or goes on with its list.
LEMMA RulesGoOn ==
    ASSUME IInv, NEW c \in Calls, Only(c), Shape(calls'[c]), Plain(calls'[c]),
           calls[c].pc \notin {"connected", "saveOn"},
           NEW rules, LanOK(rules), NEW exit, MeshOf(netw', netw, netw.isMeshnetSet, rules, exit),
           UNCHANGED <<config, registry, local>>
    PROVE  IInv' /\ (Alone(c) => Alone(c)')
<1>1. NetwOK' /\ LanOK(netw.rules)'
  BY DEF MeshOf, NetwOK, LanOK
<1>2. IInv'
  BY <1>1, NetwGoesOn
<1>3. netw'.isMeshnetSet = netw.isMeshnetSet /\ netw'.vpn = netw.vpn /\ netw'.lastServer = netw.lastServer
  BY DEF MeshOf
<1> QED
  BY <1>2, <1>3, PlainAlone, Zenon DEF local

\* The calls of the networker by the handlers of permissions and of refreshes.
LEMMA PermissionStepKeeps ==
    ASSUME IInv, NEW c \in Calls, Apply(c) \/ ResetPeers(c) \/ RefreshIncoming(c) \/ Refresh(c)
    PROVE  IInv' /\ (Alone(c) => Alone(c)')
<1>types. TypeInv /\ ConfigOK /\ RegistryOK /\ NetwOK /\ CallsOK /\ LocalOK /\ MeshHasDevice /\ LanOK(netw.rules)
  BY DEF IInv, TypeInv
<1> USE <1>types
<1>0. UNCHANGED <<config, registry, local>>
  BY DEF Apply, ResetPeers, RefreshIncoming, Refresh
<1>1. calls[c] \in CallType /\ Shape(calls[c]) /\ netw \in NetwType /\ calls[c].list \in Lists
  BY ListType, Zenon DEF NetwOK, CallType
<1>2. ASSUME Return(c) PROVE Only(c) /\ Shape(calls'[c]) /\ Plain(calls'[c])
  BY <1>2, ReturnFacts, IdleFacts, IdlePlain
<1>3. CASE Apply(c)
  <2> DEFINE p == calls[c].peer
             m == Target(c)
  <2>1. p \in Peers /\ m \in Machine /\ calls[c].pc = "apply" /\ Return(c)
    BY <1>1, <1>3, TargetType DEF Apply, At, Shape, Where, PeerKinds
  <2>2. netw' \in {netw, allowIncoming(netw, p, m), blockIncoming(netw, p, m), allowFileshare(netw, p, m), BlockFileshare(netw, p, m)}
    <3>1. calls[c].perm \in {"inbound", "fileshare"} /\ calls[c].grant \in BOOLEAN /\ m.addr \in BOOLEAN
      BY <1>1, <1>3, <2>1 DEF Apply, CallType, Machine
    <3> QED
      BY <1>3, <3>1 DEF Apply
  <2> HIDE DEF p, m
  <2>3. PICK rules : LanOK(rules) /\ RulesOf(netw', netw, rules)
    <3>1. CASE netw' = netw
      BY <1>1, <3>1 DEF RulesOf
    <3>2. CASE netw' = allowIncoming(netw, p, m)
      BY <1>1, <2>1, <3>2, AllowFacts, IncomingLan, Zenon
    <3>3. CASE netw' = blockIncoming(netw, p, m)
      BY <1>1, <2>1, <3>3, BlockFacts, IncomingLan, Zenon
    <3>4. CASE netw' = allowFileshare(netw, p, m)
      BY <1>1, <2>1, <3>4, FileshareFacts, IncomingLan, Zenon
    <3>5. CASE netw' = BlockFileshare(netw, p, m)
      BY <1>1, <2>1, <3>5, FileshareFacts, IncomingLan, Zenon
    <3> QED
      BY <2>2, <3>1, <3>2, <3>3, <3>4, <3>5
  <2>4. MeshOf(netw', netw, netw.isMeshnetSet, rules, netw.exit)
    BY <2>3 DEF RulesOf, MeshOf
  <2> QED
    BY <1>0, <1>2, <2>1, <2>3, <2>4, RulesGoOn, Zenon
<1>4. CASE ResetPeers(c)
  <2>1. calls[c].pc = "apply" /\ Goto(c, "refreshIncoming") /\ netw' = [netw EXCEPT !.exit = Forwards(calls[c].list)]
    BY <1>4 DEF ResetPeers, At
  <2>2. MeshOf(netw', netw, netw.isMeshnetSet, netw.rules, Forwards(calls[c].list))
    BY <1>1, <2>1, ForwardsType, ExitChange
  <2>3. Only(c) /\ Fields(calls'[c], calls[c].kind, "refreshIncoming", calls[c].peer, calls[c].perm, calls[c].grant, calls[c].removed)
    BY <2>1, GotoFacts DEF Pcs
  <2>4. Shape(calls'[c]) /\ Plain(calls'[c])
    BY <1>1, <2>1, <2>3 DEF Fields, Shape, Where, PeerKinds, Plain
  <2> QED
    BY <1>0, <2>1, <2>2, <2>3, <2>4, RulesGoOn
<1>5. CASE RefreshIncoming(c)
  <2> DEFINE p == calls[c].peer
             m == Target(c)
  <2>1. p \in Peers /\ m \in Machine /\ calls[c].pc = "refreshIncoming" /\ Return(c) /\ netw' = refreshIncoming(netw, p, m)
    BY <1>1, <1>5, TargetType DEF RefreshIncoming, At, Shape, Where, PeerKinds
  <2> HIDE DEF p, m
  <2>2. PICK rules : LanOK(rules) /\ RulesOf(netw', netw, rules)
    BY <1>1, <2>1, RefreshIncomingFacts, AnewLan, Zenon
  <2>3. MeshOf(netw', netw, netw.isMeshnetSet, rules, netw.exit)
    BY <2>2, Zenon DEF RulesOf, MeshOf
  <2> QED
    BY <1>0, <1>2, <2>1, <2>2, <2>3, RulesGoOn, Zenon
<1>6. CASE Refresh(c)
  <2>1. calls[c].pc = "refresh" /\ Return(c) /\ netw' = refresh(netw, calls[c].list)
    BY <1>6, Zenon DEF Refresh, At
  <2>2. MeshOf(netw', netw, netw.isMeshnetSet, RefreshRules(calls[c].list), Forwards(calls[c].list))
    BY <1>1, <2>1, RefreshFacts, Zenon
  <2> QED
    BY <1>0, <1>1, <1>2, <2>1, <2>2, RefreshRulesFacts, RulesGoOn, Zenon
<1> QED
  BY <1>3, <1>4, <1>5, <1>6

\* Setting and unsetting meshnet, and stopping VPN before that.
LEMMA MeshStepKeeps ==
    ASSUME IInv, NEW c \in Calls, SetMesh(c) \/ StopVPN(c) \/ UnsetMesh(c) \/ LibFailure(c)
    PROVE  IInv' /\ (Alone(c) => Alone(c)')
<1>types. TypeInv /\ ConfigOK /\ RegistryOK /\ NetwOK /\ CallsOK /\ LocalOK /\ MeshHasDevice /\ LanOK(netw.rules)
  BY DEF IInv, TypeInv
<1> USE <1>types
<1>0. UNCHANGED <<config, registry, local>>
  BY DEF SetMesh, StopVPN, UnsetMesh, LibFailure
<1>1. calls[c] \in CallType /\ Shape(calls[c]) /\ netw \in NetwType /\ calls[c].list \in Lists
  BY ListType DEF NetwOK, CallType
<1>2. ASSUME Return(c) PROVE Only(c) /\ Shape(calls'[c]) /\ Plain(calls'[c])
  BY <1>2, ReturnFacts, IdleFacts, IdlePlain
<1>3. ASSUME NEW pc \in Pcs, Goto(c, pc)
      PROVE  Only(c) /\ Fields(calls'[c], calls[c].kind, pc, calls[c].peer, calls[c].perm, calls[c].grant, calls[c].removed)
  BY <1>3, GotoFacts
<1>4. LanOK({}) /\ {} \in SUBSET Rules
  BY DEF LanOK
<1>5. CASE SetMesh(c)
  <2>1. calls[c].pc = "setMesh" /\ ~calls[c].removed /\ calls[c].kind \in {"enable", "start"}
    BY <1>1, <1>5 DEF SetMesh, At, Shape, Where
  <2>2. CASE netw.isMeshnetSet
    <3>1. Return(c) /\ MeshOf(netw', netw, netw.isMeshnetSet, netw.rules, netw.exit)
      BY <1>1, <1>5, <2>2, Zenon DEF SetMesh, MeshOf
    <3> QED
      BY <1>0, <1>2, <2>1, <3>1, RulesGoOn, Zenon
  <2>3. CASE ~netw.isMeshnetSet
    <3> DEFINE pc == IF calls[c].kind = "enable" THEN "saveOn" ELSE "share"
               s == refresh(netw, calls[c].list)
    <3>1. Goto(c, pc) /\ netw' = [s EXCEPT !.isMeshnetSet = TRUE] /\ pc \in Pcs
      BY <1>5, <2>3 DEF SetMesh, Kind, Pcs
    <3>2. MeshOf(s, netw, netw.isMeshnetSet, RefreshRules(calls[c].list), Forwards(calls[c].list))
      BY <1>1, RefreshFacts
    <3> HIDE DEF s
    <3>3. MeshOf(netw', s, TRUE, s.rules, s.exit)
      BY <3>1, <3>2, FlagChange, Zenon DEF MeshOf
    <3>4. MeshOf(netw', netw, TRUE, RefreshRules(calls[c].list), Forwards(calls[c].list))
      BY <3>2, <3>3 DEF MeshOf
    <3>5. Only(c) /\ Fields(calls'[c], calls[c].kind, pc, calls[c].peer, calls[c].perm, calls[c].grant, calls[c].removed)
      BY <1>3, <3>1
    <3>6. Shape(calls'[c])
      BY <1>1, <2>1, <3>5 DEF Fields, Shape, Where, PeerKinds
    <3>7. NetwOK' /\ LanOK(netw.rules)'
      BY <1>1, <3>4, RefreshRulesFacts DEF MeshOf, NetwOK, LanOK
    <3>8. IInv'
      BY <1>0, <3>5, <3>6, <3>7, NetwGoesOn, Zenon
    <3>9. ASSUME Alone(c) PROVE Alone(c)'
      <4>1. Safe(c)'
        BY <1>0, <2>1, <3>5, <3>9, Zenon DEF Alone, Safe, Fields, local
      <4>2. Carried(c)'
        BY <1>0, <2>1, <3>4, <3>5, <3>9, Zenon DEF Alone, Carried, Fields, MeshOf, local
      <4>3. ASSUME Configured(c) PROVE Configured(c)'
        BY <1>0, <2>1, <3>4, <3>5, <4>3, Zenon DEF Configured, Fields, MeshOf
      <4> QED
        BY <3>9, <4>1, <4>2, <4>3 DEF Alone
    <3> QED
      BY <3>8, <3>9
  <2> QED
    BY <2>2, <2>3
<1>6. CASE StopVPN(c)
  <2>1. calls[c].pc = "stop" /\ ~calls[c].removed /\ calls[c].kind \in {"disable", "logout", "defaults"} /\ Goto(c, "unset")
    BY <1>1, <1>6 DEF StopVPN, At, Shape, Where
  <2>2. Only(c) /\ Fields(calls'[c], calls[c].kind, "unset", calls[c].peer, calls[c].perm, calls[c].grant, calls[c].removed)
    BY <1>3, <2>1, Zenon DEF Pcs
  <2>3. Shape(calls'[c])
    BY <2>1, <2>2 DEF Fields, Shape, Where, PeerKinds
  <2>4. \/ netw' = netw /\ calls[c].kind = "disable" /\ netw.lastServer # lastConnectedPeer
        \/ VpnOf(netw', netw, None, netw.lastServer)
    BY <1>1, <1>6, ConnectionChange, Zenon DEF StopVPN, Kind
  <2>5. netw' \in NetwType /\ netw'.rules = netw.rules /\ netw'.isMeshnetSet = netw.isMeshnetSet /\ netw'.lastServer = netw.lastServer
    BY <1>1, <2>4, Zenon DEF VpnOf
  <2>6. IInv'
    BY <1>0, <2>2, <2>3, <2>5, NetwGoesOn, Zenon DEF NetwOK, LanOK
  <2>7. ASSUME Alone(c) PROVE Alone(c)'
    <3>1. Safe(c)'
      BY <1>0, <2>1, <2>2, <2>7, Zenon DEF Alone, Safe, Fields, local
    <3>2. netw'.vpn \notin Peers
      BY <2>1, <2>4, <2>7, PeersAssumption, Zenon DEF Alone, Carried, VpnOf
    <3>3. Carried(c)'
      BY <2>2, <3>2, Zenon DEF Carried, Fields
    <3>4. ASSUME Configured(c) PROVE Configured(c)'
      BY <1>0, <2>1, <2>2, <2>5, <3>4, Zenon DEF Configured, Fields
    <3> QED
      BY <2>7, <3>1, <3>3, <3>4 DEF Alone
  <2> QED
    BY <2>6, <2>7
<1>7. CASE UnsetMesh(c)
  <2>1. calls[c].pc = "unset" /\ Goto(c, "saveOff") /\ netw' = UnSetMesh(netw)
    BY <1>7, Zenon DEF UnsetMesh, At
  <2>2. Only(c) /\ Fields(calls'[c], calls[c].kind, "saveOff", calls[c].peer, calls[c].perm, calls[c].grant, calls[c].removed)
    BY <1>3, <2>1, Zenon DEF Pcs
  <2>3. Shape(calls'[c])
    BY <1>1, <2>1, <2>2 DEF Fields, Shape, Where, PeerKinds
  <2>4. PICK rules, exit : MeshOf(netw', netw, FALSE, rules, exit) /\ LanOK(rules)
    <3>1. CASE netw.isMeshnetSet
      BY <1>1, <1>4, <2>1, <3>1, MeshChange, NoForwardsType, Zenon DEF UnSetMesh
    <3>2. CASE ~netw.isMeshnetSet
      BY <1>1, <2>1, <3>2 DEF UnSetMesh, MeshOf, NetwType
    <3> QED
      BY <3>1, <3>2, Zenon
  <2>5. NetwOK' /\ LanOK(netw.rules)'
    BY <2>4 DEF MeshOf, NetwOK, LanOK
  <2>6. IInv'
    BY <1>0, <2>2, <2>3, <2>5, NetwGoesOn
  <2>7. ASSUME Alone(c) PROVE Alone(c)'
    <3>1. Safe(c)'
      BY <1>0, <2>1, <2>2, <2>7, Zenon DEF Alone, Safe, Fields, local
    <3>2. Carried(c)'
      BY <1>0, <2>1, <2>2, <2>4, <2>7, Zenon DEF Alone, Carried, Fields, MeshOf, local
    <3>3. ASSUME Configured(c) PROVE Configured(c)'
      BY <1>0, <2>1, <2>2, <2>4, <3>3, Zenon DEF Configured, Fields, MeshOf
    <3> QED
      BY <2>7, <3>1, <3>2, <3>3 DEF Alone
  <2> QED
    BY <2>6, <2>7
<1>8. CASE LibFailure(c)
  <2>1. netw' = [netw EXCEPT !.rules = {}, !.exit = NoForwards] /\ "lib" \in Faulty
    BY <1>8 DEF LibFailure
  <2>2. MeshOf(netw', netw, netw.isMeshnetSet, {}, NoForwards)
    BY <1>1, <1>4, <2>1, BothChange, NoForwardsType, Zenon
  <2>3. CASE Return(c)
    <3>1. calls[c].pc \notin {"connected", "saveOn"}
      BY <1>8 DEF LibFailure, At
    <3> QED
      BY <1>0, <1>2, <1>4, <2>2, <2>3, <3>1, RulesGoOn, Zenon
  <2>4. CASE calls[c].pc = "unset" /\ Goto(c, "saveOff")
    <3>1. Only(c) /\ Fields(calls'[c], calls[c].kind, "saveOff", calls[c].peer, calls[c].perm, calls[c].grant, calls[c].removed)
      BY <1>3, <2>4, Zenon DEF Pcs
    <3>2. Shape(calls'[c])
      BY <1>1, <2>4, <3>1 DEF Fields, Shape, Where, PeerKinds
    <3>3. NetwOK' /\ LanOK(netw.rules)'
      BY <1>4, <2>2, Zenon DEF MeshOf, NetwOK, LanOK
    <3>4. IInv'
      BY <1>0, <3>1, <3>2, <3>3, NetwGoesOn, Zenon
    <3>5. ASSUME Alone(c) PROVE Alone(c)'
      <4>1. Safe(c)'
        BY <1>0, <3>1, <3>5, Zenon DEF Alone, Safe, Fields, local
      <4>2. Carried(c)'
        BY <1>0, <2>2, <2>4, <3>1, <3>5, Zenon DEF Alone, Carried, Fields, MeshOf, local
      <4> QED
        BY <2>1, <4>1, <4>2 DEF Alone
    <3> QED
      BY <3>4, <3>5
  <2> QED
    BY <1>8, <2>3, <2>4 DEF LibFailure, At
<1> QED
  BY <1>5, <1>6, <1>7, <1>8

\* Connecting to a peer.
LEMMA ConnectStepKeeps ==
    ASSUME IInv, NEW c \in Calls, ConnectPeer(c) \/ Connected(c)
    PROVE  IInv' /\ (Alone(c) => Alone(c)')
<1>types. TypeInv /\ ConfigOK /\ RegistryOK /\ NetwOK /\ CallsOK /\ LocalOK /\ MeshHasDevice /\ LanOK(netw.rules)
  BY DEF IInv, TypeInv
<1> USE <1>types
<1>1. calls[c] \in CallType /\ Shape(calls[c]) /\ netw \in NetwType
  BY ListType DEF NetwOK, CallType
<1>2. calls[c].peer \in Peers /\ calls[c].kind = "connect" /\ ~calls[c].removed
  BY <1>1, Zenon DEF ConnectPeer, Connected, At, Shape, Where, PeerKinds
<1>3. ASSUME Return(c) PROVE Only(c) /\ Shape(calls'[c]) /\ Plain(calls'[c])
  BY <1>3, ReturnFacts, IdleFacts, IdlePlain
<1>4. CASE ConnectPeer(c)
  <2>0. UNCHANGED <<config, registry, local>> /\ calls[c].pc = "connect"
    BY <1>4 DEF ConnectPeer, At
  <2>1. PICK vpn, last : VpnOf(netw', netw, vpn, last)
                         /\ \/ vpn = calls[c].peer /\ last = calls[c].peer /\ Goto(c, "connected")
                            \/ vpn = None /\ last = netw.lastServer /\ Return(c)
    <3>1. VpnOf([netw EXCEPT !.vpn = calls[c].peer, !.lastServer = calls[c].peer], netw, calls[c].peer, calls[c].peer)
      BY <1>1, <1>2, ConnectionChange, Zenon
    <3>2. VpnOf([netw EXCEPT !.vpn = None], netw, None, netw.lastServer)
      BY <1>1, ConnectionChange, Zenon
    <3>3. \/ netw' = [netw EXCEPT !.vpn = calls[c].peer, !.lastServer = calls[c].peer] /\ Goto(c, "connected")
          \/ netw' = [netw EXCEPT !.vpn = None] /\ Return(c)
      BY <1>4 DEF ConnectPeer
    <3> QED
      BY <3>1, <3>2, <3>3
  <2>2. NetwOK' /\ LanOK(netw.rules)' /\ netw'.isMeshnetSet = netw.isMeshnetSet /\ netw'.vpn = vpn /\ netw'.lastServer = last
    BY <2>1 DEF VpnOf, NetwOK, LanOK
  <2>3. CASE vpn = None /\ Return(c)
    <3>1. IInv'
      BY <1>3, <2>0, <2>2, <2>3, NetwGoesOn, Zenon
    <3>2. ASSUME Alone(c) PROVE Alone(c)'
      <4>1. Safe(c)' /\ Carried(c)'
        BY <1>3, <2>0, <2>2, <2>3, <3>2, PeersAssumption, Zenon DEF Alone, Safe, Carried, Plain, local
      <4>2. ASSUME Configured(c) PROVE Configured(c)'
        BY <1>3, <2>0, <2>2, <2>3, <4>2, Zenon DEF Configured, Plain
      <4> QED
        BY <3>2, <4>1, <4>2 DEF Alone
    <3> QED
      BY <3>1, <3>2
  <2>4. CASE vpn = calls[c].peer /\ last = calls[c].peer /\ Goto(c, "connected")
    <3>1. Only(c) /\ Fields(calls'[c], calls[c].kind, "connected", calls[c].peer, calls[c].perm, calls[c].grant, calls[c].removed)
      BY <2>4, GotoFacts, Zenon DEF Pcs
    <3>2. Shape(calls'[c])
      BY <1>2, <3>1 DEF Fields, Shape, Where, PeerKinds
    <3>3. IInv'
      BY <2>0, <2>2, <3>1, <3>2, NetwGoesOn, Zenon
    <3>4. ASSUME Alone(c) PROVE Alone(c)'
      <4>1. Safe(c)' /\ Carried(c)'
        BY <2>0, <2>2, <2>4, <3>1, <3>4, Zenon DEF Alone, Safe, Carried, Fields, local
      <4>2. ASSUME Configured(c) PROVE Configured(c)'
        BY <2>0, <2>2, <3>1, <4>2, Zenon DEF Configured, Fields
      <4> QED
        BY <3>4, <4>1, <4>2 DEF Alone
    <3> QED
      BY <3>3, <3>4
  <2> QED
    BY <2>1, <2>3, <2>4
<1>5. CASE Connected(c)
  <2>1. /\ calls[c].pc = "connected" /\ Return(c) /\ lastConnectedPeer' = calls[c].peer
        /\ UNCHANGED <<config, registry, netw, share, monitored, booting, crashed>>
    BY <1>5, Zenon DEF Connected, At
  <2>2. ConfigOK' /\ RegistryOK' /\ NetwOK' /\ LocalOK'
    BY <1>2, <2>1, Zenon DEF ConfigOK, RegistryOK, NetwOK, LocalOK
  <2>3. TypeInv'
    BY <1>3, <2>1, <2>2, TypeClose
  <2>4. IInv'
    BY <2>1, <2>3 DEF MeshHasDevice, LanOK, IInv
  <2>5. ASSUME Alone(c) PROVE Alone(c)'
    <3>1. Safe(c)'
      BY <1>3, <2>1, <2>5, Zenon DEF Alone, Safe, Plain
    <3>2. Carried(c)'
      BY <1>3, <2>1, <2>5, Zenon DEF Alone, Carried, Plain
    <3>3. ASSUME Configured(c) PROVE Configured(c)'
      BY <1>3, <2>1, <3>3, Zenon DEF Configured, Plain
    <3> QED
      BY <2>5, <3>1, <3>2, <3>3 DEF Alone
  <2> QED
    BY <2>4, <2>5
<1> QED
  BY <1>4, <1>5

\* The fileshare job: one peer of its list at a time.
LEMMA JobKeeps ==
    ASSUME IInv, NEW c \in Calls, Job(c)
    PROVE  IInv' /\ (Alone(c) => Alone(c)')
<1>types. TypeInv /\ ConfigOK /\ RegistryOK /\ NetwOK /\ CallsOK /\ LocalOK /\ MeshHasDevice /\ LanOK(netw.rules)
  BY DEF IInv, TypeInv
<1> USE <1>types
<1>1. calls[c] \in CallType /\ Shape(calls[c]) /\ netw \in NetwType /\ calls[c].list \in Lists
  BY ListType, Zenon DEF NetwOK, CallType
<1>2. /\ calls[c].pc = "job" /\ calls[c].kind = "job" /\ ~calls[c].removed
      /\ UNCHANGED <<config, registry, share, booting, lastConnectedPeer, crashed>>
  BY <1>1 DEF Job, At, Shape, Where
<1>3. ConfigOK' /\ RegistryOK'
  BY <1>2 DEF ConfigOK, RegistryOK
<1>4. CASE monitored' = calls[c].grant /\ Return(c) /\ UNCHANGED netw
  <2>1. Only(c) /\ Shape(calls'[c]) /\ Plain(calls'[c])
    BY <1>4, ReturnFacts, IdleFacts, IdlePlain, Zenon
  <2>2. NetwOK' /\ LocalOK'
    BY <1>1, <1>2, <1>4, Zenon DEF NetwOK, LocalOK, CallType
  <2>3. IInv'
    BY <1>2, <1>3, <1>4, <2>1, <2>2, TypeClose, Zenon DEF MeshHasDevice, LanOK, IInv
  <2> QED
    BY <1>2, <1>4, <2>1, <2>3, PlainAlone, Zenon
<1>5. ASSUME NEW p \in Peers, UNCHANGED monitored,
             calls' = [calls EXCEPT ![c].list[p].listed = FALSE],
             netw' = IF calls[c].grant THEN allowFileshare(netw, p, calls[c].list[p])
                     ELSE BlockFileshare(netw, p, calls[c].list[p])
      PROVE  IInv' /\ (Alone(c) => Alone(c)')
  <2> DEFINE m == calls[c].list[p]
             n == [m EXCEPT !.listed = FALSE]
             list == [calls[c].list EXCEPT ![p] = n]
             e == [calls[c] EXCEPT !.list = list]
  <2>1. m \in Machine
    BY <1>1 DEF Lists
  <2>2. n \in Machine
    BY <2>1, Zenon DEF Machine
  <2>3. list \in Lists
    BY <1>1, <2>2 DEF Lists
  <2>4. calls' = [calls EXCEPT ![c] = e]
    <3>1. calls[c].list = [x \in Peers |-> calls[c].list[x]]
      BY <1>1 DEF Lists
    <3> QED
      BY <1>1, <1>5, <3>1 DEF CallsOK, CallType
  <2> HIDE DEF list
  <2>5. e \in CallType
    BY <1>1, <2>3 DEF CallType
  <2>6. Fields(e, calls[c].kind, calls[c].pc, calls[c].peer, calls[c].perm, calls[c].grant, calls[c].removed)
    BY <1>1 DEF CallType, Fields
  <2> HIDE DEF e
  <2>7. Only(c) /\ calls'[c] = e
    BY <2>4, <2>5, OnlyFacts, Zenon
  <2>8. Shape(calls'[c]) /\ Plain(calls'[c])
    BY <1>1, <1>2, <2>6, <2>7, Zenon DEF Fields, Shape, Plain
  <2> HIDE DEF m
  <2>9. PICK rules : LanOK(rules) /\ RulesOf(netw', netw, rules)
    <3>1. netw' \in {allowFileshare(netw, p, m), BlockFileshare(netw, p, m)}
      BY <1>5 DEF m
    <3>2. RulesOf(allowFileshare(netw, p, m), netw, netw.rules \cup {Name("fileshare", p, m)})
      BY <1>1, <2>1, FileshareFacts, Zenon
    <3>3. RulesOf(BlockFileshare(netw, p, m), netw, netw.rules \ {Name("fileshare", p, m)})
      BY <1>1, <2>1, FileshareFacts, Zenon
    <3>4. LanOK(netw.rules \cup {Name("fileshare", p, m)}) /\ LanOK(netw.rules \ {Name("fileshare", p, m)})
      BY <2>1, IncomingLan, Zenon
    <3> QED
      BY <3>1, <3>2, <3>3, <3>4, Zenon
  <2>10. MeshOf(netw', netw, netw.isMeshnetSet, rules, netw.exit)
    BY <2>9 DEF RulesOf, MeshOf
  <2> QED
    BY <1>2, <1>5, <2>7, <2>8, <2>9, <2>10, RulesGoOn, Zenon DEF local
<1> QED
  BY <1>4, <1>5 DEF Job

\* Turning meshnet on and off in the configuration.
LEMMA SaveKeeps ==
    ASSUME IInv, NEW c \in Calls, SaveOff(c) \/ SaveOn(c) \/ SavePostQuantum(c)
    PROVE  IInv' /\ (Alone(c) => Alone(c)')
<1>types. TypeInv /\ ConfigOK /\ RegistryOK /\ NetwOK /\ CallsOK /\ LocalOK /\ MeshHasDevice /\ LanOK(netw.rules)
  BY DEF IInv, TypeInv
<1> USE <1>types
<1>1. calls[c] \in CallType /\ Shape(calls[c]) /\ UNCHANGED <<registry, netw, share, monitored, booting, lastConnectedPeer>>
  BY ListType DEF SaveOff, SaveOn, SavePostQuantum, local
<1>2. RegistryOK' /\ NetwOK' /\ LanOK(netw.rules)'
  BY <1>1 DEF RegistryOK, NetwOK, LanOK
<1>3. ASSUME Return(c) PROVE Only(c) /\ Shape(calls'[c]) /\ Plain(calls'[c])
  BY <1>3, ReturnFacts, IdleFacts, IdlePlain
<1>4. CASE SaveOff(c)
  <2>1. calls[c].pc = "saveOff" /\ Return(c) /\ UNCHANGED local
    BY <1>4 DEF SaveOff, At
  <2>2. calls[c].removed \/ calls[c].kind \in {"disable", "logout", "defaults"}
    BY <1>1, <2>1 DEF Shape, Where
  <2>3. ConfigOK' /\ config'.mesh = FALSE
    <3>1. CASE calls[c].removed
      BY <1>4, <3>1, Zenon DEF SaveOff, ConfigOK
    <3>2. CASE ~calls[c].removed /\ calls[c].kind = "disable"
      BY <1>4, <3>2, Zenon DEF SaveOff, ConfigOK, Kind
    <3>3. CASE ~calls[c].removed /\ calls[c].kind = "logout"
      BY <1>4, <3>3, Zenon DEF SaveOff, ConfigOK, Kind
    <3>4. CASE ~calls[c].removed /\ calls[c].kind = "defaults"
      BY <1>4, <3>4 DEF SaveOff, ConfigOK, Kind
    <3> QED
      BY <2>2, <3>1, <3>2, <3>3, <3>4, Zenon
  <2>4. LocalOK'
    BY <2>1 DEF LocalOK, local
  <2>5. IInv'
    BY <1>2, <1>3, <2>1, <2>3, <2>4, TypeClose, Zenon DEF MeshHasDevice, IInv
  <2>6. ASSUME Alone(c) PROVE Alone(c)'
    <3>1. Safe(c)' /\ Carried(c)'
      BY <1>1, <1>3, <2>1, <2>6, Zenon DEF Alone, Safe, Carried, Plain, local
    <3>2. ASSUME Configured(c) PROVE Configured(c)'
      BY <1>1, <1>3, <2>1, <2>3, <3>2, Zenon DEF Configured, Plain
    <3> QED
      BY <2>6, <3>1, <3>2 DEF Alone
  <2> QED
    BY <2>5, <2>6
<1>5. CASE SaveOn(c)
  <2>1. /\ calls[c].pc = "saveOn" /\ ~calls[c].removed /\ calls[c].kind = "enable" /\ Goto(c, "share")
        /\ crashed' = ~config.device /\ config' = IF config.device THEN [config EXCEPT !.mesh = TRUE] ELSE config
    BY <1>1, <1>5 DEF SaveOn, At, Shape, Where
  <2>2. Only(c) /\ Fields(calls'[c], calls[c].kind, "share", calls[c].peer, calls[c].perm, calls[c].grant, calls[c].removed)
    BY <2>1, GotoFacts DEF Pcs
  <2>3. Shape(calls'[c])
    BY <2>1, <2>2 DEF Fields, Shape, Where, PeerKinds
  <2>4. ConfigOK' /\ config'.device = config.device /\ config'.pq = config.pq /\ (config.device => config'.mesh = TRUE)
        /\ (~config.device => config'.mesh = config.mesh)
    BY <2>1, Zenon DEF ConfigOK
  <2>5. LocalOK'
    BY <1>1, <2>1 DEF LocalOK, ConfigOK
  <2>6. IInv'
    BY <1>2, <2>2, <2>3, <2>4, <2>5, TypeClose, Zenon DEF MeshHasDevice, IInv
  <2>7. ASSUME Alone(c) PROVE Alone(c)'
    <3>1. config.device = TRUE
      BY <2>1, <2>7 DEF Alone, Safe, ConfigOK
    <3>2. Safe(c)' /\ Carried(c)'
      BY <1>1, <2>1, <2>2, <2>7, <3>1, Zenon DEF Alone, Safe, Carried, Fields
    <3>3. ASSUME Configured(c) PROVE Configured(c)'
      BY <1>1, <2>1, <2>2, <2>4, <3>1, <3>3 DEF Configured, Fields
    <3> QED
      BY <2>7, <3>2, <3>3 DEF Alone
  <2> QED
    BY <2>6, <2>7
<1>6. CASE SavePostQuantum(c)
  <2>1. calls[c].pc = "savePq" /\ Return(c) /\ UNCHANGED local /\ config' = [config EXCEPT !.pq = calls[c].grant]
    BY <1>6 DEF SavePostQuantum, At
  <2>2. calls[c].grant \in BOOLEAN
    BY <1>1, Zenon DEF CallType
  <2>3. ConfigOK' /\ config'.device = config.device /\ config'.mesh = config.mesh /\ config'.pq = calls[c].grant
    BY <2>1, <2>2 DEF ConfigOK
  <2>4. LocalOK'
    BY <2>1 DEF LocalOK, local
  <2>5. IInv'
    BY <1>2, <1>3, <2>1, <2>3, <2>4, TypeClose DEF MeshHasDevice, IInv
  <2>6. ASSUME Alone(c) PROVE Alone(c)'
    <3>1. Safe(c)' /\ Carried(c)'
      BY <1>1, <1>3, <2>1, <2>6 DEF Alone, Safe, Carried, Plain, local
    <3>2. ASSUME Configured(c) PROVE Configured(c)'
      BY <1>1, <1>3, <2>1, <2>3, <3>2 DEF Configured, Plain
    <3> QED
      BY <2>6, <3>1, <3>2 DEF Alone
  <2> QED
    BY <2>5, <2>6
<1> QED
  BY <1>4, <1>5, <1>6

\* The other calls of the configuration and of norduser.
LEMMA LocalStepKeeps ==
    ASSUME IInv, NEW c \in Calls,
           Unauthorized(c) \/ SaveName(c) \/ SaveDevice(c) \/ StartFileshare(c) \/ StopFileshare(c)
    PROVE  IInv' /\ (Alone(c) => Alone(c)')
<1>types. TypeInv /\ ConfigOK /\ RegistryOK /\ NetwOK /\ CallsOK /\ LocalOK /\ MeshHasDevice /\ LanOK(netw.rules)
  BY DEF IInv, TypeInv
<1> USE <1>types
<1>1. calls[c] \in CallType /\ Shape(calls[c]) /\ UNCHANGED <<netw, monitored, booting, lastConnectedPeer>>
  BY ListType DEF Unauthorized, SaveName, SaveDevice, StartFileshare, StopFileshare, local
<1>2. NetwOK' /\ LanOK(netw.rules)'
  BY <1>1 DEF NetwOK, LanOK
<1>3. ASSUME Return(c) PROVE Only(c) /\ Shape(calls'[c]) /\ Plain(calls'[c])
  BY <1>3, ReturnFacts, IdleFacts, IdlePlain
<1>4. ASSUME NEW pc \in Pcs, Goto(c, pc)
      PROVE  Only(c) /\ Fields(calls'[c], calls[c].kind, pc, calls[c].peer, calls[c].perm, calls[c].grant, calls[c].removed)
  BY <1>4, GotoFacts, Zenon
<1>5. CASE Unauthorized(c)
  <2>1. /\ calls[c].pc \notin {"connected", "saveOn"} /\ Return(c) /\ UNCHANGED <<registry, local>>
        /\ config' = config \/ config' = [config EXCEPT !.user = FALSE]
    BY <1>5 DEF Unauthorized, At
  <2>2. ConfigOK' /\ config'.mesh = config.mesh /\ config'.pq = config.pq /\ config'.device = config.device
    BY <2>1, Zenon DEF ConfigOK
  <2>3. RegistryOK' /\ LocalOK'
    BY <2>1 DEF RegistryOK, LocalOK, local
  <2>4. IInv'
    BY <1>2, <1>3, <2>1, <2>2, <2>3, TypeClose DEF MeshHasDevice, IInv
  <2> QED
    BY <1>1, <1>3, <2>1, <2>2, <2>4, PlainAlone DEF local
<1>6. CASE SaveName(c)
  <2>1. /\ calls[c].pc = "saveName" /\ ~calls[c].removed /\ calls[c].kind = "machineNickname" /\ Goto(c, "map")
        /\ crashed' = ~config.device /\ UNCHANGED <<config, registry, share>>
    BY <1>1, <1>6 DEF SaveName, At, Shape, Where
  <2>2. Only(c) /\ Fields(calls'[c], calls[c].kind, "map", calls[c].peer, calls[c].perm, calls[c].grant, calls[c].removed)
    BY <1>4, <2>1, Zenon DEF Pcs
  <2>3. Shape(calls'[c]) /\ Plain(calls'[c])
    BY <2>1, <2>2 DEF Fields, Shape, Where, PeerKinds, Plain
  <2>4. ConfigOK' /\ RegistryOK' /\ LocalOK'
    BY <1>1, <2>1, Zenon DEF ConfigOK, RegistryOK, LocalOK
  <2>5. IInv'
    BY <1>2, <2>1, <2>2, <2>3, <2>4, TypeClose, Zenon DEF MeshHasDevice, IInv
  <2>6. ASSUME Alone(c) PROVE Alone(c)'
    <3>1. crashed' = crashed
      BY <2>1, <2>6, Zenon DEF Alone, Safe, ConfigOK, LocalOK
    <3> QED
      BY <1>1, <2>1, <2>3, <2>6, <3>1, PlainAlone, Zenon
  <2> QED
    BY <2>5, <2>6
<1>7. CASE SaveDevice(c)
  <2>1. /\ calls[c].pc = "saveDevice" /\ ~calls[c].removed /\ calls[c].kind \in Where("refresh") /\ Goto(c, "refresh")
        /\ config' = [config EXCEPT !.device = TRUE] /\ UNCHANGED <<registry, local>>
    BY <1>1, <1>7 DEF SaveDevice, At, Shape, Where
  <2>2. Only(c) /\ Fields(calls'[c], calls[c].kind, "refresh", calls[c].peer, calls[c].perm, calls[c].grant, calls[c].removed)
    BY <1>4, <2>1, Zenon DEF Pcs
  <2>3. Shape(calls'[c]) /\ Plain(calls'[c])
    BY <1>1, <2>1, <2>2 DEF Fields, Shape, Plain
  <2>4. ConfigOK' /\ config'.mesh = config.mesh /\ config'.pq = config.pq /\ config'.device = TRUE
    BY <2>1, Zenon DEF ConfigOK
  <2>5. RegistryOK' /\ LocalOK'
    BY <2>1 DEF RegistryOK, LocalOK, local
  <2>6. IInv'
    BY <1>2, <2>2, <2>3, <2>4, <2>5, TypeClose, Zenon DEF MeshHasDevice, IInv
  <2> QED
    BY <1>1, <2>1, <2>3, <2>4, <2>6, PlainAlone DEF local
<1>8. CASE StartFileshare(c)
  <2>1. calls[c].pc = "share" /\ Return(c) /\ UNCHANGED crashed /\ (Asked \/ UNCHANGED <<config, registry>>) /\ share' \in BOOLEAN
    <3>1. share \in BOOLEAN /\ (share \/ config.mesh) \in BOOLEAN
      BY DEF LocalOK, ConfigOK
    <3> QED
      BY <1>8, <3>1, Zenon DEF StartFileshare, At
  <2>2. LocalOK'
    BY <1>1, <2>1, Zenon DEF LocalOK
  <2>3. CASE Asked
    <3>1. IInv' /\ config'.mesh = config.mesh /\ config'.pq = config.pq
      BY <1>1, <1>3, <2>1, <2>2, <2>3, Registers, Zenon DEF Asked
    <3> QED
      BY <1>1, <1>3, <2>1, <3>1, PlainAlone, Zenon
  <2>4. CASE UNCHANGED <<config, registry>>
    <3>1. ConfigOK' /\ RegistryOK'
      BY <2>4 DEF ConfigOK, RegistryOK
    <3>2. IInv'
      BY <1>2, <1>3, <2>1, <2>2, <2>4, <3>1, TypeClose, Zenon DEF MeshHasDevice, IInv
    <3> QED
      BY <1>1, <1>3, <2>1, <2>4, <3>2, PlainAlone, Zenon
  <2> QED
    BY <2>1, <2>3, <2>4, Zenon
<1>9. CASE StopFileshare(c)
  <2> DEFINE pc == IF calls[c].removed THEN "unset" ELSE "stop"
  <2>1. calls[c].pc = "unshare" /\ Goto(c, pc) /\ pc \in Pcs /\ share' = FALSE /\ UNCHANGED <<config, registry, crashed>>
    BY <1>9, Zenon DEF StopFileshare, At, Pcs
  <2>2. Only(c) /\ Fields(calls'[c], calls[c].kind, pc, calls[c].peer, calls[c].perm, calls[c].grant, calls[c].removed)
    BY <1>4, <2>1, Zenon
  <2>3. Shape(calls'[c])
    BY <1>1, <2>1, <2>2 DEF Fields, Shape, Where, PeerKinds
  <2>4. ConfigOK' /\ RegistryOK' /\ LocalOK'
    BY <1>1, <2>1, Zenon DEF ConfigOK, RegistryOK, LocalOK
  <2>5. IInv'
    BY <1>2, <2>1, <2>2, <2>3, <2>4, TypeClose, Zenon DEF MeshHasDevice, IInv
  <2>6. ASSUME Alone(c) PROVE Alone(c)'
    <3>1. Safe(c)' /\ Carried(c)'
      BY <1>1, <2>1, <2>2, <2>6, Zenon DEF Alone, Safe, Carried, Fields
    <3>2. ASSUME Configured(c) PROVE Configured(c)'
      BY <1>1, <2>1, <2>2, <3>2, Zenon DEF Configured, Fields
    <3> QED
      BY <2>6, <3>1, <3>2 DEF Alone
  <2> QED
    BY <2>5, <2>6
<1> QED
  BY <1>5, <1>6, <1>7, <1>8, <1>9

\* The configuration is loaded.
LEMMA LoadKeeps ==
    ASSUME IInv, NEW c \in Calls, Load(c)
    PROVE  IInv' /\ (Alone(c) => Alone(c)')
<1>types. TypeInv /\ ConfigOK /\ RegistryOK /\ NetwOK /\ CallsOK /\ LocalOK /\ MeshHasDevice /\ LanOK(netw.rules)
  BY DEF IInv, TypeInv
<1> USE <1>types
<1>1. calls[c] \in CallType /\ Shape(calls[c]) /\ UNCHANGED <<config, registry, netw, share, monitored, booting, lastConnectedPeer>>
  BY ListType DEF Load
<1>2. calls[c].pc = "load" /\ ~calls[c].removed /\ calls[c].kind \in Where("load")
  BY <1>1 DEF Load, At, Shape
<1>3. ConfigOK' /\ RegistryOK' /\ NetwOK' /\ MeshHasDevice' /\ LanOK(netw.rules)'
  BY <1>1 DEF ConfigOK, RegistryOK, NetwOK, MeshHasDevice, LanOK
<1>4. CASE Return(c) /\ UNCHANGED crashed
  <2>1. Only(c) /\ Shape(calls'[c]) /\ Plain(calls'[c])
    BY <1>4, ReturnFacts, IdleFacts, IdlePlain
  <2>2. LocalOK'
    BY <1>1, <1>4 DEF LocalOK
  <2>3. IInv'
    BY <1>3, <2>1, <2>2, TypeClose, Zenon DEF IInv
  <2> QED
    BY <1>1, <1>2, <1>4, <2>1, <2>3, PlainAlone, Zenon
<1>5. ASSUME NEW pc \in {"map", "accept", "invite", "list"}, Goto(c, pc), crashed' = ~config.device,
             calls[c].kind \in Where(pc), calls[c].kind = "enable" => ~config.mesh /\ ~config.pq
      PROVE  IInv' /\ (Alone(c) => Alone(c)')
  <2>1. Only(c) /\ Fields(calls'[c], calls[c].kind, pc, calls[c].peer, calls[c].perm, calls[c].grant, calls[c].removed)
    BY <1>5, GotoFacts, Zenon DEF Pcs
  <2>2. Shape(calls'[c])
    BY <1>1, <1>2, <1>5, <2>1, Zenon DEF Fields, Shape
  <2>3. LocalOK'
    BY <1>1, <1>5, Zenon DEF LocalOK, ConfigOK
  <2>4. IInv'
    BY <1>3, <2>1, <2>2, <2>3, TypeClose, Zenon DEF IInv
  <2>5. ASSUME Alone(c) PROVE Alone(c)'
    <3>1. Safe(c)'
      BY <1>1, <1>2, <1>5, <2>1, <2>5, Zenon DEF Alone, Safe, Fields, ConfigOK
    <3>2. Carried(c)'
      BY <1>1, <1>2, <2>1, <2>5, Zenon DEF Alone, Carried, Fields
    <3>3. ASSUME Configured(c) PROVE Configured(c)'
      BY <1>1, <1>2, <1>5, <2>1, <3>3 DEF Configured, Fields, Where
    <3> QED
      BY <2>5, <3>1, <3>2, <3>3 DEF Alone
  <2> QED
    BY <2>4, <2>5
<1>6. \/ Return(c) /\ UNCHANGED crashed
      \/ /\ crashed' = ~config.device /\ (calls[c].kind = "enable" => ~config.mesh /\ ~config.pq)
         /\ \E pc \in {"map", "accept", "invite", "list"} : Goto(c, pc) /\ calls[c].kind \in Where(pc)
  <2>1. CASE calls[c].kind = "enable"
    BY <2>1 DEF Load, Kind, Where
  <2>2. CASE calls[c].kind = "accept"
    BY <2>2 DEF Load, Kind, Where
  <2>3. CASE calls[c].kind = "invitation"
    BY <2>3 DEF Load, Kind, Where
  <2>4. CASE calls[c].kind \in {"permission", "auto", "remove", "transfer", "connect"}
    BY <2>4 DEF Load, Kind, Where
  <2> QED
    BY <1>2, <2>1, <2>2, <2>3, <2>4 DEF Where
<1> QED
  BY <1>4, <1>5, <1>6, Zenon

\* Every step of a handler.
LEMMA StepKeeps ==
    ASSUME IInv, NEW c \in Calls, Step(c)
    PROVE  IInv' /\ (Alone(c) => Alone(c)')
<1>1. CASE NotifyOn(c)
  BY <1>1, LoadedRequestKeeps DEF NotifyOn, At, Where
<1> QED
  BY <1>1, LoadKeeps, RegistryStepKeeps, PermissionStepKeeps, MeshStepKeeps, ConnectStepKeeps, JobKeeps,
     SaveKeeps, LocalStepKeeps, Zenon DEF Step

\* What happens outside the server, at any time of any handler.
LEMMA EnvironmentKeeps ==
    ASSUME IInv, Environment
    PROVE  IInv' /\ \A c \in Calls : Alone(c) => Alone(c)'
<1>types. TypeInv /\ ConfigOK /\ RegistryOK /\ NetwOK /\ CallsOK /\ LocalOK /\ MeshHasDevice /\ LanOK(netw.rules)
  BY DEF IInv, TypeInv
<1> USE <1>types
<1>1. ASSUME UNCHANGED <<calls, config, netw, local>>, RegistryOK'
      PROVE  IInv' /\ \A c \in Calls : Alone(c) => Alone(c)'
  <2>1. ConfigOK' /\ NetwOK' /\ LocalOK' /\ CallsOK' /\ LanOK(netw.rules)' /\ MeshHasDevice'
    BY <1>1 DEF ConfigOK, NetwOK, LocalOK, CallsOK, local, LanOK, MeshHasDevice
  <2>2. \A c \in Calls : Shape(calls[c])'
    BY <1>1, Zenon DEF Shape, Where, TypeInv
  <2>3. ASSUME NEW c \in Calls, Alone(c) PROVE Alone(c)'
    BY <1>1, <2>3, Zenon DEF Alone, Safe, Carried, Configured, local
  <2> QED
    BY <1>1, <2>1, <2>2, <2>3 DEF IInv, TypeInv
<1>2. CASE PeerJoins
  <2>1. PICK p \in Peers, perm \in SUBSET Grantable :
            registry' = [registry EXCEPT !.peer[p].listed = TRUE, !.peer[p].perm = perm]
    BY <1>2, Zenon DEF PeerJoins
  <2> DEFINE m == [registry.peer[p] EXCEPT !.listed = TRUE, !.perm = perm]
  <2>2. registry.peer \in Lists /\ registry.peer[p] \in Machine
    BY DEF RegistryOK, Lists
  <2>3. m \in Machine
    BY <2>2, GrantableAssumption, Zenon DEF Machine
  <2>4. registry' = [registry EXCEPT !.peer[p] = m]
    BY <2>1, <2>2, Zenon DEF RegistryOK, Lists
  <2> HIDE DEF m
  <2> QED
    BY <1>1, <1>2, <2>3, <2>4, PeerChanges, Zenon DEF PeerJoins
<1>3. CASE PeerGetsAddress
  <2>1. PICK p \in Offline : registry' = [registry EXCEPT !.peer[p].addr = TRUE]
    BY <1>3, Zenon DEF PeerGetsAddress
  <2>2. registry.peer \in Lists
    BY DEF RegistryOK
  <2>3. RegistryOK'
    <3>1. CASE p \in Peers
      <4> DEFINE m == [registry.peer[p] EXCEPT !.addr = TRUE]
      <4>1. registry.peer[p] \in Machine
        BY <2>2, <3>1 DEF Lists
      <4>2. m \in Machine
        BY <4>1, Zenon DEF Machine
      <4>3. registry' = [registry EXCEPT !.peer[p] = m]
        BY <2>1, <2>2, <3>1 DEF RegistryOK, Lists
      <4> HIDE DEF m
      <4> QED
        BY <3>1, <4>2, <4>3, PeerChanges
    <3>2. CASE p \notin Peers
      BY <2>1, <2>2, <3>2 DEF RegistryOK, Lists
    <3> QED
      BY <3>1, <3>2
  <2> QED
    BY <1>1, <1>3, <2>3 DEF PeerGetsAddress
<1>4. CASE MachineRemoved
  <2>1. RegistryOK'
    BY <1>4, Zenon DEF MachineRemoved, RegistryOK
  <2> QED
    BY <1>1, <1>4, <2>1 DEF MachineRemoved
<1>5. ASSUME UNCHANGED <<calls, netw, lastConnectedPeer, crashed>>, ConfigOK', RegistryOK', LocalOK',
             config'.mesh = config.mesh, config'.pq = config.pq, config.device => config'.device
      PROVE  IInv' /\ \A c \in Calls : Alone(c) => Alone(c)'
  <2>1. NetwOK' /\ CallsOK' /\ LanOK(netw.rules)' /\ MeshHasDevice'
    BY <1>5, Zenon DEF NetwOK, CallsOK, LanOK, MeshHasDevice
  <2>2. \A c \in Calls : Shape(calls[c])'
    BY <1>5, Zenon DEF Shape, Where, TypeInv
  <2>3. ASSUME NEW c \in Calls, Alone(c) PROVE Alone(c)'
    <3>1. Safe(c)' /\ Carried(c)'
      BY <1>5, <2>3, Zenon DEF Alone, Safe, Carried
    <3>2. ASSUME Configured(c) PROVE Configured(c)'
      BY <1>5, <3>2, Zenon DEF Configured
    <3> QED
      BY <2>3, <3>1, <3>2 DEF Alone
  <2> QED
    BY <1>5, <2>1, <2>2, <2>3, Zenon DEF IInv, TypeInv
<1>6. CASE Login
  <2>1. ConfigOK' /\ config'.mesh = config.mesh /\ config'.pq = config.pq /\ config'.device = config.device
    BY <1>6, Zenon DEF Login, ConfigOK
  <2>2. RegistryOK' /\ LocalOK' /\ UNCHANGED <<calls, netw, lastConnectedPeer, crashed>>
    BY <1>6 DEF Login, RegistryOK, LocalOK, local
  <2> QED
    BY <1>5, <2>1, <2>2
<1>7. CASE IsEnabled
  <2>1. ConfigOK' /\ RegistryOK' /\ config'.mesh = config.mesh /\ config'.pq = config.pq /\ config'.device
    BY <1>7, RegisterFacts, Zenon DEF IsEnabled, Asked
  <2>2. LocalOK' /\ UNCHANGED <<calls, netw, lastConnectedPeer, crashed>>
    BY <1>7 DEF IsEnabled, LocalOK, local
  <2> QED
    BY <1>5, <2>1, <2>2
<1>8. CASE FileshareExits \/ StartAutoMeshnetEnds
  <2>1. LocalOK' /\ UNCHANGED <<calls, config, registry, netw, lastConnectedPeer, crashed>>
    BY <1>8, Zenon DEF FileshareExits, StartAutoMeshnetEnds, LocalOK
  <2>2. ConfigOK' /\ RegistryOK'
    BY <2>1 DEF ConfigOK, RegistryOK
  <2> QED
    BY <1>5, <2>1, <2>2
<1>9. ASSUME UNCHANGED <<calls, config, registry, crashed>>, NetwOK', LocalOK', LanOK(netw.rules)',
             netw'.vpn \notin Peers, netw'.isMeshnetSet => netw.isMeshnetSet, \A c \in Calls : calls[c].pc # "connected"
      PROVE  IInv' /\ \A c \in Calls : Alone(c) => Alone(c)'
  <2>1. ConfigOK' /\ RegistryOK' /\ CallsOK' /\ MeshHasDevice'
    BY <1>9 DEF ConfigOK, RegistryOK, CallsOK, MeshHasDevice
  <2>2. \A c \in Calls : Shape(calls[c])'
    BY <1>9, Zenon DEF Shape, Where, TypeInv
  <2>3. ASSUME NEW c \in Calls, Alone(c) PROVE Alone(c)'
    <3>1. Safe(c)' /\ Carried(c)'
      BY <1>9, <2>3, Zenon DEF Alone, Safe, Carried
    <3>2. ASSUME Configured(c) PROVE Configured(c)'
      BY <1>9, <3>2, Zenon DEF Configured
    <3> QED
      BY <2>3, <3>1, <3>2 DEF Alone
  <2> QED
    BY <1>9, <2>1, <2>2, <2>3, Zenon DEF IInv, TypeInv
<1>10. CASE ConnectServer
  <2>1. PICK vpn, last : vpn \in {"server", None} /\ VpnOf(netw', netw, vpn, last)
    <3>1. VpnOf([netw EXCEPT !.vpn = "server", !.lastServer = "server"], netw, "server", "server")
      BY ConnectionChange, Zenon DEF NetwOK
    <3>2. VpnOf([netw EXCEPT !.vpn = None], netw, None, netw.lastServer)
      BY ConnectionChange, Zenon DEF NetwOK
    <3> QED
      BY <1>10, <3>1, <3>2 DEF ConnectServer
  <2>2. NetwOK' /\ LanOK(netw.rules)' /\ netw'.vpn \notin Peers /\ netw'.isMeshnetSet = netw.isMeshnetSet
    BY <2>1, PeersAssumption DEF VpnOf, NetwOK, LanOK
  <2>3. LocalOK' /\ UNCHANGED <<calls, config, registry, crashed>>
    BY <1>10 DEF ConnectServer, LocalOK, local
  <2>4. ASSUME NEW c \in Calls PROVE calls[c].pc # "connected"
    <3>1. Shape(calls[c]) /\ calls[c].kind # "connect"
      BY <1>10 DEF ConnectServer, Kind, TypeInv
    <3> QED
      BY <3>1, Zenon DEF Shape, Where
  <2> QED
    BY <1>9, <2>2, <2>3, <2>4, Zenon
<1>11. CASE Restart
  <2>1. netw' = NewNetworker /\ NewNetworker \in NetwType /\ NewNetworker.rules = {} /\ NewNetworker.vpn = None
        /\ NewNetworker.isMeshnetSet = FALSE
    BY <1>11, NoForwardsType, Zenon DEF Restart, NewNetworker, NetwType
  <2>2. NetwOK' /\ LanOK(netw.rules)' /\ netw'.vpn \notin Peers /\ netw'.isMeshnetSet = FALSE
    BY <2>1, PeersAssumption DEF NetwOK, LanOK
  <2>3. LocalOK' /\ UNCHANGED <<calls, config, registry, crashed>>
    BY <1>11, Zenon DEF Restart, LocalOK, ConfigOK
  <2>4. \A c \in Calls : calls[c].pc # "connected"
    BY <1>11, IdleFacts, Zenon DEF Restart, Fields
  <2> QED
    BY <1>9, <2>2, <2>3, <2>4, Zenon
<1> QED
  BY <1>2, <1>3, <1>4, <1>6, <1>7, <1>8, <1>10, <1>11 DEF Environment

-----------------------------------------------------------------------------
(* The theorems.                                                            *)

\* The invariants hold when the daemon starts.
LEMMA InitKeeps == Init => IInv /\ \A c \in Calls : Alone(c)
<1> SUFFICES ASSUME Init PROVE IInv /\ \A c \in Calls : Alone(c)
  OBVIOUS
<1>1. ConfigOK /\ config.mesh = FALSE /\ config.pq = FALSE
  BY Zenon DEF Init, ConfigOK
<1>2. RegistryOK
  <2>1. PICK peers \in SUBSET Peers :
            registry = [registered |-> FALSE,
                        peer |-> [p \in Peers |-> [listed |-> p \in peers, addr |-> p \notin Offline, perm |-> {}]]]
    BY Zenon DEF Init
  <2>2. \A p \in Peers : [listed |-> p \in peers, addr |-> p \notin Offline, perm |-> {}] \in Machine
    BY DEF Machine
  <2>3. [p \in Peers |-> [listed |-> p \in peers, addr |-> p \notin Offline, perm |-> {}]] \in Lists
    BY <2>2, Zenon DEF Lists
  <2> QED
    BY <2>1, <2>3, Zenon DEF RegistryOK
<1>3. netw = NewNetworker /\ NewNetworker \in NetwType /\ NewNetworker.rules = {} /\ NewNetworker.vpn = None
      /\ NewNetworker.isMeshnetSet = FALSE
  BY NoForwardsType, Zenon DEF Init, NewNetworker, NetwType
<1>4. NetwOK /\ LanOK(netw.rules)
  BY <1>3 DEF NetwOK, LanOK
<1>5. CallsOK /\ \A c \in Calls : calls[c] = Idle
  BY IdleFacts, Zenon DEF Init, CallsOK
<1>6. LocalOK /\ crashed = FALSE
  BY Zenon DEF Init, LocalOK
<1>7. IInv
  BY <1>1, <1>2, <1>4, <1>5, <1>6, IdleFacts DEF IInv, TypeInv, MeshHasDevice
<1>8. ASSUME NEW c \in Calls PROVE Alone(c)
  BY <1>1, <1>3, <1>5, <1>6, IdleFacts, PeersAssumption, Zenon DEF Alone, Safe, Carried, Configured, Fields
<1> QED
  BY <1>7, <1>8

\* A step that changes nothing keeps them.
LEMMA StutterKeeps ==
    ASSUME IInv, UNCHANGED vars
    PROVE  IInv' /\ \A c \in Calls : Alone(c) => Alone(c)'
<1>1. IInv'
  <2>1. ConfigOK' /\ RegistryOK' /\ NetwOK' /\ CallsOK' /\ LocalOK' /\ MeshHasDevice' /\ LanOK(netw.rules)'
    BY DEF vars, IInv, TypeInv, ConfigOK, RegistryOK, NetwOK, CallsOK, LocalOK, MeshHasDevice, LanOK
  <2>2. \A c \in Calls : Shape(calls[c])'
    BY Zenon DEF vars, IInv, TypeInv, Shape, Where
  <2> QED
    BY <2>1, <2>2, Zenon DEF IInv, TypeInv
<1>2. ASSUME NEW c \in Calls, Alone(c)
      PROVE  Alone(c)'
  <2>1. Safe(c)'
    BY <1>2 DEF vars, Alone, Safe
  <2>2. Carried(c)'
    BY <1>2 DEF vars, Alone, Carried
  <2>3. "lib" \notin Faulty => Configured(c)'
    BY <1>2 DEF vars, Alone, Configured
  <2> QED
    BY <2>1, <2>2, <2>3 DEF Alone
<1> QED
  BY <1>1, <1>2

\* Every step, of whichever handler, keeps the invariant of interleaved handlers.
LEMMA NextKeeps ==
    ASSUME IInv, [Next]_vars
    PROVE  IInv'
BY HandlerKeeps, StepKeeps, EnvironmentKeeps, StutterKeeps DEF Next

\* It therefore holds in every reachable state.
LEMMA Invariant == Spec => []IInv
<1>1. Init => IInv
  BY InitKeeps
<1>2. IInv /\ [Next]_vars => IInv'
  BY NextKeeps
<1> QED
  BY <1>1, <1>2, PTL DEF Spec

\* However many handlers interleave, whatever fails and wherever this machine is
\* removed, meshnet is on in the configuration only with a saved device.
THEOREM DeviceWhileOn == Spec => []MeshHasDevice
<1>1. IInv => MeshHasDevice
  BY DEF IInv
<1> QED
  BY <1>1, Invariant, PTL

\* Nor is a block-lan rule ever tracked without the allow rule it restricts, which
\* is all that allowIncoming looks for.
THEOREM LanBlockIsPaired == Spec => []LanRuleWithAllow
<1>1. IInv => LanRuleWithAllow
  BY DEF IInv, LanOK, LanRuleWithAllow
<1> QED
  BY <1>1, Invariant, PTL

\* Requests come one at a time, and the fileshare job does not run: it reads
\* the device without asking for the registration.
Sequential == (\E c : Calls = {c}) /\ "job" \notin Ops

\* Then Alone is an invariant as well.
LEMMA OneAtATime == ASSUME Sequential PROVE Spec => [](IInv /\ \A c \in Calls : Alone(c))
<1>1. Init => IInv /\ \A c \in Calls : Alone(c)
  BY InitKeeps
<1>2. ASSUME IInv, \A c \in Calls : Alone(c), [Next]_vars PROVE (IInv /\ \A c \in Calls : Alone(c))'
  <2>1. CASE Environment
    BY <1>2, <2>1, EnvironmentKeeps
  <2>2. ASSUME NEW c \in Calls, Handler(c) \/ Step(c) PROVE (IInv /\ \A d \in Calls : Alone(d))'
    <3>1. IInv' /\ Alone(c)'
      BY <1>2, <2>2, HandlerKeeps, StepKeeps DEF Sequential
    <3> QED
      BY <3>1 DEF Sequential
  <2>3. CASE UNCHANGED vars
    BY <1>2, <2>3, StutterKeeps
  <2> QED
    BY <1>2, <2>1, <2>2, <2>3 DEF Next
<1> QED
  BY <1>1, <1>2, PTL DEF Spec

\* Requests that come one at a time never dereference a nil MeshDevice, whatever
\* the registry, the other machines, restarts and the library do between their calls.
THEOREM NoNilDevice == ASSUME Sequential PROVE Spec => []NoPanic
<1>1. IInv /\ (\A c \in Calls : Alone(c)) => NoPanic
  BY Zenon DEF Sequential, Alone, Safe, NoPanic
<1> QED
  BY <1>1, OneAtATime, PTL

\* DisableMeshnet leaves no peer that carries the traffic of this machine,
\* whatever was connected before.
THEOREM DisableStopsPeer == ASSUME Sequential PROVE Spec => DisableEndsPeer
<1>1. IInv /\ (\A c \in Calls : Alone(c)) /\ [Next]_vars =>
          [\A c \in Calls : At(c, "saveOff") /\ Kind(c) = "disable" /\ calls'[c] = Idle
              => calls[c].removed \/ netw.vpn \notin Peers]_vars
  BY Zenon DEF Alone, Carried, At, Kind
<1> QED
  BY <1>1, OneAtATime, PTL DEF DisableEndsPeer, Spec

\* When the mesh library does not fail, meshnet runs only when the configuration
\* says so, and never together with post-quantum VPN in the configuration.
THEOREM RunsAsConfigured == ASSUME Sequential, "lib" \notin Faulty PROVE Spec => []OnAsConfigured
<1>1. IInv /\ (\A c \in Calls : Alone(c)) => OnAsConfigured
  BY IdleFacts, Zenon DEF Sequential, Alone, Configured, OnAsConfigured, Quiet, Fields
<1> QED
  BY <1>1, OneAtATime, PTL
=============================================================================
