------------------------- MODULE MeshnetGrantProofs -------------------------
(***************************************************************************)
(* No peer may do more than the registry grants it: NoMoreThanGranted of   *)
(* Meshnet.tla, for every set of peers and of permissions that requests    *)
(* change, with requests that come one at a time.  The mesh library and    *)
(* the registration may fail and this machine may be removed or restarted  *)
(* at any time; that an answer of the registry other than "not found" fails *)
(* between two calls of a handler, or that a peer joins unnoticed, is      *)
(* excluded (Answered), because then the next refresh puts it right.       *)
(***************************************************************************)
EXTENDS MeshnetProofs

\* Tracked rules of a peer with an address.
RuleKinds == {"allow", "block-lan", "fileshare"}

\* What a list of a handler says of a machine is what the registry m says; the
\* machine may have got an address meanwhile.
Same(m, l) == (l.listed <=> m.listed) /\ l.perm = m.perm /\ (l.addr => m.addr)

\* The permissions a permission handler asks for.
Wanted(e, m) == IF e.grant THEN m.perm \cup {e.perm} ELSE m.perm \ {e.perm}

\* The handlers keep their lists as of the registry, up to the change they make.
Kept(e, r) ==
    e.pc \in {"refresh", "setMesh", "saveDevice", "apply", "refreshIncoming"}
       \/ (e.pc = "configure" /\ e.kind # "permission")
    => \A q \in Peers : Same(r[q], e.list[q])
Edited(e, r) ==
    e.pc = "configure" /\ e.kind = "permission" =>
        /\ \A q \in Peers \ {e.peer} : Same(r[q], e.list[q])
        /\ e.list[e.peer].listed <=> r[e.peer].listed
        /\ e.list[e.peer].addr => r[e.peer].addr
        /\ e.list[e.peer].perm = Wanted(e, r[e.peer])
\* A permission handler that leaves the rules alone, its peer having no address,
\* has no rules to change.
Bare(e, rules) ==
    e.pc \in {"configure", "apply", "refreshIncoming"} /\ e.kind = "permission" /\ ~e.list[e.peer].addr =>
        \A x \in RuleKinds : <<x, e.peer, TRUE>> \notin rules
\* The list of such a handler says of the permission what the request says.
Decided(e) == e.pc = "apply" /\ e.kind = "permission" => (Has(e.list[e.peer], e.perm) <=> e.grant)
Listing(e, r, rules) ==
    /\ Kept(e, r) /\ Edited(e, r) /\ Bare(e, rules) /\ Decided(e)
    /\ e.pc = "refreshIncoming" => e.perm \in {"routing", "lan"}

\* A peer that was removed may have rules left; they go with the refresh of the
\* AcceptInvite that lists it again.
Joining(e, p) ==
    e.kind = "accept" /\ e.peer = p /\ e.pc \in {"map", "saveDevice", "refresh", "unshare", "unset"}

\* The registry was told of the permission, and the networker was not.
Changing(e, p, perms, pcs) == e.kind = "permission" /\ e.peer = p /\ e.perm \in perms /\ e.pc \in pcs

Granted(e, m, rules, exit, p) ==
    /\ <<"allow", p, TRUE>> \in rules => Has(m, "inbound") \/ Changing(e, p, {"inbound"}, {"apply"})
    /\ <<"fileshare", p, TRUE>> \in rules => Has(m, "fileshare") \/ Changing(e, p, {"fileshare"}, {"apply"})
    /\ exit[p] \subseteq m.perm \/ Changing(e, p, {"routing", "lan"}, {"apply"})
    /\ <<"allow", p, TRUE>> \in rules /\ <<"block-lan", p, TRUE>> \notin rules =>
          LanAllowed(m) \/ Changing(e, p, {"routing", "lan"}, {"apply", "refreshIncoming"})

\* Rules with an address are those of peers that have one.
Addressed(r, rules) == \A p \in Peers, x \in RuleKinds : <<x, p, TRUE>> \in rules => r[p].addr

AllGranted(e, r, n) ==
    n.isMeshnetSet => \A p \in Peers : r[p].listed /\ ~Joining(e, p) => Granted(e, r[p], n.rules, n.exit, p)

\* The inductive invariant: of a handler e, the registry r and the networker n.
GInv(e, r, n) == Listing(e, r, n.rules) /\ Addressed(r, n.rules) /\ AllGranted(e, r, n)

-----------------------------------------------------------------------------
(* Steps that leave the rules and the registry's peers alone.               *)

Unlisted(e) == e.pc \notin {"configure", "apply", "refreshIncoming", "refresh", "setMesh", "saveDevice"}

\* A handler that is at none of these calls keeps no list that matters.
LEMMA UnlistedFacts ==
    ASSUME NEW e, Unlisted(e), NEW r, NEW rules
    PROVE  Listing(e, r, rules)
BY Zenon DEF Unlisted, Listing, Kept, Edited, Bare, Decided

\* A handler between its change of the registry and that of the networker.
Midway(e) == e.kind = "permission" /\ e.pc \in {"apply", "refreshIncoming"}

\* The networker has the rules and forwarding of before, or meshnet is off.
Rests(n, t) == t.rules = n.rules /\ t.exit = n.exit /\ (t.isMeshnetSet => n.isMeshnetSet)

\* A step between calls: an exemption is not given up on the way.
LEMMA Onward ==
    ASSUME NEW e, NEW f, NEW r, NEW n, NEW t, GInv(e, r, n), Rests(n, t), ~Midway(e),
           \A p \in Peers : Joining(e, p) => Joining(f, p),
           Listing(f, r, n.rules)
    PROVE  GInv(f, r, t)
<1>1. Addressed(r, t.rules) /\ Listing(f, r, t.rules)
  BY DEF GInv, Rests
<1>2. ASSUME NEW p \in Peers, t.isMeshnetSet, r[p].listed, ~Joining(f, p)
      PROVE  Granted(f, r[p], t.rules, t.exit, p)
  <2>1. Granted(e, r[p], n.rules, n.exit, p)
    BY <1>2 DEF GInv, AllGranted, Rests
  <2> QED
    BY <2>1 DEF Granted, Rests, Changing, Midway
<1> QED
  BY <1>1, <1>2 DEF GInv, AllGranted

\* A handler that was at a call without exemptions, and is at one without a list.
LEMMA Passes ==
    ASSUME NEW e, NEW f, NEW r, NEW n, NEW t, GInv(e, r, n), Rests(n, t), Unlisted(f),
           e.kind \notin {"accept", "permission"} \/
              e.pc \notin {"map", "saveDevice", "refresh", "unshare", "unset", "apply", "refreshIncoming"}
    PROVE  GInv(f, r, t)
<1>1. Listing(f, r, n.rules)
  BY UnlistedFacts
<1>2. ~Midway(e) /\ \A p \in Peers : ~Joining(e, p)
  BY DEF Midway, Joining
<1> QED
  BY <1>1, <1>2, Onward

-----------------------------------------------------------------------------
(* The rules made of a list.                                                *)

\* The rules refresh makes for a peer with an address.
LEMMA RefreshedRules ==
    ASSUME NEW list \in Lists, NEW p \in Peers
    PROVE  /\ <<"allow", p, TRUE>> \in RefreshRules(list) =>
                 list[p].listed /\ list[p].addr /\ Has(list[p], "inbound")
           /\ <<"fileshare", p, TRUE>> \in RefreshRules(list) =>
                 list[p].listed /\ list[p].addr /\ Has(list[p], "fileshare")
           /\ <<"block-lan", p, TRUE>> \in RefreshRules(list) => list[p].listed /\ list[p].addr
           /\ <<"allow", p, TRUE>> \in RefreshRules(list) /\ ~LanAllowed(list[p]) =>
                 <<"block-lan", p, TRUE>> \in RefreshRules(list)
<1>1. \A q \in Peers : list[q] \in Machine
  BY DEF Lists
<1>2. ASSUME NEW x \in RuleKinds, <<x, p, TRUE>> \in RefreshRules(list) PROVE <<x, p, TRUE>> \in PeerRules(p, list[p])
  <2>1. PICK q \in Peers : <<x, p, TRUE>> \in PeerRules(q, list[q])
    BY <1>2, Zenon DEF RefreshRules, Block, RuleKinds
  <2>2. q = p
    BY <2>1 DEF PeerRules, Incoming, Name
  <2> QED
    BY <2>1, <2>2
<1>3. ASSUME <<"allow", p, TRUE>> \in PeerRules(p, list[p])
      PROVE  /\ list[p].listed /\ list[p].addr /\ Has(list[p], "inbound")
             /\ ~LanAllowed(list[p]) => <<"block-lan", p, TRUE>> \in PeerRules(p, list[p])
  BY <1>1, <1>3, Zenon DEF PeerRules, Incoming, Name, Machine
<1>4. ASSUME <<"fileshare", p, TRUE>> \in PeerRules(p, list[p])
      PROVE  list[p].listed /\ list[p].addr /\ Has(list[p], "fileshare")
  BY <1>1, <1>4 DEF PeerRules, Incoming, Name, Machine
<1>5. ASSUME <<"block-lan", p, TRUE>> \in PeerRules(p, list[p]) PROVE list[p].listed /\ list[p].addr
  BY <1>1, <1>5 DEF PeerRules, Incoming, Name, Machine, LanAllowed
<1>6. <<"block-lan", p, TRUE>> \in PeerRules(p, list[p]) => <<"block-lan", p, TRUE>> \in RefreshRules(list)
  BY Zenon DEF RefreshRules
<1> QED
  BY <1>2, <1>3, <1>4, <1>5, <1>6 DEF RuleKinds

\* After a refresh with a list that is as of the registry, no exemption is needed.
LEMMA RefreshGrants ==
    ASSUME NEW list \in Lists, NEW r \in Lists, \A q \in Peers : Same(r[q], list[q]), NEW f, Unlisted(f),
           NEW t, t.rules = RefreshRules(list), t.exit = Forwards(list)
    PROVE  GInv(f, r, t)
<1>1. Addressed(r, t.rules)
  <2>1. ASSUME NEW p \in Peers, NEW x \in RuleKinds, <<x, p, TRUE>> \in RefreshRules(list) PROVE r[p].addr
    <3>1. list[p].addr
      BY <2>1, RefreshedRules, Zenon DEF RuleKinds
    <3> QED
      BY <3>1 DEF Same
  <2> QED
    BY <2>1, Zenon DEF Addressed
<1>2. ASSUME NEW p \in Peers PROVE Granted(f, r[p], t.rules, t.exit, p)
  <2>1. t.exit[p] \subseteq r[p].perm
    BY DEF Forwards, Same
  <2>2. /\ Has(r[p], "inbound") <=> Has(list[p], "inbound")
        /\ Has(r[p], "fileshare") <=> Has(list[p], "fileshare")
        /\ LanAllowed(r[p]) <=> LanAllowed(list[p])
    BY DEF Same, Has, LanAllowed
  <2> QED
    BY <2>1, <2>2, RefreshedRules, Zenon DEF Granted
<1>3. Listing(f, r, t.rules)
  BY UnlistedFacts
<1> QED
  BY <1>1, <1>2, <1>3 DEF GInv, AllGranted

\* Without rules and forwarding everything is granted.
LEMMA EmptyGrants ==
    ASSUME NEW f, Unlisted(f), NEW r, NEW t, t.rules = {}, t.exit = NoForwards
    PROVE  GInv(f, r, t)
<1>1. \A p \in Peers : Granted(f, r[p], t.rules, t.exit, p)
  BY DEF Granted, NoForwards
<1> QED
  BY <1>1, UnlistedFacts DEF GInv, AllGranted, Addressed

-----------------------------------------------------------------------------
(* A permission handler.                                                    *)

\* Its list: the registry's, with the permission changed for the one peer.
LEMMA ListedGrants ==
    ASSUME NEW e, NEW f, NEW r \in Lists, NEW n, NEW p \in Peers, GInv(e, r, n), e.pc = "list",
           f.kind = "permission", f.pc = "configure", f.peer = p,
           f.list = [r EXCEPT ![p] = [r[p] EXCEPT !.perm = Wanted(f, r[p])]]
    PROVE  GInv(f, r, n)
<1> DEFINE m == [r[p] EXCEPT !.perm = Wanted(f, r[p])]
<1>1. r[p] \in Machine /\ \A q \in Peers : r[q] \in Machine
  BY DEF Lists
<1>2. (m.listed <=> r[p].listed) /\ (m.addr <=> r[p].addr) /\ m.perm = Wanted(f, r[p])
  BY <1>1 DEF Machine
<1>3. f.list[p] = m /\ \A q \in Peers \ {p} : f.list[q] = r[q]
  BY DEF Lists
<1> HIDE DEF m
<1>4. Kept(f, r)
  BY DEF Kept
<1>5. Edited(f, r)
  BY <1>2, <1>3 DEF Edited, Same
<1>6. Bare(f, n.rules)
  BY <1>2, <1>3, Zenon DEF Bare, GInv, Addressed
<1>7. Listing(f, r, n.rules)
  BY <1>4, <1>5, <1>6 DEF Listing, Decided
<1> QED
  BY <1>7, Onward DEF Midway, Joining, Rests

\* It configures the registry: the rules may exceed what is granted until it
\* tells the networker.
LEMMA ConfiguredGrants ==
    ASSUME NEW e \in CallType, NEW f, NEW r \in Lists, NEW n \in NetwType, NEW s \in Lists, NEW p \in Peers, GInv(e, r, n),
           e.kind = "permission", e.pc = "configure", e.peer = p, e.perm \in Permissions,
           f.kind = "permission", f.pc = "apply", f.peer = p, f.perm = e.perm, f.grant <=> e.grant, f.list = e.list,
           s[p] = [r[p] EXCEPT !.perm = e.list[p].perm], \A q \in Peers \ {p} : s[q] = r[q]
    PROVE  GInv(f, s, n)
<1>1. r[p] \in Machine
  BY DEF Lists
<1>2. (s[p].listed <=> r[p].listed) /\ (s[p].addr <=> r[p].addr) /\ s[p].perm = Wanted(e, r[p]) /\ s[p].perm = e.list[p].perm
  BY <1>1 DEF GInv, Listing, Edited, Machine
<1>3. Kept(f, s) /\ Edited(f, s)
  <2>1. \A q \in Peers \ {p} : Same(s[q], e.list[q])
    BY DEF GInv, Listing, Edited
  <2>2. Same(s[p], e.list[p])
    BY <1>2 DEF GInv, Listing, Edited, Same
  <2> QED
    BY <2>1, <2>2 DEF Kept, Edited
<1>4. Bare(f, n.rules)
  BY Zenon DEF Bare, GInv, Listing
<1>5. Addressed(s, n.rules)
  BY <1>2, Zenon DEF Addressed, GInv
<1>7. Decided(f)
  BY <1>2 DEF Decided, Wanted, Has, CallType
<1>6. ASSUME NEW q \in Peers, n.isMeshnetSet, s[q].listed PROVE Granted(f, s[q], n.rules, n.exit, q)
  <2>1. Granted(e, r[q], n.rules, n.exit, q)
    BY <1>2, <1>6, Zenon DEF GInv, AllGranted, Joining
  <2>2. CASE q # p
    BY <2>1, <2>2 DEF Granted, Changing
  <2>3. CASE q = p
    <3>1. n.exit[p] \subseteq {"routing", "lan"} /\ n.exit[p] \subseteq r[p].perm
      BY <2>1, <2>3 DEF NetwType, Forwarding, Granted, Changing
    <3>2. n.exit[p] \subseteq s[p].perm \/ e.perm \in {"routing", "lan"}
      BY <1>2, <3>1 DEF Wanted
    <3>3. Has(r[p], "inbound") => Has(s[p], "inbound") \/ e.perm = "inbound"
      BY <1>2 DEF Wanted, Has
    <3>4. Has(r[p], "fileshare") => Has(s[p], "fileshare") \/ e.perm = "fileshare"
      BY <1>2 DEF Wanted, Has
    <3>5. LanAllowed(r[p]) => LanAllowed(s[p]) \/ e.perm \in {"routing", "lan"}
      BY <1>2 DEF Wanted, Has, LanAllowed
    <3> QED
      BY <2>1, <2>3, <3>2, <3>3, <3>4, <3>5, Zenon DEF Granted, Changing
  <2> QED
    BY <2>2, <2>3
<1> QED
  BY <1>3, <1>4, <1>5, <1>6, <1>7 DEF GInv, Listing, AllGranted

\* The networker makes the rules of the one peer follow: rules of the other
\* peers stay, and those of this peer are as the registry grants.
LEMMA AppliedGrants ==
    ASSUME NEW e, NEW f, NEW r \in Lists, NEW n, NEW t, NEW p \in Peers, GInv(e, r, n), Unlisted(f),
           Midway(e), e.peer = p,
           t.exit = n.exit, t.isMeshnetSet <=> n.isMeshnetSet, e.pc = "apply" => e.perm \notin {"routing", "lan"},
           \A q \in Peers \ {p}, x \in RuleKinds : <<x, q, TRUE>> \in t.rules <=> <<x, q, TRUE>> \in n.rules,
           \A x \in RuleKinds : <<x, p, TRUE>> \in t.rules => r[p].addr,
           r[p].listed /\ n.isMeshnetSet /\ Granted(e, r[p], n.rules, n.exit, p) =>
              /\ <<"allow", p, TRUE>> \in t.rules => Has(r[p], "inbound")
              /\ <<"fileshare", p, TRUE>> \in t.rules => Has(r[p], "fileshare")
              /\ <<"allow", p, TRUE>> \in t.rules /\ <<"block-lan", p, TRUE>> \notin t.rules => LanAllowed(r[p])
    PROVE  GInv(f, r, t)
<1>1. Listing(f, r, t.rules)
  BY UnlistedFacts
<1>2. Addressed(r, t.rules)
  BY Zenon DEF Addressed, GInv
<1>3. ASSUME NEW q \in Peers, t.isMeshnetSet, r[q].listed PROVE Granted(f, r[q], t.rules, t.exit, q)
  <2>1. Granted(e, r[q], n.rules, n.exit, q)
    BY <1>3 DEF GInv, AllGranted, Joining, Midway
  <2>2. CASE q # p
    BY <2>1, <2>2, Zenon DEF Granted, Changing, RuleKinds
  <2>3. CASE q = p
    <3>1. n.exit[p] \subseteq r[p].perm
      BY <2>1, <2>3 DEF Granted, Changing
    <3> QED
      BY <1>3, <2>1, <2>3, <3>1, Zenon DEF Granted
  <2> QED
    BY <2>2, <2>3
<1> QED
  BY <1>1, <1>2, <1>3 DEF GInv, AllGranted

-----------------------------------------------------------------------------
(* The steps.                                                               *)

Grants(c) == GInv(calls[c], registry.peer, netw)

\* The networker may fail; the registry answers and every peer joins by a request
\* of this machine.
Answered == {"api", "unauthorized"} \cap Faulty = {} /\ {"job", "join"} \cap Ops = {}

\* Requests leave the peers of the registry and the networker alone.
LEMMA HandlerGrants ==
    ASSUME IInv, NEW c \in Calls, Grants(c), Handler(c) \/ NotifyOn(c), Answered
    PROVE  Grants(c)'
<1>1. ConfigOK /\ RegistryOK /\ CallsOK /\ calls[c] \in CallType /\ Shape(calls[c])
  BY DEF IInv, TypeInv, CallsOK
<1>2. ASSUME calls[c].pc \in {"idle", "notify"}, UNCHANGED netw, registry'.peer = registry.peer, Unlisted(calls'[c])
      PROVE  Grants(c)'
  <2>1. Rests(netw, netw')
    BY <1>2 DEF Rests
  <2> QED
    BY <1>2, <2>1, Passes DEF Grants
<1>3. ASSUME NEW kind \in Kinds, NEW perm \in Permissions \cup {None}, NEW grant \in BOOLEAN, PeerRequest(c, kind, perm, grant)
      PROVE  Grants(c)'
  <2>1. calls'[c].pc = "load"
    BY <1>1, <1>3, RequestFacts DEF Fields
  <2>2. registry'.peer = registry.peer /\ UNCHANGED netw /\ calls[c].pc = "idle"
    BY <1>1, <1>3, RegisterFacts DEF PeerRequest, Free
  <2> QED
    BY <1>2, <2>1, <2>2 DEF Unlisted
<1>4. ASSUME NEW kind \in Kinds, NEW p \in Peers \cup {None, Self}, NEW pc \in {"map", "list", "update"},
             calls[c].pc \in {"idle", "notify"}, LoadedRequest(c, kind, p, pc)
      PROVE  Grants(c)'
  <2>1. calls'[c].pc = pc
    <3>1. calls' = [calls EXCEPT ![c] = [Idle EXCEPT !.kind = kind, !.pc = pc, !.peer = p]] /\ pc \in Pcs
      BY <1>4 DEF LoadedRequest, Pcs
    <3>2. Fields(calls'[c], kind, pc, p, None, FALSE, FALSE)
      BY <1>1, <3>1, PeerFacts, Zenon
    <3> QED
      BY <3>2 DEF Fields
  <2>2. registry'.peer = registry.peer /\ UNCHANGED netw
    BY <1>1, <1>4, RegisterFacts DEF LoadedRequest
  <2> QED
    BY <1>2, <1>4, <2>1, <2>2 DEF Unlisted
<1>5. ASSUME NEW kind \in Kinds, NEW pc \in {"load", "map", "unshare", "stop"}, Begin(c, kind, pc), calls[c].pc = "idle",
             UNCHANGED netw, registry'.peer = registry.peer
      PROVE  Grants(c)'
  <2>1. calls'[c].pc = pc
    BY SMTT(30), <1>1, <1>5, BeginFacts DEF Fields, Pcs
  <2> QED
    BY <1>2, <1>5, <2>1 DEF Unlisted
<1>6. ASSUME NEW perm \in Permissions, NEW grant \in BOOLEAN, PermissionRequest(c, perm, grant) PROVE Grants(c)'
  BY <1>3, <1>6 DEF PermissionRequest, Kinds
<1>7. CASE \/ AllowIncoming(c) \/ DenyIncoming(c) \/ AllowRouting(c) \/ DenyRouting(c)
           \/ AllowLocalNetwork(c) \/ DenyLocalNetwork(c) \/ AllowFileshare(c) \/ DenyFileshare(c)
  BY <1>6, <1>7, Zenon DEF AllowIncoming, DenyIncoming, AllowRouting, DenyRouting, AllowLocalNetwork, DenyLocalNetwork,
     AllowFileshare, DenyFileshare, Permissions
<1>8. CASE EnableAutomaticFileshare(c) \/ DisableAutomaticFileshare(c) \/ RemovePeer(c) \/ AcceptInvite(c)
           \/ NotifyNewTransfer(c) \/ Connect(c)
  BY <1>3, <1>8, Zenon DEF EnableAutomaticFileshare, DisableAutomaticFileshare, RemovePeer, AcceptInvite, NotifyNewTransfer, Connect, Kinds
<1>9. CASE RefreshMeshnet(c) \/ GetPeers(c) \/ ChangePeerNickname(c) \/ ChangeMachineNickname(c) \/ NotifyPeerUpdate(c) \/ NotifyOn(c)
  BY <1>4, <1>9, Zenon DEF RefreshMeshnet, GetPeers, ChangePeerNickname, ChangeMachineNickname, NotifyPeerUpdate, NotifyOn, Kinds, Free, At
<1>10. CASE Invite(c) \/ DenyInvite(c) \/ RevokeInvite(c) \/ GetInvites(c)
  <2>1. InvitationRequest(c)
    BY <1>10 DEF Invite, DenyInvite, RevokeInvite, GetInvites
  <2> QED
    BY <1>1, <1>5, <2>1, RegisterFacts DEF InvitationRequest, Kinds, Free
<1>11. CASE EnableMeshnet(c) \/ StartMeshnet(c)
  BY <1>1, <1>5, <1>11, RegisterFacts, Zenon DEF EnableMeshnet, StartMeshnet, Kinds, Free
<1>12. CASE DisableMeshnet(c) \/ Logout(c) \/ SetDefaults(c)
  BY <1>5, <1>12, Zenon DEF DisableMeshnet, Logout, SetDefaults, Kinds, Free
<1>13. CASE SetPostQuantum(c)
  <2>1. calls'[c].pc = "savePq"
    <3>1. calls' = [calls EXCEPT ![c] = [Idle EXCEPT !.kind = "pq", !.pc = "savePq", !.grant = ~config.pq]]
      BY <1>13 DEF SetPostQuantum
    <3>2. "pq" \in Kinds /\ "savePq" \in Pcs /\ (~config.pq) \in BOOLEAN
      BY DEF Kinds, Pcs
    <3>3. Fields(calls'[c], "pq", "savePq", None, None, ~config.pq, FALSE)
      BY <1>1, <3>1, <3>2, GrantFacts, Zenon
    <3> QED
      BY <3>3 DEF Fields
  <2> QED
    BY <1>2, <1>13, <2>1 DEF SetPostQuantum, Free, Unlisted
<1>14. CASE RemoveUnregistered(c)
  <2>1. PICK p \in Peers : calls' = [calls EXCEPT ![c] = [Idle EXCEPT !.kind = "remove", !.pc = "remove", !.peer = p]]
    BY <1>14, Zenon DEF RemoveUnregistered
  <2>2. calls'[c].pc = "remove"
    <3>1. "remove" \in Kinds /\ "remove" \in Pcs
      BY DEF Kinds, Pcs
    <3>2. Fields(calls'[c], "remove", "remove", p, None, FALSE, FALSE)
      BY <1>1, <2>1, <3>1, PeerFacts, Zenon
    <3> QED
      BY <3>2 DEF Fields
  <2> QED
    BY <1>2, <1>14, <2>2 DEF RemoveUnregistered, Free, Unlisted
<1>15. ~JobMonitorFileshareProcess(c)
  BY DEF Answered, JobMonitorFileshareProcess, Free
<1> QED
  BY <1>7, <1>8, <1>9, <1>10, <1>11, <1>12, <1>13, <1>14, <1>15 DEF Handler

\* The calls that change neither the peers of the registry nor the rules.
LEMMA PassingStepGrants ==
    ASSUME IInv, NEW c \in Calls, Grants(c),
           \/ Load(c) \/ NotifyOff(c) \/ Invitations(c) \/ Update(c) \/ SaveName(c) \/ StartFileshare(c) \/ StopVPN(c)
           \/ ConnectPeer(c) \/ Connected(c) \/ SaveOn(c) \/ SaveOff(c) \/ SavePostQuantum(c)
    PROVE  Grants(c)'
<1>1. ConfigOK /\ RegistryOK /\ NetwOK /\ CallsOK /\ calls[c] \in CallType /\ Shape(calls[c])
  BY DEF IInv, TypeInv, CallsOK
<1>2. calls[c].pc \in {"load", "notify", "invite", "update", "saveName", "share", "stop", "connect", "connected",
                       "saveOn", "saveOff", "savePq"}
  BY DEF Load, NotifyOff, Invitations, Update, SaveName, StartFileshare, StopVPN, ConnectPeer, Connected,
         SaveOn, SaveOff, SavePostQuantum, At
<1>3. Return(c) \/ \E pc \in {"map", "accept", "invite", "list", "saveName", "unset", "connected", "share"} : Goto(c, pc)
  <2>1. CASE Load(c)
    BY <2>1 DEF Load
  <2>2. CASE NotifyOff(c) \/ Invitations(c) \/ Update(c) \/ SaveName(c) \/ StartFileshare(c) \/ StopVPN(c)
    BY <2>2 DEF NotifyOff, Invitations, Update, SaveName, StartFileshare, StopVPN
  <2>3. CASE ConnectPeer(c) \/ Connected(c) \/ SaveOn(c) \/ SaveOff(c) \/ SavePostQuantum(c)
    BY <2>3, Zenon DEF ConnectPeer, Connected, SaveOn, SaveOff, SavePostQuantum
  <2> QED
    BY <2>1, <2>2, <2>3
<1>4. Unlisted(calls'[c])
  <2>1. CASE Return(c)
    BY <1>1, <2>1, ReturnFacts, IdleFacts DEF Fields, Unlisted
  <2>2. ASSUME NEW pc \in {"map", "accept", "invite", "list", "saveName", "unset", "connected", "share"}, Goto(c, pc)
        PROVE  Unlisted(calls'[c])
    <3>1. pc \in Pcs
      BY DEF Pcs
    <3>2. calls'[c].pc = pc
      BY <1>1, <2>2, <3>1, GotoFacts, Zenon DEF Fields
    <3> QED
      BY <3>2 DEF Unlisted
  <2> QED
    BY <1>3, <2>1, <2>2
<1>5. registry'.peer = registry.peer
  <2>1. CASE StartFileshare(c)
    BY <1>1, <2>1, RegisterFacts, Zenon DEF StartFileshare, Asked
  <2>2. CASE ~StartFileshare(c)
    BY <2>2 DEF Load, NotifyOff, Invitations, Update, SaveName, StopVPN, ConnectPeer, Connected,
         SaveOn, SaveOff, SavePostQuantum
  <2> QED
    BY <2>1, <2>2
<1>6. Rests(netw, netw')
  <2>1. CASE netw' = netw
    BY <2>1 DEF Rests
  <2>2. CASE ConnectPeer(c) \/ StopVPN(c)
    <3>1. PICK vpn, last : VpnOf(netw', netw, vpn, last)
      <4>1. calls[c].pc = "connect" => calls[c].peer \in Peers
        BY <1>1 DEF Shape, Where, PeerKinds
      <4>2. CASE netw' = [netw EXCEPT !.vpn = calls[c].peer, !.lastServer = calls[c].peer] /\ calls[c].pc = "connect"
        BY <1>1, <4>1, <4>2, ConnectionChange, Zenon DEF NetwOK
      <4>3. CASE netw' = [netw EXCEPT !.vpn = None]
        BY <1>1, <4>3, ConnectionChange, Zenon DEF NetwOK, NetwType
      <4>4. CASE netw' = netw
        BY <1>1, <4>4 DEF VpnOf, NetwOK
      <4> QED
        BY <2>2, <4>2, <4>3, <4>4 DEF ConnectPeer, StopVPN, At
    <3> QED
      BY <3>1 DEF VpnOf, Rests
  <2> QED
    BY <2>1, <2>2 DEF Load, NotifyOff, Invitations, Update, SaveName, StartFileshare, Connected,
         SaveOn, SaveOff, SavePostQuantum
<1> QED
  BY <1>2, <1>4, <1>5, <1>6, Passes, ZenonT(60) DEF Grants

\* Handlers that go on to a list, or to the meshunsetter.
LEMMA ListStepGrants ==
    ASSUME IInv, NEW c \in Calls, Grants(c), Answered,
           List(c) \/ Map(c) \/ SelfRemoved(c) \/ SaveDevice(c) \/ StopFileshare(c)
    PROVE  Grants(c)'
<1> DEFINE e == calls[c]
           f == calls'[c]
           r == registry.peer
<1>1. ConfigOK /\ RegistryOK /\ NetwOK /\ CallsOK /\ e \in CallType /\ Shape(e) /\ r \in Lists
  BY DEF IInv, TypeInv, CallsOK, RegistryOK
<1>2. UNCHANGED <<registry, netw>>
  BY DEF List, Map, SelfRemoved, SaveDevice, StopFileshare
<1>3. Rests(netw, netw') /\ registry'.peer = r
  BY <1>2 DEF Rests
<1>4. ASSUME Return(c), e.pc = "list" PROVE Grants(c)'
  <2>1. Unlisted(f)
    BY <1>1, <1>4, ReturnFacts, IdleFacts DEF Fields, Unlisted
  <2> QED
    BY <1>3, <1>4, <2>1, Passes DEF Grants
<1>5. CASE List(c)
  <2>0. e.pc = "list"
    BY <1>5 DEF List, At
  <2>1. CASE PermissionListed(c)
    <3> DEFINE p == e.peer
               list == [r EXCEPT ![p] = [r[p] EXCEPT !.perm = Wanted(e, r[p])]]
    <3>1. p \in Peers /\ e.perm \in Permissions /\ e.kind = "permission" /\ r[p] \in Machine
      BY <1>1, <2>1, Zenon DEF PermissionListed, Kind, Shape, PeerKinds, Lists
    <3>2. [registry.peer EXCEPT ![calls[c].peer].perm =
                IF calls[c].grant THEN @ \cup {calls[c].perm} ELSE @ \ {calls[c].perm}] = list
      BY <1>1, <3>1 DEF Lists, Wanted
    <3>3. list \in Lists
      <4>1. Wanted(e, r[p]) \in SUBSET Permissions
        BY <3>1, Zenon DEF Wanted, Machine
      <4>2. [r[p] EXCEPT !.perm = Wanted(e, r[p])] \in Machine
        BY <3>1, <4>1, Zenon DEF Machine
      <4> QED
        BY <1>1, <3>1, <4>2 DEF Lists
    <3>4. Return(c) \/ Received(c, list, "configure")
      BY <2>1, <3>2, Zenon DEF PermissionListed
    <3>5. CASE Received(c, list, "configure")
      <4>1. "configure" \in Pcs
        BY DEF Pcs
      <4>2. Fields(f, e.kind, "configure", e.peer, e.perm, e.grant, e.removed) /\ f.list = list
        <5> HIDE DEF list
        <5> QED
          BY <1>1, <3>3, <3>5, <4>1, ReceivedFacts, Zenon
      <4>3. Wanted(f, r[p]) = Wanted(e, r[p])
        BY <4>2, Zenon DEF Fields, Wanted
      <4>4. f.list = [r EXCEPT ![p] = [r[p] EXCEPT !.perm = Wanted(f, r[p])]] /\ f.kind = "permission" /\ f.pc = "configure" /\ f.peer = p
        BY <3>1, <4>2, <4>3 DEF Fields
      <4>5. GInv(f, r, netw)
        <5> HIDE DEF e, f, r, list
        <5> QED
          BY <1>1, <2>0, <3>1, <4>4, ListedGrants, Zenon DEF Grants, e, r
      <4> QED
        BY <1>2, <4>5 DEF Grants
    <3> QED
      BY <1>4, <2>0, <3>4, <3>5
  <2>2. ASSUME NEW pc \in {"remove", "configure", "connect"}, Received(c, r, pc), pc = "configure" => e.kind # "permission"
        PROVE  Grants(c)'
    <3>1. pc \in Pcs
      BY DEF Pcs
    <3>2. Fields(f, e.kind, pc, e.peer, e.perm, e.grant, e.removed) /\ f.list = r
      BY <1>1, <2>2, <3>1, ReceivedFacts, Zenon
    <3>3. Listing(f, r, netw.rules)
      BY <2>2, <3>2, Zenon DEF Fields, Listing, Kept, Edited, Bare, Decided, Same
    <3>4. ~Midway(e) /\ \A p \in Peers : ~Joining(e, p)
      BY <2>0 DEF Midway, Joining
    <3> QED
      BY <1>3, <3>3, <3>4, Onward DEF Grants
  <2>3. CASE PeerListed(c)
    <3>1. Return(c) \/ \E pc \in {"remove", "configure", "connect"} : Received(c, r, pc) /\ e.kind # "permission"
      BY <2>3 DEF PeerListed, Kind
    <3> QED
      BY <1>4, <2>0, <2>2, <3>1
  <2>4. CASE PeersListed(c)
    <3>1. CASE Goto(c, "notify")
      <4>1. "notify" \in Pcs
        BY DEF Pcs
      <4>2. f.pc = "notify"
        BY <1>1, <3>1, <4>1, GotoFacts, Zenon DEF Fields
      <4> QED
        BY <1>3, <2>0, <4>2, Passes DEF Grants, Unlisted
    <3> QED
      BY <1>4, <2>0, <2>4, <3>1 DEF PeersListed
  <2>5. CASE JobListed(c)
    <3>1. Received(c, r, "job")
      BY <2>5 DEF JobListed
    <3>2. "job" \in Pcs
      BY DEF Pcs
    <3>3. f.pc = "job"
      BY <1>1, <3>1, <3>2, ReceivedFacts DEF Fields
    <3> QED
      BY <1>3, <2>0, <3>3, Passes, Zenon DEF Grants, Unlisted
  <2> QED
    BY <1>5, <2>1, <2>3, <2>4, <2>5 DEF List
<1>6. CASE Map(c)
  <2>1. PICK pc \in {"setMesh", "refresh", "saveDevice"} : Received(c, r, pc) /\ (pc = "setMesh" => e.kind # "accept") /\ e.pc = "map"
    BY <1>6, Zenon DEF Map, Kind, At
  <2>2. pc \in Pcs
    BY DEF Pcs
  <2>3. Fields(f, e.kind, pc, e.peer, e.perm, e.grant, e.removed) /\ f.list = r
    BY <1>1, <2>1, <2>2, ReceivedFacts, Zenon
  <2>4. Listing(f, r, netw.rules)
    BY <2>3, Zenon DEF Fields, Listing, Kept, Edited, Bare, Decided, Same
  <2>5. ~Midway(e) /\ \A p \in Peers : Joining(e, p) => Joining(f, p)
    BY <2>1, <2>3 DEF Midway, Joining, Fields
  <2> QED
    BY <1>3, <2>4, <2>5, Onward DEF Grants
<1>7. CASE SelfRemoved(c) \/ StopFileshare(c)
  <2>1. PICK pc \in {"unshare", "unset", "stop"} : Fields(f, e.kind, pc, e.peer, e.perm, e.grant, f.removed) /\ (pc = "stop" => e.kind # "accept")
    <3>1. CASE SelfRemoved(c)
      BY <1>1, <3>1, RemovedFacts, Zenon DEF Fields
    <3>2. CASE StopFileshare(c)
      <4>1. e.kind = "accept" => e.removed
        BY <1>1, <3>2 DEF StopFileshare, At, Shape, Where
      <4>2. PICK pc \in {"unset", "stop"} : Goto(c, pc) /\ (pc = "stop" => ~e.removed)
        BY <3>2 DEF StopFileshare
      <4>3. pc \in Pcs
        BY DEF Pcs
      <4> QED
        BY <1>1, <4>1, <4>2, <4>3, GotoFacts, Zenon DEF Fields
    <3> QED
      BY <1>7, <3>1, <3>2, Zenon
  <2>2. e.pc \in {"list", "map", "unshare"}
    BY <1>7 DEF SelfRemoved, StopFileshare, At
  <2>3. Listing(f, r, netw.rules)
    BY <2>1, UnlistedFacts DEF Unlisted, Fields
  <2>4. ~Midway(e) /\ \A p \in Peers : Joining(e, p) => Joining(f, p)
    BY <2>1, <2>2 DEF Midway, Joining, Fields
  <2> QED
    BY <1>3, <2>3, <2>4, Onward, Zenon DEF Grants
<1>8. CASE SaveDevice(c)
  <2>1. e.pc = "saveDevice" /\ Goto(c, "refresh")
    BY <1>8 DEF SaveDevice, At
  <2>2. Fields(f, e.kind, "refresh", e.peer, e.perm, e.grant, e.removed) /\ f.list = e.list
    BY <1>1, <2>1, GotoFacts, Zenon DEF Pcs
  <2>3. Listing(f, r, netw.rules)
    BY <2>1, <2>2, Zenon DEF Fields, Listing, Kept, Edited, Bare, Decided, Grants, GInv
  <2>4. ~Midway(e) /\ \A p \in Peers : Joining(e, p) => Joining(f, p)
    BY <2>1, <2>2, Zenon DEF Midway, Joining, Fields
  <2> QED
    BY <1>3, <2>3, <2>4, Onward, Zenon DEF Grants
<1> QED
  BY <1>5, <1>6, <1>7, <1>8

\* The calls that change what the registry says of a peer.
LEMMA RegistryStepGrants ==
    ASSUME IInv, NEW c \in Calls, Grants(c), Configure(c) \/ Accept(c) \/ Remove(c)
    PROVE  Grants(c)'
<1> DEFINE e == calls[c]
           f == calls'[c]
           r == registry.peer
           s == registry'.peer
           p == calls[c].peer
<1>1. RegistryOK /\ NetwOK /\ CallsOK /\ e \in CallType /\ Shape(e) /\ r \in Lists /\ netw \in NetwType
  BY DEF IInv, TypeInv, CallsOK, RegistryOK, NetwOK
<1>2. UNCHANGED netw /\ ~e.removed /\ e.pc \in {"configure", "accept", "remove"}
  BY <1>1, Zenon DEF Configure, Accept, Remove, Shape, At
<1>3. p \in Peers /\ r[p] \in Machine
  BY <1>1, <1>2, Zenon DEF Shape, Where, PeerKinds, Lists
<1>4. ASSUME Return(c), s = r PROVE Grants(c)'
  <2>1. Unlisted(f)
    BY <1>1, <1>4, ReturnFacts, IdleFacts DEF Fields, Unlisted
  <2>2. Rests(netw, netw')
    BY <1>2 DEF Rests
  <2> QED
    BY <1>2, <1>4, <2>1, <2>2, Passes DEF Grants
<1>5. ASSUME NEW m \in Machine, registry' = [registry EXCEPT !.peer[p] = m]
      PROVE  s \in Lists /\ s[p] = m /\ \A q \in Peers \ {p} : s[q] = r[q]
  BY <1>1, <1>3, <1>5, PeerChanges DEF RegistryOK
<1>6. CASE Configure(c)
  <2>1. e.kind \in {"permission", "nickname", "auto"} /\ e.pc = "configure"
    BY <1>1, <1>2, <1>6 DEF Shape, Where, Configure, At
  <2>2. CASE ~(registry.registered /\ InList(c).listed)
    BY <1>4, <1>6, <2>2, Zenon DEF Configure
  <2>3. CASE registry.registered /\ InList(c).listed
    <3> DEFINE m == [r[p] EXCEPT !.perm = e.list[p].perm]
    <3>1. e.list \in Lists /\ e.list[p] \in Machine
      BY <1>1, <1>3 DEF CallType, Lists
    <3>2. m \in Machine
      BY <1>3, <3>1, Zenon DEF Machine
    <3>3. registry' = [registry EXCEPT !.peer[p] = m]
      <4>1. registry' = [registry EXCEPT !.peer[calls[c].peer].perm = Target(c).perm]
        BY <1>6, <2>3 DEF Configure
      <4> QED
        BY <1>1, <1>3, <4>1 DEF RegistryOK, Lists, Target
    <3>4. s \in Lists /\ s[p] = m /\ \A q \in Peers \ {p} : s[q] = r[q]
      BY <1>5, <3>2, <3>3, Zenon
    <3>5. CASE e.kind = "permission"
      <4>1. Goto(c, "apply")
        BY <1>6, <2>3, <3>5 DEF Configure, Kind
      <4>2. Fields(f, e.kind, "apply", e.peer, e.perm, e.grant, e.removed) /\ f.list = e.list
        BY <1>1, <4>1, GotoFacts, Zenon DEF Pcs
      <4>3. e.perm \in Permissions
        BY <1>1, <3>5, Zenon DEF Shape
      <4>4. GInv(f, s, netw)
        <5>1. f.kind = "permission" /\ f.pc = "apply" /\ f.peer = p /\ f.perm = e.perm /\ (f.grant <=> e.grant) /\ f.list = e.list
          BY <3>5, <4>2 DEF Fields
        <5>2. GInv(e, r, netw)
          BY DEF Grants
        <5> HIDE DEF e, f, r, s, p
        <5> QED
          BY SMTT(90), <1>1, <1>3, <2>1, <3>4, <3>5, <4>3, <5>1, <5>2, ConfiguredGrants DEF e, p, m
      <4> QED
        BY <1>2, <4>4 DEF Grants
    <3>6. CASE e.kind \in {"nickname", "auto"}
      <4>1. e.list[p].perm = r[p].perm
        BY <1>3, <2>1, <3>6, Zenon DEF Grants, GInv, Listing, Kept, Same
      <4>2. m = r[p]
        BY <1>3, <4>1, Zenon DEF Machine
      <4>3. s = r
        BY <1>1, <3>4, <4>2 DEF Lists
      <4>4. Return(c) \/ Goto(c, "map")
        BY <1>6, <2>3, <3>6, Zenon DEF Configure, Kind
      <4>5. Unlisted(f)
        <5>1. CASE Return(c)
          BY <1>1, <5>1, ReturnFacts, IdleFacts, Zenon DEF Fields, Unlisted
        <5>2. CASE Goto(c, "map")
          BY <1>1, <5>2, GotoFacts, ZenonT(60) DEF Fields, Unlisted, Pcs
        <5> QED
          BY <4>4, <5>1, <5>2
      <4>6. Rests(netw, netw')
        BY <1>2 DEF Rests
      <4> QED
        BY <1>2, <2>1, <3>6, <4>3, <4>5, <4>6, Passes DEF Grants
    <3> QED
      BY <2>1, <3>5, <3>6
  <2> QED
    BY <2>2, <2>3
<1>7. CASE Accept(c)
  <2>1. CASE Return(c) /\ UNCHANGED registry
    BY <1>4, <2>1
  <2>2. ASSUME NEW perm \in SUBSET Grantable, Goto(c, "map"), ~r[p].listed,
               registry' = [registry EXCEPT !.peer[calls[c].peer] = [@ EXCEPT !.listed = TRUE, !.perm = perm]]
        PROVE  Grants(c)'
    <3> DEFINE m == [r[p] EXCEPT !.listed = TRUE, !.perm = perm]
    <3>1. m \in Machine /\ (m.addr <=> r[p].addr)
      BY <1>3, GrantableAssumption, Zenon DEF Machine
    <3>2. registry' = [registry EXCEPT !.peer[p] = m]
      BY <1>1, <1>3, <2>2 DEF RegistryOK, Lists
    <3>3. s \in Lists /\ s[p] = m /\ \A q \in Peers \ {p} : s[q] = r[q]
      BY <1>5, <3>1, <3>2, Zenon
    <3> HIDE DEF m
    <3>4. e.kind = "accept" /\ e.pc = "accept"
      BY <1>1, <1>2, <1>7, Zenon DEF Shape, Where, Accept, At
    <3>5. Fields(f, e.kind, "map", e.peer, e.perm, e.grant, e.removed)
      BY <1>1, <2>2, GotoFacts, Zenon DEF Pcs
    <3>6. Listing(f, s, netw.rules)
      BY <3>5, UnlistedFacts, Zenon DEF Fields, Unlisted
    <3>7. Addressed(s, netw.rules)
      BY <3>1, <3>3, Zenon DEF Grants, GInv, Addressed
    <3>8. ASSUME NEW q \in Peers, netw.isMeshnetSet, s[q].listed, ~Joining(f, q)
          PROVE  Granted(f, s[q], netw.rules, netw.exit, q)
      <4>1. q # p
        BY <3>4, <3>5, <3>8, Zenon DEF Joining, Fields
      <4>2. s[q] = r[q] /\ ~Joining(e, q)
        BY <3>3, <3>4, <4>1, Zenon DEF Joining
      <4>3. Granted(e, r[q], netw.rules, netw.exit, q)
        BY <3>8, <4>2, Zenon DEF Grants, GInv, AllGranted
      <4> QED
        BY <3>4, <4>2, <4>3, Zenon DEF Granted, Changing
    <3> QED
      BY <1>2, <3>6, <3>7, <3>8, Zenon DEF Grants, GInv, AllGranted
  <2> QED
    BY <1>7, <2>1, <2>2, Zenon DEF Accept, InList
<1>8. CASE Remove(c)
  <2> DEFINE m == [r[p] EXCEPT !.listed = FALSE, !.perm = {}]
  <2>1. m \in Machine /\ (m.addr <=> r[p].addr) /\ ~m.listed
    BY <1>3, Zenon DEF Machine
  <2>2. registry' = [registry EXCEPT !.peer[p] = m] /\ Return(c)
    BY <1>1, <1>3, <1>8 DEF RegistryOK, Lists, Remove
  <2>3. s \in Lists /\ s[p] = m /\ \A q \in Peers \ {p} : s[q] = r[q]
    BY <1>5, <2>1, <2>2, Zenon
  <2> HIDE DEF m
  <2>4. Unlisted(f)
    BY <1>1, <2>2, ReturnFacts, IdleFacts DEF Fields, Unlisted
  <2>5. Listing(f, s, netw.rules)
    BY <2>4, UnlistedFacts
  <2>6. Addressed(s, netw.rules)
    BY <2>1, <2>3, Zenon DEF Grants, GInv, Addressed
  <2>7. e.pc = "remove"
    BY <1>8 DEF Remove, At
  <2>8. ASSUME NEW q \in Peers, netw.isMeshnetSet, s[q].listed
        PROVE  Granted(f, s[q], netw.rules, netw.exit, q)
    <3>1. q # p /\ s[q] = r[q] /\ ~Joining(e, q)
      BY <2>1, <2>3, <2>7, <2>8, Zenon DEF Joining
    <3>2. Granted(e, r[q], netw.rules, netw.exit, q)
      BY <2>8, <3>1, Zenon DEF Grants, GInv, AllGranted
    <3> QED
      BY <2>7, <3>1, <3>2, Zenon DEF Granted, Changing
  <2> QED
    BY <1>2, <2>5, <2>6, <2>8, Zenon DEF Grants, GInv, AllGranted
<1> QED
  BY <1>6, <1>7, <1>8

\* The rules of one peer follow its permission.
LEMMA PermissionGrants ==
    ASSUME NEW e \in CallType, NEW f, NEW r \in Lists, NEW n \in NetwType, NEW t, NEW p \in Peers, GInv(e, r, n),
           LanOK(n.rules), Unlisted(f), Midway(e), e.peer = p, NEW m \in Machine, m = e.list[p],
           NEW rules, RulesOf(t, n, rules),
           \/ e.pc = "apply" /\ e.perm \in {"inbound", "fileshare"} /\ ~m.addr /\ rules = n.rules
           \/ e.pc = "apply" /\ e.perm = "inbound" /\ e.grant /\ m.addr
              /\ rules = (IF Name("allow", p, m) \in n.rules THEN n.rules ELSE n.rules \cup Incoming(p, m))
           \/ e.pc = "apply" /\ e.perm = "inbound" /\ ~e.grant /\ m.addr
              /\ rules = n.rules \ {Name("allow", p, m), Name("block-lan", p, m)}
           \/ e.pc = "apply" /\ e.perm = "fileshare" /\ e.grant /\ m.addr /\ rules = n.rules \cup {Name("fileshare", p, m)}
           \/ e.pc = "apply" /\ e.perm = "fileshare" /\ ~e.grant /\ m.addr /\ rules = n.rules \ {Name("fileshare", p, m)}
           \/ e.pc = "refreshIncoming" /\ rules = (IF Has(m, "inbound") THEN Anew(n.rules, p, m) ELSE n.rules)
    PROVE  GInv(f, r, t)
<1> DEFINE allow == <<"allow", p, TRUE>>
           blockLan == <<"block-lan", p, TRUE>>
           fileshare == <<"fileshare", p, TRUE>>
           g == r[p]
<1>1. /\ Same(g, m) /\ (Has(g, "inbound") <=> Has(m, "inbound")) /\ (Has(g, "fileshare") <=> Has(m, "fileshare"))
      /\ (LanAllowed(g) <=> LanAllowed(m)) /\ g \in Machine
  <2>1. Same(g, m)
    BY Zenon DEF GInv, Listing, Kept, Midway
  <2> QED
    BY <2>1, Zenon DEF Same, Has, LanAllowed, Lists
<1>2. ~m.addr => allow \notin n.rules /\ blockLan \notin n.rules /\ fileshare \notin n.rules
  BY Zenon DEF GInv, Listing, Bare, Midway, RuleKinds
<1>3. \A x \in RuleKinds : <<x, p, TRUE>> \in n.rules => g.addr
  BY Zenon DEF GInv, Addressed
<1>4. m.addr => g.addr
  BY <1>1, Zenon DEF Same
<1>5. e.pc = "apply" => (Has(m, e.perm) <=> e.grant)
  BY Zenon DEF GInv, Listing, Decided, Midway
<1>6. e.pc = "refreshIncoming" => e.perm \in {"routing", "lan"}
  BY Zenon DEF GInv, Listing
<1>7. t.rules = rules /\ t.exit = n.exit /\ (t.isMeshnetSet <=> n.isMeshnetSet)
  BY Zenon DEF RulesOf
<1>8. e.pc = "apply" => e.perm \notin {"routing", "lan"}
  BY Zenon
<1>9. blockLan \in n.rules => allow \in n.rules
  BY Zenon DEF LanOK
<1>10. ASSUME Granted(e, g, n.rules, n.exit, p)
       PROVE  /\ allow \in n.rules => Has(g, "inbound") \/ (e.perm = "inbound" /\ e.pc = "apply")
              /\ fileshare \in n.rules => Has(g, "fileshare") \/ (e.perm = "fileshare" /\ e.pc = "apply")
              /\ allow \in n.rules /\ blockLan \notin n.rules => LanAllowed(g) \/ (e.pc = "refreshIncoming")
  BY <1>8, <1>10, Zenon DEF Granted, Changing
<1>11. m.addr \in BOOLEAN /\ Name("allow", p, m) = <<"allow", p, m.addr>>
       /\ Name("block-lan", p, m) = <<"block-lan", p, m.addr>> /\ Name("fileshare", p, m) = <<"fileshare", p, m.addr>>
  BY Zenon DEF Name, Machine
<1>12. \A q \in Peers \ {p}, x \in RuleKinds : <<x, q, TRUE>> \in rules <=> <<x, q, TRUE>> \in n.rules
  BY Zenon DEF Incoming, Anew, Name
<1>13. /\ m.addr => (Incoming(p, m) \subseteq {allow, blockLan} /\ allow \in Incoming(p, m)
                     /\ (blockLan \in Incoming(p, m) <=> ~LanAllowed(m)))
       /\ ~m.addr => \A x \in RuleKinds : <<x, p, TRUE>> \notin Incoming(p, m)
  <2>1. Incoming(p, m) = {<<"allow", p, m.addr>>} \cup (IF LanAllowed(m) THEN {} ELSE {<<"block-lan", p, m.addr>>})
    BY <1>11, Zenon DEF Incoming
  <2>2. CASE m.addr
    <3>1. m.addr = TRUE
      BY <1>11, <2>2, Zenon
    <3> QED
      BY <2>1, <3>1, Zenon
  <2>3. CASE ~m.addr
    <3>1. m.addr = FALSE
      BY <1>11, <2>3, Zenon
    <3> QED
      BY <2>1, <3>1, Zenon
  <2> QED
    BY <2>2, <2>3, Zenon
<1>14. /\ \A x \in RuleKinds : <<x, p, TRUE>> \in rules => g.addr
       /\ Granted(e, g, n.rules, n.exit, p) =>
              /\ allow \in rules => Has(g, "inbound")
              /\ fileshare \in rules => Has(g, "fileshare")
              /\ allow \in rules /\ blockLan \notin rules => LanAllowed(g)
  <2>1. CASE ~m.addr /\ e.pc = "apply"
    BY <1>2, <1>3, <2>1, Zenon DEF RuleKinds
  <2>2. CASE ~m.addr /\ e.pc = "refreshIncoming"
    <3>1. \A x \in RuleKinds : <<x, p, TRUE>> \in rules <=> <<x, p, TRUE>> \in n.rules
      <4>1. m.addr = FALSE
        BY <1>11, <2>2, Zenon
      <4>2. Name("allow", p, m) = <<"allow", p, FALSE>> /\ Name("block-lan", p, m) = <<"block-lan", p, FALSE>>
        BY <1>11, <4>1, Zenon
      <4>3. CASE Has(m, "inbound")
        <5>1. rules = (n.rules \ {<<"allow", p, FALSE>>, <<"block-lan", p, FALSE>>}) \cup Incoming(p, m)
          BY <2>2, <4>2, <4>3, Zenon DEF Anew
        <5> QED
          BY <1>13, <2>2, <5>1, Zenon
      <4>4. CASE ~Has(m, "inbound")
        BY <2>2, <4>4, Zenon
      <4> QED
        BY <4>3, <4>4, Zenon
    <3> QED
      BY <1>2, <1>3, <2>2, <3>1, Zenon DEF RuleKinds
  <2>3. CASE m.addr /\ e.perm = "inbound" /\ e.pc = "apply" /\ e.grant
    <3>1. Has(g, "inbound")
      BY <1>1, <1>5, <2>3, Zenon
    <3>2. rules = IF allow \in n.rules THEN n.rules ELSE n.rules \cup Incoming(p, m)
      BY <1>11, <2>3, Zenon
    <3>3. fileshare \in rules <=> fileshare \in n.rules
      BY <1>13, <2>3, <3>2, Zenon
    <3>4. allow \notin n.rules /\ blockLan \notin rules => LanAllowed(g)
      BY <1>1, <1>13, <2>3, <3>2, ZenonT(60)
    <3> QED
      BY <1>4, <1>10, <2>3, <3>1, <3>2, <3>3, <3>4, Zenon
  <2>4. CASE m.addr /\ e.perm = "inbound" /\ e.pc = "apply" /\ ~e.grant
    <3>1. rules = n.rules \ {allow, blockLan}
      BY <1>11, <2>4, Zenon
    <3> QED
      BY <1>4, <1>10, <2>4, <3>1, Zenon
  <2>5. CASE m.addr /\ e.perm = "fileshare" /\ e.pc = "apply" /\ e.grant
    <3>1. Has(g, "fileshare") /\ rules = n.rules \cup {fileshare}
      BY <1>1, <1>5, <1>11, <2>5, Zenon
    <3> QED
      BY <1>4, <1>10, <2>5, <3>1, Zenon
  <2>6. CASE m.addr /\ e.perm = "fileshare" /\ e.pc = "apply" /\ ~e.grant
    <3>1. rules = n.rules \ {fileshare}
      BY <1>11, <2>6, Zenon
    <3> QED
      BY <1>4, <1>10, <2>6, <3>1, Zenon
  <2>7. CASE m.addr /\ e.pc = "refreshIncoming"
    <3>1. CASE Has(m, "inbound")
      <4>1. rules = (n.rules \ {allow, blockLan}) \cup Incoming(p, m)
        BY <1>11, <2>7, <3>1, Zenon DEF Anew
      <4> QED
        BY <1>1, <1>4, <1>10, <1>13, <2>7, <3>1, <4>1, Zenon
    <3>2. CASE ~Has(m, "inbound")
      BY <1>1, <1>4, <1>6, <1>10, <2>7, <3>2, Zenon
    <3> QED
      BY <3>1, <3>2, Zenon
  <2> QED
    BY <1>8, <1>11, <2>1, <2>2, <2>3, <2>4, <2>5, <2>6, <2>7, Zenon DEF Midway
<1>15. /\ \A q \in Peers \ {p}, x \in RuleKinds : <<x, q, TRUE>> \in t.rules <=> <<x, q, TRUE>> \in n.rules
       /\ \A x \in RuleKinds : <<x, p, TRUE>> \in t.rules => r[p].addr
  BY ZenonT(60), <1>7, <1>12, <1>14
<1>16. Granted(e, r[p], n.rules, n.exit, p) =>
           /\ <<"allow", p, TRUE>> \in t.rules => Has(r[p], "inbound")
           /\ <<"fileshare", p, TRUE>> \in t.rules => Has(r[p], "fileshare")
           /\ <<"allow", p, TRUE>> \in t.rules /\ <<"block-lan", p, TRUE>> \notin t.rules => LanAllowed(r[p])
  BY <1>7, <1>14, Zenon
<1> HIDE DEF allow, blockLan, fileshare, g
<1> QED
  BY <1>7, <1>8, <1>15, <1>16, AppliedGrants, ZenonT(60)

\* The calls that make the rules follow the registry.
LEMMA NetworkerStepGrants ==
    ASSUME IInv, NEW c \in Calls, Grants(c),
           \/ Apply(c) \/ ResetPeers(c) \/ RefreshIncoming(c) \/ Refresh(c)
           \/ SetMesh(c) \/ UnsetMesh(c) \/ LibFailure(c)
    PROVE  Grants(c)'
<1> DEFINE e == calls[c]
           f == calls'[c]
           r == registry.peer
           p == calls[c].peer
           m == Target(c)
<1>1. CallsOK /\ e \in CallType /\ Shape(e) /\ r \in Lists /\ netw \in NetwType /\ LanOK(netw.rules) /\ e.list \in Lists
  BY Zenon DEF IInv, TypeInv, CallsOK, RegistryOK, NetwOK, CallType
<1>2. registry' = registry
  BY Zenon DEF Apply, ResetPeers, RefreshIncoming, Refresh, SetMesh, UnsetMesh, LibFailure
<1>3. ASSUME Return(c) PROVE Unlisted(f)
  BY <1>1, <1>3, ReturnFacts, IdleFacts, Zenon DEF Fields, Unlisted
<1>4. ASSUME NEW pc \in {"saveOn", "share", "saveOff"}, Goto(c, pc) PROVE Unlisted(f)
  <2>1. pc \in Pcs
    BY DEF Pcs
  <2>2. f.pc = pc
    BY <1>1, <1>4, <2>1, GotoFacts, Zenon DEF Fields
  <2> QED
    BY <2>2, Zenon DEF Unlisted
<1>5. ASSUME GInv(f, r, netw') PROVE Grants(c)'
  BY <1>2, <1>5, Zenon DEF Grants
<1>6. GInv(e, r, netw)
  BY DEF Grants
<1>7. ASSUME e.pc \in {"apply", "refreshIncoming"} PROVE Midway(e) /\ p \in Peers /\ m \in Machine /\ m = e.list[p]
  BY <1>1, <1>7, Zenon DEF Shape, Where, PeerKinds, Midway, Target, Lists
<1>8. CASE Apply(c)
  <2>1. e.pc = "apply" /\ e.perm \in {"inbound", "fileshare"} /\ e.grant \in BOOLEAN /\ Unlisted(f)
    BY <1>1, <1>3, <1>8, Zenon DEF Apply, At, CallType
  <2>2. p \in Peers /\ m \in Machine /\ m = e.list[p] /\ Midway(e) /\ m.addr \in BOOLEAN
    BY <1>7, <2>1, Zenon DEF Machine
  <2>3. \/ ~m.addr /\ netw' = netw
        \/ m.addr /\ e.perm = "inbound" /\ e.grant /\ netw' = allowIncoming(netw, p, m)
        \/ m.addr /\ e.perm = "inbound" /\ ~e.grant /\ netw' = blockIncoming(netw, p, m)
        \/ m.addr /\ e.perm = "fileshare" /\ e.grant /\ netw' = allowFileshare(netw, p, m)
        \/ m.addr /\ e.perm = "fileshare" /\ ~e.grant /\ netw' = BlockFileshare(netw, p, m)
    BY <1>8, <2>1, <2>2, Zenon DEF Apply
  <2> HIDE DEF e, f, r, p, m
  <2>4. GInv(f, r, netw')
    <3>1. CASE ~m.addr /\ netw' = netw
      <4>1. RulesOf(netw', netw, netw.rules)
        BY <1>1, <3>1 DEF RulesOf
      <4> QED
        BY <1>1, <1>6, <2>1, <2>2, <3>1, <4>1, PermissionGrants, ZenonT(60) DEF p, e
    <3>2. CASE m.addr /\ e.perm = "inbound" /\ e.grant /\ netw' = allowIncoming(netw, p, m)
      <4>1. RulesOf(netw', netw, IF Name("allow", p, m) \in netw.rules THEN netw.rules ELSE netw.rules \cup Incoming(p, m))
        BY <1>1, <2>2, <3>2, AllowFacts, Zenon
      <4> QED
        BY <1>1, <1>6, <2>1, <2>2, <3>2, <4>1, PermissionGrants, ZenonT(60) DEF p, e
    <3>3. CASE m.addr /\ e.perm = "inbound" /\ ~e.grant /\ netw' = blockIncoming(netw, p, m)
      <4>1. RulesOf(netw', netw, netw.rules \ {Name("allow", p, m), Name("block-lan", p, m)})
        BY <1>1, <2>2, <3>3, BlockFacts, Zenon
      <4> QED
        BY ZenonT(60), <1>1, <1>6, <2>1, <2>2, <3>3, <4>1, PermissionGrants DEF p, e
    <3>4. CASE m.addr /\ e.perm = "fileshare" /\ e.grant /\ netw' = allowFileshare(netw, p, m)
      <4>1. RulesOf(netw', netw, netw.rules \cup {Name("fileshare", p, m)})
        BY <1>1, <2>2, <3>4, FileshareFacts, Zenon
      <4> QED
        BY <1>1, <1>6, <2>1, <2>2, <3>4, <4>1, PermissionGrants, ZenonT(60) DEF p, e
    <3>5. CASE m.addr /\ e.perm = "fileshare" /\ ~e.grant /\ netw' = BlockFileshare(netw, p, m)
      <4>1. RulesOf(netw', netw, netw.rules \ {Name("fileshare", p, m)})
        BY <1>1, <2>2, <3>5, FileshareFacts, Zenon
      <4> QED
        BY ZenonT(60), <1>1, <1>6, <2>1, <2>2, <3>5, <4>1, PermissionGrants DEF p, e
    <3> QED
      BY <2>3, <3>1, <3>2, <3>3, <3>4, <3>5, Zenon
  <2> QED
    BY <1>5, <2>4 DEF f, r
<1>9. CASE RefreshIncoming(c)
  <2>1. e.pc = "refreshIncoming" /\ Unlisted(f) /\ netw' = refreshIncoming(netw, p, m)
    BY <1>3, <1>9, Zenon DEF RefreshIncoming, At
  <2>2. p \in Peers /\ m \in Machine /\ m = e.list[p] /\ Midway(e)
    BY <1>7, <2>1, Zenon
  <2> HIDE DEF e, f, r, p, m
  <2>3. RulesOf(netw', netw, IF Has(m, "inbound") THEN Anew(netw.rules, p, m) ELSE netw.rules)
    BY <1>1, <2>1, <2>2, RefreshIncomingFacts, Zenon
  <2>4. GInv(f, r, netw')
    BY <1>1, <1>6, <2>1, <2>2, <2>3, PermissionGrants, ZenonT(60) DEF p, e
  <2> QED
    BY <1>5, <2>4, Zenon DEF f, r
<1>10. CASE ResetPeers(c)
  <2>1. e.pc = "apply" /\ e.perm \in {"routing", "lan"} /\ Goto(c, "refreshIncoming")
        /\ netw' = [netw EXCEPT !.exit = Forwards(e.list)]
    BY <1>10 DEF ResetPeers, At
  <2>2. MeshOf(netw', netw, netw.isMeshnetSet, netw.rules, Forwards(e.list))
    BY <1>1, <2>1, ForwardsType, ExitChange
  <2>3. Fields(f, e.kind, "refreshIncoming", e.peer, e.perm, e.grant, e.removed) /\ f.list = e.list
    BY <1>1, <2>1, GotoFacts, Zenon DEF Pcs
  <2>4. p \in Peers /\ Midway(e) /\ \A q \in Peers : Same(r[q], e.list[q])
    BY <1>6, <1>7, <2>1 DEF GInv, Listing, Kept
  <2>5. Listing(f, r, netw'.rules)
    <3>1. Kept(f, r) /\ Edited(f, r) /\ Decided(f)
      BY <2>3, <2>4, Zenon DEF Fields, Kept, Edited, Decided
    <3>2. Bare(f, netw'.rules)
      BY <1>6, <2>1, <2>2, <2>3, Zenon DEF GInv, Listing, Bare, Fields, MeshOf
    <3> QED
      BY <2>1, <2>3, <3>1, <3>2 DEF Listing, Fields
  <2>6. Addressed(r, netw'.rules)
    BY <1>6, <2>2, Zenon DEF GInv, Addressed, MeshOf
  <2>7. ASSUME NEW q \in Peers, netw.isMeshnetSet, r[q].listed PROVE Granted(f, r[q], netw'.rules, netw'.exit, q)
    <3>1. Granted(e, r[q], netw.rules, netw.exit, q)
      BY <1>6, <2>4, <2>7, Zenon DEF GInv, AllGranted, Joining, Midway
    <3>2. netw'.exit[q] \subseteq r[q].perm
      BY <2>2, <2>4, <2>7, ZenonT(60) DEF MeshOf, Forwards, Same
    <3>3. netw'.rules = netw.rules
      BY <2>2, Zenon DEF MeshOf
    <3> QED
      BY <2>1, <2>3, <2>4, <3>1, <3>2, <3>3, Zenon DEF Granted, Changing, Fields, Midway
  <2> QED
    BY <1>5, <2>2, <2>5, <2>6, <2>7, Zenon DEF GInv, AllGranted, MeshOf
<1>11. CASE Refresh(c)
  <2>1. e.pc = "refresh" /\ Unlisted(f) /\ netw' = refresh(netw, e.list)
    BY <1>3, <1>11, Zenon DEF Refresh, At
  <2>2. MeshOf(netw', netw, netw.isMeshnetSet, RefreshRules(e.list), Forwards(e.list))
    BY <1>1, <2>1, RefreshFacts, Zenon
  <2>3. \A q \in Peers : Same(r[q], e.list[q])
    BY <1>6, <2>1, Zenon DEF GInv, Listing, Kept
  <2> QED
    BY <1>1, <1>5, <2>1, <2>2, <2>3, RefreshGrants, Zenon DEF MeshOf
<1>12. CASE SetMesh(c)
  <2>1. e.pc = "setMesh" /\ e.kind \in {"enable", "start"}
    BY <1>1, <1>12 DEF SetMesh, At, Shape, Where
  <2>2. CASE netw.isMeshnetSet
    <3>1. Unlisted(f) /\ Rests(netw, netw')
      BY <1>3, <1>12, <2>2 DEF SetMesh, Rests
    <3> QED
      BY <1>5, <1>6, <2>1, <3>1, Passes, Zenon
  <2>3. CASE ~netw.isMeshnetSet
    <3> DEFINE pc == IF e.kind = "enable" THEN "saveOn" ELSE "share"
               s == refresh(netw, e.list)
    <3>1. Goto(c, pc) /\ netw' = [s EXCEPT !.isMeshnetSet = TRUE] /\ pc \in {"saveOn", "share", "saveOff"}
      BY <1>12, <2>3 DEF SetMesh, Kind
    <3>2. MeshOf(s, netw, netw.isMeshnetSet, RefreshRules(e.list), Forwards(e.list))
      BY <1>1, RefreshFacts, Zenon
    <3> HIDE DEF s, pc
    <3>3. MeshOf(netw', s, TRUE, s.rules, s.exit)
      BY <3>1, <3>2, FlagChange, Zenon DEF MeshOf
    <3>4. netw'.rules = RefreshRules(e.list) /\ netw'.exit = Forwards(e.list)
      BY <3>2, <3>3, Zenon DEF MeshOf
    <3>5. \A q \in Peers : Same(r[q], e.list[q])
      BY <1>6, <2>1, Zenon DEF GInv, Listing, Kept
    <3>6. Unlisted(f)
      BY <1>4, <3>1
    <3> QED
      BY <1>1, <1>5, <3>4, <3>5, <3>6, RefreshGrants, Zenon
  <2> QED
    BY <2>2, <2>3
<1>13. CASE UnsetMesh(c)
  <2>1. Unlisted(f) /\ netw' = UnSetMesh(netw)
    BY <1>4, <1>13 DEF UnsetMesh
  <2>2. CASE netw.isMeshnetSet
    <3>1. netw' = [netw EXCEPT !.isMeshnetSet = FALSE, !.rules = {}, !.exit = NoForwards]
      BY <2>1, <2>2 DEF UnSetMesh
    <3>2. MeshOf(netw', netw, FALSE, {}, NoForwards)
      BY <1>1, <3>1, MeshChange, NoForwardsType, Zenon
    <3> QED
      BY <1>5, <2>1, <3>2, EmptyGrants, Zenon DEF MeshOf
  <2>3. CASE ~netw.isMeshnetSet
    <3>1. netw' = netw
      BY <2>1, <2>3 DEF UnSetMesh
    <3>2. GInv(f, r, netw')
      BY <1>6, <2>1, <2>3, <3>1, UnlistedFacts, Zenon DEF GInv, AllGranted
    <3> QED
      BY <1>5, <3>2
  <2> QED
    BY <2>2, <2>3
<1>14. CASE LibFailure(c)
  <2>1. netw' = [netw EXCEPT !.rules = {}, !.exit = NoForwards] /\ (Return(c) \/ Goto(c, "saveOff"))
    BY <1>14 DEF LibFailure
  <2>2. MeshOf(netw', netw, netw.isMeshnetSet, {}, NoForwards)
    BY <1>1, <2>1, BothChange, NoForwardsType, Zenon
  <2>3. Unlisted(f)
    BY <1>3, <1>4, <2>1
  <2> QED
    BY <1>5, <2>2, <2>3, EmptyGrants, Zenon DEF MeshOf
<1> QED
  BY <1>8, <1>9, <1>10, <1>11, <1>12, <1>13, <1>14

\* A peer that gets an address takes nothing away.
LEMMA AddressGrants ==
    ASSUME NEW e \in CallType, NEW r, NEW s, NEW n, GInv(e, r, n), Shape(e),
           \A q \in Peers : (s[q].listed <=> r[q].listed) /\ s[q].perm = r[q].perm /\ (r[q].addr => s[q].addr)
    PROVE  GInv(e, s, n)
<1>1. \A q \in Peers : Same(r[q], e.list[q]) => Same(s[q], e.list[q])
  BY Zenon DEF Same
<1>2. e.kind = "permission" => e.peer \in Peers
  BY Zenon DEF Shape, PeerKinds
<1>3. Kept(e, s)
  BY <1>1, Zenon DEF GInv, Listing, Kept
<1>4. Edited(e, s)
  <2>1. e.kind = "permission" => Wanted(e, s[e.peer]) = Wanted(e, r[e.peer])
    BY <1>2, Zenon DEF Wanted
  <2> QED
    BY <1>1, <1>2, <2>1, Zenon DEF GInv, Listing, Edited
<1>5. Addressed(s, n.rules)
  BY Zenon DEF GInv, Addressed
<1>6. AllGranted(e, s, n)
  BY Zenon DEF GInv, AllGranted, Granted, Has, LanAllowed
<1> QED
  BY <1>3, <1>4, <1>5, <1>6 DEF GInv, Listing

\* What happens outside the server, at any time of the handler.
LEMMA EnvironmentGrants ==
    ASSUME IInv, NEW c \in Calls, Grants(c), Answered, Environment
    PROVE  Grants(c)'
<1>1. RegistryOK /\ ConfigOK /\ NetwOK /\ calls[c] \in CallType /\ Shape(calls[c]) /\ GInv(calls[c], registry.peer, netw)
  BY DEF IInv, TypeInv, CallsOK, Grants
<1>2. calls' = calls
  BY Zenon DEF Environment, PeerJoins, PeerGetsAddress, MachineRemoved, Login, FileshareExits, ConnectServer, IsEnabled,
         Restart, StartAutoMeshnetEnds
<1>3. ASSUME registry'.peer = registry.peer, netw' = netw PROVE Grants(c)'
  BY <1>2, <1>3 DEF Grants
<1>4. ~PeerJoins
  BY Zenon DEF PeerJoins, Occurs, Answered
<1>5. CASE PeerGetsAddress
  <2>1. PICK p \in Offline : registry' = [registry EXCEPT !.peer[p].addr = TRUE]
    BY <1>5, Zenon DEF PeerGetsAddress
  <2>2. \A q \in Peers : registry.peer[q] \in Machine /\ registry.peer \in Lists
    BY <1>1 DEF RegistryOK, Lists
  <2>3. registry'.peer = [registry.peer EXCEPT ![p] = [registry.peer[p] EXCEPT !.addr = TRUE]]
    BY <1>1, <2>1 DEF RegistryOK
  <2>4. ASSUME NEW q \in Peers
        PROVE  /\ registry'.peer[q].listed <=> registry.peer[q].listed
               /\ registry'.peer[q].perm = registry.peer[q].perm
               /\ registry.peer[q].addr => registry'.peer[q].addr
    <3>1. registry'.peer[q] = registry.peer[q] \/ registry'.peer[q] = [registry.peer[q] EXCEPT !.addr = TRUE]
      BY <2>2, <2>3, Zenon DEF Lists
    <3> QED
      BY <2>2, <3>1 DEF Machine
  <2>5. netw' = netw
    BY <1>5 DEF PeerGetsAddress
  <2>6. GInv(calls[c], registry'.peer, netw)
    BY <1>1, <2>4, AddressGrants, Zenon
  <2> QED
    BY <1>2, <2>5, <2>6 DEF Grants
<1>6. CASE MachineRemoved
  BY <1>1, <1>3, <1>6 DEF MachineRemoved, RegistryOK
<1>7. CASE IsEnabled
  BY <1>1, <1>3, <1>7, RegisterFacts, Zenon DEF IsEnabled, Asked
<1>8. CASE Login \/ FileshareExits \/ StartAutoMeshnetEnds
  BY <1>3, <1>8 DEF Login, FileshareExits, StartAutoMeshnetEnds
<1>9. CASE ConnectServer
  <2>1. PICK vpn, last : VpnOf(netw', netw, vpn, last)
    <3>1. VpnOf([netw EXCEPT !.vpn = "server", !.lastServer = "server"], netw, "server", "server")
      BY <1>1, ConnectionChange, Zenon DEF NetwOK
    <3>2. VpnOf([netw EXCEPT !.vpn = None], netw, None, netw.lastServer)
      BY <1>1, ConnectionChange, Zenon DEF NetwOK
    <3> QED
      BY <1>9, <3>1, <3>2 DEF ConnectServer
  <2>2. netw'.rules = netw.rules /\ netw'.exit = netw.exit /\ netw'.isMeshnetSet = netw.isMeshnetSet
    BY <2>1 DEF VpnOf
  <2>3. registry' = registry
    BY <1>9 DEF ConnectServer
  <2> QED
    BY <1>1, <1>2, <2>2, <2>3, Zenon DEF Grants, GInv, AllGranted
<1>10. CASE Restart
  <2>1. calls[c] = Idle /\ netw' = NewNetworker /\ registry' = registry
    BY <1>10 DEF Restart
  <2>2. NewNetworker.rules = {} /\ NewNetworker.exit = NoForwards
    BY DEF NewNetworker
  <2>3. Unlisted(calls'[c])
    BY <1>2, <2>1, IdleFacts, Zenon DEF Fields, Unlisted
  <2> QED
    BY <2>1, <2>2, <2>3, EmptyGrants, Zenon DEF Grants
<1> QED
  BY <1>4, <1>5, <1>6, <1>7, <1>8, <1>9, <1>10 DEF Environment

-----------------------------------------------------------------------------
(* The theorem.                                                             *)

\* The fileshare job does not run.
NoJob(c) == calls[c].kind # "job"

\* No step makes a handler one of the fileshare job.
LEMMA NoJobStarts ==
    ASSUME IInv, NEW c \in Calls, NoJob(c), Answered, Handler(c) \/ Step(c)
    PROVE  NoJob(c)'
<1>1. CallsOK /\ calls[c] \in CallType
  BY DEF IInv, TypeInv, CallsOK
<1>2. ASSUME Return(c) PROVE NoJob(c)'
  BY <1>1, <1>2, ReturnFacts, IdleFacts DEF Fields, NoJob, None
<1>3. ASSUME NEW pc, Goto(c, pc) PROVE NoJob(c)'
  BY <1>1, <1>3 DEF Goto, CallsOK, CallType, NoJob
<1>4. ASSUME NEW list, NEW pc, Received(c, list, pc) PROVE NoJob(c)'
  <2>1. calls'[c] = [calls[c] EXCEPT !.list = list, !.pc = pc]
    BY <1>1, <1>4, Zenon DEF Received, CallsOK
  <2> QED
    BY <1>1, <2>1 DEF CallType, NoJob
<1>5. ASSUME NEW kind \in Kinds \ {"job"}, NEW p \in Peers \cup {None, Self}, NEW pc \in Pcs,
             calls' = [calls EXCEPT ![c] = [Idle EXCEPT !.kind = kind, !.pc = pc, !.peer = p]]
      PROVE  NoJob(c)'
  <2>1. kind \in Kinds /\ kind # "job"
    OBVIOUS
  <2>2. Fields(calls'[c], kind, pc, p, None, FALSE, FALSE)
    BY <1>1, <1>5, <2>1, PeerFacts, Zenon
  <2> QED
    BY <2>1, <2>2 DEF Fields, NoJob
<1>6. ASSUME NEW kind \in Kinds \ {"job"}, NEW perm \in Permissions \cup {None}, NEW grant \in BOOLEAN, PeerRequest(c, kind, perm, grant)
      PROVE  NoJob(c)'
  BY SMTT(30), <1>1, <1>6, RequestFacts DEF Fields, NoJob
<1>7. ASSUME NEW kind \in Kinds \ {"job"}, NEW p \in Peers \cup {None, Self}, NEW pc \in {"map", "list", "update"},
             LoadedRequest(c, kind, p, pc)
      PROVE  NoJob(c)'
  <2>1. calls' = [calls EXCEPT ![c] = [Idle EXCEPT !.kind = kind, !.pc = pc, !.peer = p]] /\ pc \in Pcs
    BY <1>7 DEF LoadedRequest, Pcs
  <2> QED
    BY <1>5, <2>1, Zenon
<1>8. ASSUME NEW kind \in Kinds \ {"job"}, NEW pc \in {"load", "map", "unshare", "stop"}, Begin(c, kind, pc)
      PROVE  NoJob(c)'
  BY SMTT(90), <1>1, <1>8, BeginFacts DEF Fields, Pcs, NoJob
<1>9. ASSUME NEW perm \in Permissions, NEW grant \in BOOLEAN, PermissionRequest(c, perm, grant) PROVE NoJob(c)'
  BY <1>6, <1>9 DEF PermissionRequest, Kinds
<1>10. CASE Handler(c)
  <2>1. CASE \/ AllowIncoming(c) \/ DenyIncoming(c) \/ AllowRouting(c) \/ DenyRouting(c)
             \/ AllowLocalNetwork(c) \/ DenyLocalNetwork(c) \/ AllowFileshare(c) \/ DenyFileshare(c)
    BY <1>9, <2>1, Zenon DEF AllowIncoming, DenyIncoming, AllowRouting, DenyRouting, AllowLocalNetwork, DenyLocalNetwork,
       AllowFileshare, DenyFileshare, Permissions
  <2>2. CASE EnableAutomaticFileshare(c) \/ DisableAutomaticFileshare(c) \/ RemovePeer(c) \/ AcceptInvite(c)
             \/ NotifyNewTransfer(c) \/ Connect(c)
    BY <1>6, <2>2, Zenon DEF EnableAutomaticFileshare, DisableAutomaticFileshare, RemovePeer, AcceptInvite, NotifyNewTransfer,
       Connect, Kinds
  <2>3. CASE RefreshMeshnet(c) \/ GetPeers(c) \/ ChangePeerNickname(c) \/ ChangeMachineNickname(c) \/ NotifyPeerUpdate(c)
    BY <1>7, <2>3, Zenon DEF RefreshMeshnet, GetPeers, ChangePeerNickname, ChangeMachineNickname, NotifyPeerUpdate, Kinds
  <2>4. CASE Invite(c) \/ DenyInvite(c) \/ RevokeInvite(c) \/ GetInvites(c)
    <3>1. InvitationRequest(c)
      BY <2>4 DEF Invite, DenyInvite, RevokeInvite, GetInvites
    <3> QED
      BY <1>8, <3>1 DEF InvitationRequest, Kinds
  <2>5. CASE EnableMeshnet(c) \/ StartMeshnet(c) \/ DisableMeshnet(c) \/ Logout(c) \/ SetDefaults(c)
    BY <1>8, <2>5, Zenon DEF EnableMeshnet, StartMeshnet, DisableMeshnet, Logout, SetDefaults, Kinds
  <2>6. CASE SetPostQuantum(c)
    <3>1. calls' = [calls EXCEPT ![c] = [Idle EXCEPT !.kind = "pq", !.pc = "savePq", !.grant = ~config.pq]]
      BY <2>6 DEF SetPostQuantum
    <3>2. "pq" \in Kinds /\ "savePq" \in Pcs /\ (~config.pq) \in BOOLEAN
      BY DEF Kinds, Pcs
    <3>3. Fields(calls'[c], "pq", "savePq", None, None, ~config.pq, FALSE)
      BY <1>1, <3>1, <3>2, GrantFacts, Zenon
    <3> QED
      BY <3>3, Zenon DEF Fields, NoJob
  <2>7. CASE RemoveUnregistered(c)
    <3>1. PICK p \in Peers : calls' = [calls EXCEPT ![c] = [Idle EXCEPT !.kind = "remove", !.pc = "remove", !.peer = p]]
      BY <2>7, Zenon DEF RemoveUnregistered
    <3>2. "remove" \in Kinds \ {"job"} /\ "remove" \in Pcs /\ p \in Peers \cup {None, Self}
      BY DEF Kinds, Pcs
    <3> QED
      BY <1>5, <3>1, <3>2, Zenon
  <2>8. ~JobMonitorFileshareProcess(c)
    BY DEF Answered, JobMonitorFileshareProcess, Free
  <2> QED
    BY <1>10, <2>1, <2>2, <2>3, <2>4, <2>5, <2>6, <2>7, <2>8, Zenon DEF Handler
<1>11. CASE Step(c)
  <2>1. CASE Load(c) \/ NotifyOff(c) \/ SaveOn(c) \/ SaveOff(c) \/ SavePostQuantum(c) \/ SaveName(c) \/ SaveDevice(c)
    BY <1>2, <1>3, <2>1 DEF Load, NotifyOff, SaveOn, SaveOff, SavePostQuantum, SaveName, SaveDevice
  <2>2. CASE StartFileshare(c) \/ StopFileshare(c) \/ StopVPN(c) \/ UnsetMesh(c) \/ ConnectPeer(c) \/ Connected(c)
    BY <1>2, <1>3, <2>2 DEF StartFileshare, StopFileshare, StopVPN, UnsetMesh, ConnectPeer, Connected
  <2>3. CASE Apply(c) \/ ResetPeers(c) \/ LibFailure(c) \/ RefreshIncoming(c) \/ Refresh(c) \/ SetMesh(c)
    BY <1>2, <1>3, <2>3, Zenon DEF Apply, ResetPeers, LibFailure, RefreshIncoming, Refresh, SetMesh
  <2>4. CASE Unauthorized(c) \/ ApiFailure(c) \/ Accept(c) \/ Invitations(c) \/ Remove(c) \/ Update(c)
    BY <1>2, <1>3, <2>4, Zenon DEF Unauthorized, ApiFailure, Accept, Invitations, Remove, Update
  <2>5. CASE Configure(c)
    <3>1. calls[c].kind \in {"permission", "nickname", "auto"}
      BY <2>5, Zenon DEF IInv, TypeInv, Shape, Where, Configure, At
    <3> QED
      BY <1>2, <1>3, <2>5, <3>1, Zenon DEF Configure, Kind
  <2>6. CASE List(c) \/ Map(c)
    <3>1. CASE Map(c)
      BY <1>4, <3>1 DEF Map
    <3>2. CASE List(c)
      BY <1>2, <1>3, <1>4, <3>2, Zenon DEF List, PermissionListed, PeerListed, PeersListed, JobListed
    <3> QED
      BY <2>6, <3>1, <3>2
  <2>7. CASE SelfRemoved(c)
    BY <1>1, <2>7, RemovedFacts, Zenon DEF Fields, NoJob
  <2>8. CASE NotifyOn(c)
    BY <1>7, <2>8 DEF NotifyOn, Kinds
  <2>9. ~Job(c)
    BY Zenon DEF IInv, TypeInv, Job, At, Shape, Where, NoJob
  <2> QED
    BY <1>11, <2>1, <2>2, <2>3, <2>4, <2>5, <2>6, <2>7, <2>8, <2>9, Zenon DEF Step
<1> QED
  BY <1>10, <1>11

\* The invariant, of a single handler.
LEMMA GrantsInvariant == ASSUME Sequential, Answered PROVE Spec => [](IInv /\ \A c \in Calls : NoJob(c) /\ Grants(c))
<1>1. Init => IInv /\ \A c \in Calls : NoJob(c) /\ Grants(c)
  <2> SUFFICES ASSUME Init PROVE IInv /\ \A c \in Calls : NoJob(c) /\ Grants(c)
    OBVIOUS
  <2>1. IInv
    BY InitKeeps
  <2>2. ASSUME NEW c \in Calls PROVE NoJob(c) /\ Grants(c)
    <3>1. calls[c] = Idle /\ netw = NewNetworker
      BY <2>2, Zenon DEF Init
    <3>2. NewNetworker.rules = {} /\ NewNetworker.exit = NoForwards
      BY DEF NewNetworker
    <3>3. Unlisted(calls[c]) /\ NoJob(c)
      BY <3>1, IdleFacts DEF Fields, Unlisted, NoJob, None
    <3> QED
      BY <3>1, <3>2, <3>3, EmptyGrants, Zenon DEF Grants
  <2> QED
    BY <2>1, <2>2
<1>2. ASSUME IInv, \A c \in Calls : NoJob(c) /\ Grants(c), [Next]_vars
      PROVE  (IInv /\ \A c \in Calls : NoJob(c) /\ Grants(c))'
  <2>1. IInv'
    BY <1>2, NextKeeps
  <2>2. CASE Environment
    <3>1. calls' = calls
      BY <2>2, Zenon DEF Environment, PeerJoins, PeerGetsAddress, MachineRemoved, Login, FileshareExits, ConnectServer, IsEnabled,
         Restart, StartAutoMeshnetEnds
    <3> QED
      BY <1>2, <2>1, <2>2, <3>1, EnvironmentGrants DEF NoJob
  <2>3. ASSUME NEW c \in Calls, Handler(c) \/ Step(c) PROVE (\A d \in Calls : NoJob(d) /\ Grants(d))'
    <3>1. NoJob(c)'
      BY <1>2, <2>3, NoJobStarts
    <3>2. ASSUME Handler(c) PROVE Grants(c)'
      BY <1>2, <3>2, HandlerGrants
    <3>3. ASSUME Step(c) PROVE Grants(c)'
      <4>1. ~Job(c) /\ ~Unauthorized(c) /\ ~ApiFailure(c)
        <5>1. ~Unauthorized(c) /\ ~ApiFailure(c)
          BY DEF Unauthorized, ApiFailure, Answered
        <5>2. Shape(calls[c]) /\ NoJob(c)
          BY <1>2 DEF IInv, TypeInv
        <5>3. ~Job(c)
          BY <5>2, Zenon DEF Job, At, Shape, Where, NoJob
        <5> QED
          BY <5>1, <5>3
      <4> QED
        BY <1>2, <3>3, <4>1, HandlerGrants, PassingStepGrants, ListStepGrants, RegistryStepGrants, NetworkerStepGrants, Zenon DEF Step
    <3> QED
      BY <2>3, <3>1, <3>2, <3>3 DEF Sequential
  <2>4. CASE UNCHANGED vars
    BY <1>2, <2>1, <2>4, Zenon DEF vars, Grants, NoJob
  <2> QED
    BY <1>2, <2>1, <2>2, <2>3, <2>4 DEF Next
<1> QED
  BY <1>1, <1>2, PTL DEF Spec

\* Between requests that come one at a time, no peer may do more than the
\* registry grants it, whatever was granted, denied, accepted, removed and
\* refreshed before, in whatever order, and however often the mesh library failed.
THEOREM PeersHaveWhatIsGranted == ASSUME Sequential, Answered PROVE Spec => []NoMoreThanGranted
<1>1. IInv /\ (\A c \in Calls : NoJob(c) /\ Grants(c)) => NoMoreThanGranted
  <2> SUFFICES ASSUME IInv, \A c \in Calls : NoJob(c) /\ Grants(c) PROVE NoMoreThanGranted
    OBVIOUS
  <2>1. PICK c : Calls = {c}
    BY DEF Sequential
  <2>2. ASSUME Quiet, netw.isMeshnetSet, NEW p \in Peers, registry.peer[p].listed
        PROVE  Granted(Idle, registry.peer[p], netw.rules, netw.exit, p)
    <3>1. calls[c] = Idle /\ Grants(c)
      BY <2>1, <2>2 DEF Quiet
    <3>2. ~Joining(Idle, p)
      BY IdleFacts DEF Joining, Fields
    <3> QED
      BY <2>2, <3>1, <3>2 DEF Grants, GInv, AllGranted
  <2>3. \A p, perms, pcs : Changing(Idle, p, perms, pcs) => "idle" \in pcs
    BY IdleFacts DEF Changing, Fields
  <2> QED
    BY <2>2, <2>3, Zenon DEF NoMoreThanGranted, Granted
<1> QED
  BY <1>1, GrantsInvariant, PTL
=============================================================================
