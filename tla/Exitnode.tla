------------------------------- MODULE Exitnode -------------------------------
(***************************************************************************)
(* The exit node (meshnet/exitnode): the iptables commands that turn the    *)
(* permissions of the peers into the FORWARD and POSTROUTING chains. Every  *)
(* operation is a sequence of commands that stops at the first one that     *)
(* fails; the chains outlive the daemon.                                    *)
(***************************************************************************)
EXTENDS Naturals, Sequences, SequencesExt, FiniteSets

CONSTANTS
    Peers,        \* peers of the mesh
    PeerMaps,     \* mesh maps: what this machine allows the peers that are in them
    Private,      \* private subnets (10.0.0.0/8, 172.16.0.0/12, ...)
    Ports,        \* ports of the allowlist and of the packets
    Allowlists,   \* allowlists of the user: subnets and ports
    Faults,       \* "iptables", "sysctl": a command may fail; "crash": the daemon may die
    MaxFaults     \* faults in a behaviour

VARIABLES
    chain,        \* the chains of the kernel, first rule first
    forward,      \* net.ipv4.ip_forward, and whether SysctlSetter changed it
    en,           \* Server: enabled, peers; what they were last reset with, and whether nothing
                  \* failed since; whether they were reset while it was not enabled
    al,           \* allowlistManager: its allowlist and its peers
    ok,           \* the last operation returned no error
    faults        \* how many faults there were

vars == <<chain, forward, en, al, ok, faults>>

Permissions == [routing : BOOLEAN, localNetwork : BOOLEAN]
MachinePeers == UNION {[ps -> Permissions] : ps \in SUBSET Peers}

None == <<>>
Anything == "any"
Mesh == "mesh"

Permanent == "nordvpn-exitnode-permanent"
Transient == "nordvpn-exitnode-transient"
Allowlisted == "nordvpn-exitnode-allowlist"
Msq == "nordvpn"

-----------------------------------------------------------------------------
(* iptables: rules, and the commands that change a chain.                   *)

Rule(src, dst, target, comment) ==
    [src |-> src, dst |-> dst, out |-> Anything, ports |-> None, related |-> FALSE,
     target |-> target, comment |-> comment]

\* A command on one rule. An error of a tolerated one skips the rest of its group.
Cmd(flag, name, rule) == [flag |-> flag, chain |-> name, rule |-> rule, group |-> None]
I(rule) == Cmd("-I", "FORWARD", rule)
D(rule) == Cmd("-D", "FORWARD", rule)

Run(tables, c) ==
    [tables EXCEPT ![c.chain] =
        CASE c.flag = "-I" -> <<c.rule>> \o @
          [] c.flag = "-A" -> Append(@, c.rule)
          [] c.flag = "-D" -> RemoveFirst(@, c.rule)]

\* What the commands leave behind when command k + 1 is the one that fails.
Done(cmds, k) ==
    IF k < Len(cmds) /\ cmds[k + 1].group # None
    THEN SubSeq(cmds, 1, k) \o
         SelectSeq(SubSeq(cmds, k + 1, Len(cmds)), LAMBDA c : c.group # cmds[k + 1].group)
    ELSE SubSeq(cmds, 1, k)

Succeeds(cmds, k) == k = Len(cmds) \/ cmds[k + 1].group # None

\* The number of commands that an operation gets through.
Reach(cmds) ==
    IF "iptables" \in Faults /\ faults < MaxFaults THEN 0 .. Len(cmds) ELSE {Len(cmds)}

Executed(cmds, k) == FoldLeft(Run, chain, Done(cmds, k))

\* The outcome of the operation that runs these commands, k of them well.
Outcome(cmds, k) ==
    /\ chain' = Executed(cmds, k)
    /\ ok' = Succeeds(cmds, k)
    /\ faults' = IF k = Len(cmds) THEN faults ELSE faults + 1

ForEach(set, Op(_)) ==
    LET seq == SetToSeq(set) IN FlattenSeq([i \in DOMAIN seq |-> Op(seq[i])])

Deletes(name, IsOurs(_)) ==
    LET rules == SelectSeq(chain[name], IsOurs)
    IN  [i \in DOMAIN rules |-> Cmd("-D", name, rules[i])]

-----------------------------------------------------------------------------
(* fw.go                                                                     *)

enableMasquerading(p) == <<Cmd("-A", "POSTROUTING", Rule(p, "outside", "MASQUERADE", Msq))>>

\* Everything that mentions nordvpn.
clearMasquerading == Deletes("POSTROUTING", LAMBDA r : r.comment = Msq)

\* A rule of the exit node, of either kind, that mentions the address.
checkFilteringRule(ip) ==
    \E i \in DOMAIN chain["FORWARD"] :
        LET r == chain["FORWARD"][i]
        IN  ip \in {r.src, r.dst} /\ r.comment \in {Permanent, Transient}

\* Who is not let through above is dropped, but for the answers.
enableFiltering ==
    IF checkFilteringRule(Mesh) THEN <<>>
    ELSE <<I(Rule(Mesh, Anything, "DROP", Permanent)),
           I(Rule(Anything, Mesh, "DROP", Permanent)),
           I([Rule(Anything, Mesh, "ACCEPT", Permanent) EXCEPT !.related = TRUE])>>

modifyPeerTraffic(flag, rule) == <<Cmd(flag, "FORWARD", rule)>>

AllowPeer(p) == modifyPeerTraffic("-I", Rule(p, Anything, "ACCEPT", Transient))

\* The block of a subnet is put back on the top of the chain.
refreshPrivateSubnetsBlock ==
    ForEach(Private, LAMBDA net :
        LET block == Rule(Mesh, net, "DROP", Transient)
        IN  modifyPeerTraffic("-D", block) \o modifyPeerTraffic("-I", block))

blockPhysicalForwarding ==
    <<I([Rule(Anything, Anything, "DROP", Transient) EXCEPT !.out = "physical"])>>

allowLocalNetworkAccess(p) ==
    ForEach(Private, LAMBDA net : <<I(Rule(p, net, "ACCEPT", Transient))>>)

clearExitnodeForwardRules == Deletes("FORWARD", LAMBDA r : r.comment = Transient)

\* Mutant: a peer with both permissions gets the single rule with the kill switch on.
resetPeersTrafficMutant(peers, killswitch) ==
    clearMasquerading \o clearExitnodeForwardRules
    \o refreshPrivateSubnetsBlock
    \o (IF killswitch THEN blockPhysicalForwarding ELSE <<>>)
    \o ForEach({p \in DOMAIN peers : peers[p].localNetwork}, LAMBDA p :
           IF peers[p].routing THEN AllowPeer(p) ELSE allowLocalNetworkAccess(p))
    \o ForEach({p \in DOMAIN peers : peers[p].routing}, enableMasquerading)

\* The chain is built from its bottom to its top.
resetPeersTraffic(peers, killswitch) ==
    clearMasquerading \o clearExitnodeForwardRules
    \o ForEach({p \in DOMAIN peers :
                   peers[p].routing /\ (~peers[p].localNetwork \/ killswitch)}, AllowPeer)
    \o refreshPrivateSubnetsBlock
    \o (IF killswitch THEN blockPhysicalForwarding ELSE <<>>)
    \o ForEach({p \in DOMAIN peers : peers[p].localNetwork}, LAMBDA p :
           IF peers[p].routing /\ ~killswitch THEN AllowPeer(p)
           ELSE allowLocalNetworkAccess(p))
    \o ForEach({p \in DOMAIN peers : peers[p].routing}, enableMasquerading)

\* Both kinds of filter rules, and not those of the allowlist.
clearFiltering == Deletes("FORWARD", LAMBDA r : r.comment \in {Permanent, Transient})

-----------------------------------------------------------------------------
(* allowlist.go                                                              *)

PortsToPortRanges(ports) ==
    FoldLeft(LAMBDA ranges, port :
                 IF ranges # <<>> /\ port = Last(ranges).Max + 1
                 THEN Front(ranges) \o <<[Last(ranges) EXCEPT !.Max = port]>>
                 ELSE Append(ranges, [Min |-> port, Max |-> port]),
             <<>>, SetToSortSeq(ports, <))

\* Port rules only where routing is permitted: they would route to the outside.
allowlistRuleToFirewall(peers, flag, rule, isPort) ==
    ForEach({p \in DOMAIN peers : peers[p].localNetwork /\ (isPort => peers[p].routing)},
        LAMBDA p : <<Cmd(flag, "FORWARD", [rule EXCEPT !.src = p])>>)

\* Subnets that are not private are left out; only removing a subnet tolerates errors.
allowlistToFirewall(allowlist, peers, flag) ==
    ForEach(allowlist.subnets \cap Private, LAMBDA net :
        LET cmds == allowlistRuleToFirewall(peers, flag, Rule(Anything, net, "ACCEPT", Allowlisted), FALSE)
        IN  [i \in DOMAIN cmds |-> [cmds[i] EXCEPT !.group = IF flag = "-D" THEN <<net>> ELSE None]])
    \o FlattenSeq([i \in DOMAIN PortsToPortRanges(allowlist.ports) |->
           allowlistRuleToFirewall(peers, flag,
               [Rule(Anything, Anything, "ACCEPT", Allowlisted) EXCEPT
                    !.ports = PortsToPortRanges(allowlist.ports)[i]], TRUE)])

enableAllowlist(a) == allowlistToFirewall(a.allowlist, a.peers, "-I")
disableAllowlist(a) == allowlistToFirewall(a.allowlist, a.peers, "-D")

-----------------------------------------------------------------------------
(* server.go; its own lock keeps the operations apart: the networker calls    *)
(* most of them under its lock, and ResetPeers, for ResetRouting, without.   *)

NotEnabled == [enabled |-> FALSE, peers |-> None, lan |-> TRUE, ks |-> FALSE, fresh |-> FALSE, late |-> FALSE]

Init ==
    /\ chain = [FORWARD |-> <<>>, POSTROUTING |-> <<>>]
    /\ forward \in [value : {0, 1}, changed : {FALSE}]
    /\ en = NotEnabled
    /\ \E list \in Allowlists : al = [allowlist |-> list, peers |-> None]
    /\ ok = TRUE
    /\ faults = 0

SysctlSet == forward' = [value |-> 1, changed |-> forward.changed \/ forward.value # 1]
SysctlUnset == forward' = IF forward.changed THEN [value |-> 0, changed |-> FALSE] ELSE forward

\* The value could not be read, or not be written.
SysctlFails ==
    /\ "sysctl" \in Faults /\ faults < MaxFaults
    /\ ok' = FALSE /\ faults' = faults + 1

Enable ==
    /\ \/ /\ SysctlSet
          /\ \E k \in Reach(enableFiltering) :
               /\ Outcome(enableFiltering, k)
               /\ en' = [en EXCEPT !.enabled = @ \/ Succeeds(enableFiltering, k)]
       \/ /\ SysctlFails
          /\ forward' \in {forward, [forward EXCEPT !.changed = @ \/ forward.value # 1]}
          /\ UNCHANGED <<chain, en>>
    /\ UNCHANGED al

\* The peers' rules, the allowlist of the previous peers off, that of these on.
resetPeers(peers, lanAvailable, killswitch) ==
    LET traffic == resetPeersTraffic([p \in DOMAIN peers |->
                       [peers[p] EXCEPT !.localNetwork = @ /\ lanAvailable]], killswitch)
                   \o disableAllowlist(al)
        next == IF lanAvailable THEN al ELSE [al EXCEPT !.peers = peers]
        cmds == traffic \o (IF lanAvailable THEN <<>> ELSE enableAllowlist(next))
    IN  \E k \in Reach(cmds) :
          /\ Outcome(cmds, k)
          /\ al' = IF Succeeds(cmds, k) \/ k >= Len(traffic) THEN next ELSE al
          /\ en' = [en EXCEPT !.peers = peers, !.lan = lanAvailable, !.ks = killswitch,
                           !.fresh = Succeeds(cmds, k), !.late = @ \/ ~en.enabled]

\* Also when it is not enabled: a permission may change while meshnet is turned off or set up.
ResetPeers ==
    /\ \E peers \in PeerMaps, lanAvailable, killswitch \in BOOLEAN :
         resetPeers(peers, lanAvailable, killswitch)
    /\ UNCHANGED forward

\* enabled is read before the lock; after a Disable in between it does what ResetPeers does.
ResetFirewall ==
    /\ en.enabled
    /\ \E lanAvailable, killswitch \in BOOLEAN : resetPeers(en.peers, lanAvailable, killswitch)
    /\ UNCHANGED forward

\* The filters, the masquerading, forwarding, and at last the allowlist.
Disable ==
    LET filters == clearFiltering \o clearMasquerading
        cmds == filters \o disableAllowlist(al)
    IN  /\ \/ \E k \in Reach(cmds) :
                /\ Outcome(cmds, k)
                /\ IF k < Len(filters) THEN UNCHANGED forward ELSE SysctlUnset
                /\ en' = IF Succeeds(cmds, k)
                         THEN [en EXCEPT !.enabled = FALSE, !.fresh = FALSE, !.late = FALSE]
                         ELSE [en EXCEPT !.fresh = FALSE]
           \/ /\ SysctlFails /\ forward.changed
              /\ chain' = Executed(filters, Len(filters))
              /\ en' = [en EXCEPT !.fresh = FALSE]
              /\ UNCHANGED forward
        /\ UNCHANGED al

\* The old allowlist off, the new one on when the LAN is not available anyway.
SetAllowlist ==
    \E list \in Allowlists, lanAvailable \in BOOLEAN :
        LET next == [al EXCEPT !.allowlist = list]
            off == disableAllowlist(al)
            cmds == off \o (IF en.enabled /\ ~lanAvailable THEN enableAllowlist(next) ELSE <<>>)
        IN  /\ lanAvailable = en.lan
            /\ \E k \in Reach(cmds) :
                 /\ Outcome(cmds, k)
                 /\ al' = IF Succeeds(cmds, k) \/ k >= Len(off) THEN next ELSE al
                 /\ en' = [en EXCEPT !.fresh = @ /\ en.enabled /\ Succeeds(cmds, k)]
            /\ UNCHANGED forward

\* The daemon starts again: its chains and sysctl values are still there.
Restart ==
    /\ "crash" \in Faults /\ faults < MaxFaults
    /\ faults' = faults + 1
    /\ en' = NotEnabled
    /\ al' = [al EXCEPT !.peers = None]
    /\ forward' = [forward EXCEPT !.changed = FALSE]
    /\ ok' = TRUE
    /\ UNCHANGED chain

Next ==
    \/ Enable
    \/ ResetPeers
    \/ ResetFirewall
    \/ Disable
    \/ SetAllowlist
    \/ Restart

Spec == Init /\ [][Next]_vars

-----------------------------------------------------------------------------
(* What the chains let through.                                             *)

Packets == [src : Peers, dst : Private \cup {"public"}, out : {"physical", "tunnel"}, port : Ports]

Matches(r, p) ==
    /\ r.src \in {Anything, Mesh, p.src}
    /\ r.dst \in {Anything, p.dst}
    /\ r.out \in {Anything, p.out}
    /\ r.ports # None => p.port \in r.ports.Min .. r.ports.Max
    /\ ~r.related

Verdict(p) ==
    LET first == SelectInSeq(chain["FORWARD"], LAMBDA r : Matches(r, p))
    IN  IF first = 0 THEN "policy" ELSE chain["FORWARD"][first].target

\* What the permissions and the settings say of a new packet.  That local access depends on
\* LAN discovery and the allowlist is what resetPeers does; its TODO says it should not.
Permitted(p) ==
    LET perm == en.peers[p.src]
        listed == \/ p.dst \in al.allowlist.subnets \cap Private
                  \/ perm.routing /\ p.port \in al.allowlist.ports
    IN  /\ p.src \in DOMAIN en.peers
        /\ \/ p.dst = "public" /\ perm.routing /\ ~(en.ks /\ p.out = "physical")
           \/ p.dst \in Private /\ perm.localNetwork /\ en.lan
           \/ ~en.lan /\ perm.localNetwork /\ listed

ExitnodeTypeOK ==
    /\ forward \in [value : {0, 1}, changed : BOOLEAN]
    /\ en.peers \in MachinePeers /\ al.peers \in MachinePeers
    /\ al.allowlist \in Allowlists
    /\ {en.enabled, en.lan, en.ks, en.fresh, en.late, ok} \subseteq BOOLEAN

\* While the exit node is on, its peers are set and no command failed, a packet of a peer is
\* forwarded exactly when the peer's permissions, LAN discovery, the kill switch and the allowlist say so:
\* the order in which resetPeersTraffic builds the chain (fw.go) gives the right verdict.
\* That other packets are dropped takes peers that were not reset while it was off: their
\* rules name the mesh, and Enable then takes its own to be there (checkFilteringRule).
ForwardsWhatIsPermitted ==
    (en.enabled /\ en.fresh) =>
        \A p \in Packets : IF Permitted(p) THEN Verdict(p) = "ACCEPT" ELSE en.late \/ Verdict(p) = "DROP"

\* Disable leaves neither a rule nor the forwarding that Enable turned on (server.go:120),
\* until the peers are reset again.
DisabledLeavesNothing ==
    (~en.enabled /\ ok /\ ~en.late) => chain["FORWARD"] = <<>> /\ chain["POSTROUTING"] = <<>> /\ ~forward.changed

TransientRules(tables) == SelectSeq(tables["FORWARD"], LAMBDA r : r.comment = Transient)

\* A reset that succeeds leaves the peers' rules as if it were the first one, whatever failed
\* half-way or survived a crash before it (fw.go:212).
ResetRepairs ==
    en.fresh =>
        /\ TransientRules(chain) =
             TransientRules(FoldLeft(Run, [FORWARD |-> <<>>, POSTROUTING |-> <<>>],
                 resetPeersTraffic([p \in DOMAIN en.peers |->
                     [en.peers[p] EXCEPT !.localNetwork = @ /\ en.lan]], en.ks)))
        /\ {r.src : r \in Range(chain["POSTROUTING"])}
             = {p \in DOMAIN en.peers : en.peers[p].routing}
=============================================================================
