------------------------------ MODULE Iptables ------------------------------
(***************************************************************************)
(* What a firewall.Rule means to a packet once the iptables agent          *)
(* (daemon/firewall/iptables/iptables.go) has expanded it into commands,   *)
(* for the rules the networker really adds; and the marks of the           *)
(* allowlisted ports (daemon/firewall/allowlist/allowlist_routing.go).     *)
(*                                                                         *)
(* The agent's -I puts every line at the head of its chain and -D deletes  *)
(* the first equal line, so the last rule added is evaluated first, and    *)
(* the lines of one rule from its last to its first.  A nil slice of a     *)
(* rule is written Nil.                                                    *)
(***************************************************************************)
EXTENDS Sequences, SequencesExt, Integers, FiniteSets

CONSTANTS Names,          \* which of the networker's rules are used
          PortLists,      \* allowlisted ports
          ListsAsGiven,   \* iptables -L shows a port as it was given ("--dport 22")
          MaxFaults       \* bound: iptables commands that fail on the mangle table

VARIABLES chains,     \* [family -> lines of the filter table, first match first]
          installed,  \* names of the rules added, newest first
          mangle,     \* [chain -> port ranges that are marked]
          ports,      \* the allowlisted ports, {} when disabled
          faults

vars == <<chains, installed, mangle, ports, faults>>

Nil == <<"nil">>
Blank == [ifaces |-> Nil, remote |-> Nil, locals |-> Nil, protos |-> Nil, ports |-> <<0>>, flags |-> <<"sport", "dport">>,
          icmp |-> <<0>>, direction |-> "TwoWay", allow |-> TRUE, marks |-> <<0>>, v6only |-> FALSE]

\* The rules of networker.go.  Networks: a peer (v4), the meshnet (v4), two
\* LANs (v4), a public subnet (v4) and a v6 one.
RuleOf(name) ==
    CASE name = "drop" -> [Blank EXCEPT !.ifaces = <<"eth0">>, !.allow = FALSE]
      [] name = "drop-fw" -> [Blank EXCEPT !.ifaces = <<"eth0">>, !.allow = FALSE, !.direction = "Forward"]
      [] name = "icmp6" -> [Blank EXCEPT !.ifaces = <<"eth0">>, !.protos = <<"icmp6">>, !.v6only = TRUE, !.icmp = <<1, 128>>]
      [] name = "allowlist_subnets" -> [Blank EXCEPT !.ifaces = <<"eth0">>, !.remote = <<"pub4", "pub6">>]
      [] name = "allowlist_ports_tcp" -> [Blank EXCEPT !.ifaces = <<"eth0">>, !.protos = <<"tcp">>, !.ports = <<5, 4, 2>>]
      [] name = "api_allowlist" -> [Blank EXCEPT !.ifaces = <<"eth0">>, !.marks = <<7>>]
      [] name = "mesh_block" -> [Blank EXCEPT !.remote = <<"mesh">>, !.direction = "Inbound", !.allow = FALSE]
      [] name = "allow_peer" -> [Blank EXCEPT !.remote = <<"peer">>, !.direction = "Inbound"]
      [] name = "block_lan" -> [Blank EXCEPT !.remote = <<"peer">>, !.locals = <<"lan1", "lan2">>,
                                             !.direction = "Inbound", !.allow = FALSE]
      [] OTHER (* DNS over the LAN *) -> [Blank EXCEPT !.remote = <<"lan1", "lan2">>, !.protos = <<"udp", "tcp">>,
                     !.ports = <<5>>, !.flags = <<"dport">>, !.direction = "Outbound", !.allow = FALSE]

Family(net) == IF net = "nil" THEN "none" ELSE IF net = "pub6" THEN "v6" ELSE "v4"

----------------------------------------------------------------------------
\* The expansion

SortedPorts(ps) == SetToSortSeq(ToSet(ps), <)

\* Consecutive ports become one range; the argument is sorted in place.
PortsToPortRanges(ps) ==
    LET sorted == SortedPorts(ps)
        Grow(rs, p) == IF rs # <<>> /\ Last(rs).max + 1 = p THEN [rs EXCEPT ![Len(rs)].max = p]
                       ELSE Append(rs, [min |-> p, max |-> p])
    IN  FoldLeft(Grow, <<>>, sorted)

toChainSlice(direction) ==
    CASE direction = "Inbound" -> <<"INPUT">> [] direction = "Outbound" -> <<"OUTPUT">>
      [] direction = "TwoWay" -> <<"INPUT", "OUTPUT">> [] OTHER -> <<"FORWARD">>

\* Mutant: the mark is saved after the packet is decided.
toTargetSliceMutant(allow, chain, marks) ==
    IF chain = "OUTPUT" /\ marks[1] # 0 THEN <<"CONNMARK", IF allow THEN "ACCEPT" ELSE "DROP">>
    ELSE <<IF allow THEN "ACCEPT" ELSE "DROP">>

toTargetSlice(allow, chain, marks) ==
    <<IF allow THEN "ACCEPT" ELSE "DROP">> \o (IF chain = "OUTPUT" /\ marks[1] # 0 THEN <<"CONNMARK">> ELSE <<>>)

portsDirectionToPortsFlag(rule, range) == IF range.min = 0 THEN <<"">> ELSE rule.flags

\* A packet with the mark is matched by CONNMARK, a connection with it by the
\* other targets.
generateIPTablesRule(chain, target, iface, remote, lnet, proto, range, flag, icmp, mark) ==
    [chain |-> chain, target |-> target, iface |-> iface, remote |-> remote, lnet |-> lnet, proto |-> proto,
     range |-> range, flag |-> flag, icmp |-> icmp, mark |-> mark,
     on |-> IF target = "CONNMARK" THEN "mark" ELSE "connmark"]

\* "for _, x := range list", what each element gives appended.
Each(list, Of(_)) ==
    LET upto[n \in 0..Len(list)] == IF n = 0 THEN <<>> ELSE upto[n - 1] \o Of(list[n])
    IN  upto[Len(list)]

\* The n-fold product of a rule's fields, as pairs of a family and a line.
ruleToIPTables(rule, family) ==
    Each(rule.ifaces, LAMBDA iface :
    Each(rule.remote, LAMBDA remote :
    Each(rule.locals, LAMBDA lnet :
    Each(PortsToPortRanges(rule.ports), LAMBDA range :
    Each(rule.protos, LAMBDA proto :
    Each(toChainSlice(rule.direction), LAMBDA chain :
    Each(rule.icmp, LAMBDA icmp :
    Each(toTargetSlice(rule.allow, chain, rule.marks), LAMBDA target :
    Each(rule.marks, LAMBDA mark :
    Each(portsDirectionToPortsFlag(rule, range), LAMBDA flag :
        LET nets == {Family(remote), Family(lnet)}
            families == IF rule.v6only \/ "v6" \in nets THEN {"v6"} ELSE IF "v4" \in nets THEN {"v4"} ELSE {"v4", "v6"}
        IN  IF family \in families
            THEN <<generateIPTablesRule(chain, target, iface, remote, lnet, proto, range, flag, icmp, mark)>>
            ELSE <<>>))))))))))

Families == {"v4", "v6"}

\* applyRule, in each of the supported families.
Add(name) ==
    /\ name \notin ToSet(installed)
    /\ chains' = [fam \in Families |-> Reverse(ruleToIPTables(RuleOf(name), fam)) \o chains[fam]]
    /\ installed' = <<name>> \o installed
    /\ UNCHANGED <<mangle, ports, faults>>

Delete(name) ==
    /\ name \in ToSet(installed)
    /\ chains' = [fam \in Families |-> FoldLeft(LAMBDA c, line : RemoveFirst(c, line), chains[fam],
                                                ruleToIPTables(RuleOf(name), fam))]
    /\ installed' = Remove(installed, name)
    /\ UNCHANGED <<mangle, ports, faults>>

----------------------------------------------------------------------------
\* The marks of the allowlisted ports; both chains by the same ranges.

checkRouting(m, range) == ListsAsGiven /\ Contains(m["PREROUTING"], range)

MaxMarked == 6   \* bound: marked ranges in a chain

\* One command of a range's two may fail (at = 1, 2); 0: none does.
routePortsToIPTables(m, range, at) ==
    IF checkRouting(m, range) \/ at = 1 THEN m
    ELSE LET pre == [m EXCEPT !["PREROUTING"] = <<range>> \o @]
         IN  IF at = 2 THEN pre ELSE [pre EXCEPT !["OUTPUT"] = <<range>> \o @]

\* The first error ends the call: fail is the range it happens at.
EnablePorts(ps) ==
    LET ranges == PortsToPortRanges(ps)
    IN  /\ ports = {} /\ Len(mangle["OUTPUT"]) < MaxMarked
        /\ \/ /\ mangle' = FoldLeft(LAMBDA m, range : routePortsToIPTables(m, range, 0), mangle, ranges)
              /\ ports' = ToSet(ps) /\ faults' = faults
           \/ /\ faults < MaxFaults
              /\ \E n \in DOMAIN ranges, at \in {1, 2} :
                    mangle' = routePortsToIPTables(
                        FoldLeft(LAMBDA m, range : routePortsToIPTables(m, range, 0), mangle, SubSeq(ranges, 1, n - 1)),
                        ranges[n], at)
              /\ ports' = ports /\ faults' = faults + 1
        /\ UNCHANGED <<chains, installed>>

\* Every line with the daemon's comment is deleted, one by one, in both chains.
Disable ==
    /\ mangle' = [c \in DOMAIN mangle |-> <<>>] /\ ports' = {}
    /\ UNCHANGED <<chains, installed, faults>>

Init ==
    /\ chains = [fam \in Families |-> <<>>] /\ installed = <<>>
    /\ mangle = [c \in {"PREROUTING", "OUTPUT"} |-> <<>>] /\ ports = {} /\ faults = 0

Next ==
    \/ \E name \in Names : Add(name) \/ Delete(name)
    \/ \E ps \in PortLists : EnablePorts(ps)
    \/ Disable

Spec == Init /\ [][Next]_vars

----------------------------------------------------------------------------
\* A packet of the host, and what the kernel decides about it.
Packets ==
    LET P(fam, chain, iface, remote, lnet, proto, sport, dport, mark, ct) ==
            [fam |-> fam, chain |-> chain, iface |-> iface, remote |-> remote, lnet |-> lnet, proto |-> proto,
             sport |-> sport, dport |-> dport, mark |-> mark, ct |-> ct]
    IN  {P("v4", chain, iface, remote, lnet, proto, sport, dport, marks[1], marks[2]) :
            chain \in {"INPUT", "OUTPUT", "FORWARD"}, iface \in {"eth0", "tun0"}, remote \in {"peer", "pub4", "lan1"},
            lnet \in {"lan1", "own"}, proto \in {"tcp"}, sport \in {1, 4}, dport \in {3, 5}, marks \in {<<0, 0>>, <<7, 0>>, <<0, 7>>}}
        \cup {P("v6", chain, "eth0", remote, "own", proto, sport, 1, 0, 0) :
            chain \in {"INPUT", "OUTPUT"}, remote \in {"pub6", "other6"}, proto \in {"tcp", "icmp6"}, sport \in {2, 128}}

NetMatches(net, addr) == net = "nil" \/ net = addr \/ (net = "mesh" /\ addr = "peer")

LineMatches(line, p, ct) ==
    /\ line.chain = p.chain /\ line.iface \in {"nil", p.iface} /\ line.proto \in {"nil", p.proto}
    /\ NetMatches(line.remote, p.remote) /\ NetMatches(line.lnet, p.lnet)
    /\ line.flag = "sport" => p.sport \in line.range.min..line.range.max
    /\ line.flag = "dport" => p.dport \in line.range.min..line.range.max
    /\ line.icmp # 0 => p.sport = line.icmp   \* an ICMPv6 packet's type is kept in sport
    /\ line.mark # 0 => line.mark = IF line.on = "mark" THEN p.mark ELSE ct

Verdict(chain, p) ==
    FoldLeft(LAMBDA s, line :
                IF s.verdict # "none" \/ ~LineMatches(line, p, s.ct) THEN s
                ELSE IF line.target = "CONNMARK" THEN [s EXCEPT !.ct = p.mark]
                ELSE [s EXCEPT !.verdict = line.target],
             [verdict |-> "none", ct |-> p.ct], chain).verdict

\* What the rule says, read off its fields.
Covers(rule, p) ==
    LET Some1(list, Matches(_)) == list = Nil \/ \E i \in DOMAIN list : Matches(list[i])
    IN  /\ p.chain \in ToSet(toChainSlice(rule.direction))
        /\ Some1(rule.ifaces, LAMBDA iface : iface = p.iface) /\ Some1(rule.protos, LAMBDA proto : proto = p.proto)
        /\ Some1(rule.remote, LAMBDA net : NetMatches(net, p.remote)) /\ Some1(rule.locals, LAMBDA net : NetMatches(net, p.lnet))
        /\ rule.ports # <<0>> => \E flag \in ToSet(rule.flags) : (IF flag = "sport" THEN p.sport ELSE p.dport) \in ToSet(rule.ports)
        /\ rule.icmp # <<0>> => p.sport \in ToSet(rule.icmp)
        /\ rule.marks # <<0>> => (p.ct = rule.marks[1] \/ (p.chain = "OUTPUT" /\ p.mark = rule.marks[1]))
        /\ rule.v6only => p.fam = "v6"

\* The types of the variables.
IptablesTypeOK ==
    /\ DOMAIN chains = Families /\ \A fam \in Families, i \in 1..3 : i \in DOMAIN chains[fam] => chains[fam][i].range.min >= 0
    /\ ToSet(installed) \subseteq Names /\ Cardinality(ToSet(installed)) = Len(installed)
    /\ faults \in 0..MaxFaults

\* The kernel decides every packet as the newest rule that speaks of it
\* says, however the rules were added and deleted, although a rule is spread
\* over families, chains, port ranges, directions of a port and, for marked
\* traffic, two lines whose order matters (ruleToIPTables, toTargetSlice).
NewestRuleDecides ==
    \A p \in Packets :
        LET speaking == SelectSeq(installed, LAMBDA name : Covers(RuleOf(name), p))
        IN  Verdict(chains[p.fam], p) = IF speaking = <<>> THEN "none" ELSE IF RuleOf(speaking[1]).allow THEN "ACCEPT" ELSE "DROP"

\* Between EnablePorts and Disable exactly the allowlisted ports are marked,
\* in both directions, and after Disable none is: what a failed EnablePorts
\* left behind included (getCleanupIPTablesRules).  A range that a failing command
\* left marked in one direction only stays so until Disable, and is left out.
PortsMarkedBothWays ==
    \A chain \in DOMAIN mangle :
        LET marked == UNION {r.min..r.max : r \in ToSet(mangle[chain])}
        IN  (faults = 0 \/ (mangle["PREROUTING"] = <<>>)) => marked = ports
=============================================================================
