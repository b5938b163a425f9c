---------------------------- MODULE FirewallManager ----------------------------
(***************************************************************************)
(* The firewall manager (daemon/firewall/firewall_manager.go) and the       *)
(* iptables manager below it (daemon/firewall/iptables_manager): rules with *)
(* a priority, the line a rule is inserted at, and the lists of rules that  *)
(* are removed later. Every operation is a sequence of iptables commands    *)
(* and stops at the first that fails.                                       *)
(***************************************************************************)
EXTENDS Integers, Sequences, SequencesExt, FiniteSets

CONSTANTS
    Peers,        \* peers of the mesh
    Lans,         \* private subnets that a peer may be kept out of
    Ifaces,       \* what devices() lists
    PortSets,     \* sets of ports that SetAllowlist may get
    ip6tablesSupported,
    Ops,          \* operations of the manager that are called
    MaxListed,    \* rules that an allowlist may collect
    MaxForeign,   \* rules that others insert
    MaxFaults     \* commands that fail

VARIABLES
    tables,       \* the chains of both commands, first rule first
    f,            \* FirewallManager: the rules it remembers
    faults        \* commands that failed

vars == <<tables, f, faults>>

TrafficBlock == 0
ApiAllowlistMark == 1
ApiAllowlistOutputConnmark == 2
UserAllowlist == 3
MeshnetFileshare == 4
MeshnetIncoming == 5
MeshnetBlockIncomingLAN == 6
Foreign == -1

Nil == "nil"
Commands == {"iptables", "ip6tables"}
Chains == {"INPUT", "OUTPUT"}
NewFwRule(chain, version, params, priority) ==
    [chain |-> chain, version |-> version, params |-> params, priority |-> priority]

Init ==
    /\ tables = [c \in Commands |-> [chain \in Chains |-> <<>>]]
    /\ f = [allowlist |-> <<>>, trafficBlock |-> Nil, apiAllowlist |-> <<>>,
            allowIncoming |-> <<>>, fileshare |-> <<>>]
    /\ faults = 0

-----------------------------------------------------------------------------
(* iptables_manager.go                                                       *)

IsOurs(rule) == rule.priority # Foreign

\* Above the first of our rules with the same or a lower priority, else below our last one.
getRuleLine(lines, priority) ==
    IF SelectLastInSeq(lines, IsOurs) = 0 THEN 1
    ELSE LET next == SelectInSeq(lines, LAMBDA r : IsOurs(r) /\ r.priority <= priority)
         IN  IF next = 0 THEN SelectLastInSeq(lines, IsOurs) + 1 ELSE next

\* The commands that executeCommand runs for a rule, iptables before ip6tables.
CommandsOf(rule) ==
    (IF rule.version \in {"IPv4", "Both"} THEN <<"iptables">> ELSE <<>>)
    \o (IF rule.version # "IPv4" /\ ip6tablesSupported THEN <<"ip6tables">> ELSE <<>>)

Insert(t, command, rule) ==
    [t EXCEPT ![command][rule.chain] = InsertAt(@, getRuleLine(@, rule.priority), rule)]

Delete(t, command, rule) == [t EXCEPT ![command][rule.chain] = RemoveFirst(@, rule)]

\* Runs the commands of the rules until one fails: deleting what is not there, or the one
\* whose number is broken. done counts the rules that went through.
executeCommands(rules, insert, broken) ==
    LET Step(st, c) ==
            LET rule == rules[c[1]]
            IN  IF ~st.ok THEN st
                ELSE IF \/ st.n + 1 = broken
                        \/ ~insert /\ ~Contains(st.t[c[2]][rule.chain], rule)
                THEN [st EXCEPT !.ok = FALSE]
                ELSE [ok |-> TRUE, n |-> st.n + 1,
                      t |-> IF insert THEN Insert(st.t, c[2], rule) ELSE Delete(st.t, c[2], rule),
                      done |-> IF c[2] = Last(CommandsOf(rule)) THEN c[1] ELSE st.done]
        cmds == FlattenSeq([i \in DOMAIN rules |->
                    [j \in DOMAIN CommandsOf(rules[i]) |-> <<i, CommandsOf(rules[i])[j]>>]])
        end == FoldLeft(Step, [ok |-> TRUE, n |-> 0, t |-> tables, done |-> 0], cmds)
    IN  IF end.ok THEN [end EXCEPT !.done = Len(rules)] ELSE end

\* Insert or delete the rules; what the manager remembers depends on how that went.
Execute(rules, insert, Remember(_)) ==
    \E broken \in IF faults < MaxFaults THEN 0 .. 2 * Len(rules) ELSE {0} :
        LET end == executeCommands(rules, insert, broken)
        IN  /\ tables' = end.t
            /\ f' = Remember(end)
            /\ faults' = IF end.ok \/ broken = 0 THEN faults ELSE faults + 1

-----------------------------------------------------------------------------
(* Meshnet.                                                                 *)

BlockLan(peer, lan) ==
    NewFwRule("INPUT", "IPv4", [src |-> peer, dst |-> lan, target |-> "DROP"], MeshnetBlockIncomingLAN)
AllowPeer(peer) ==
    NewFwRule("INPUT", "IPv4", [src |-> peer, target |-> "ACCEPT"], MeshnetIncoming)

Set(map, key, value) == [k \in DOMAIN map \cup {key} |-> IF k = key THEN value ELSE map[k]]
Unset(map, key) == [k \in DOMAIN map \ {key} |-> map[k]]

\* The peer is kept out of the LAN before it is let in; remembered when all is done.
AllowIncoming(peer, allowLocal) ==
    /\ peer \notin DOMAIN f.allowIncoming
    /\ LET blockLANRules == IF allowLocal THEN <<>>
                            ELSE LET lans == SetToSeq(Lans)
                                 IN  [i \in DOMAIN lans |-> BlockLan(peer, lans[i])]
           rule == AllowPeer(peer)
       IN  Execute(Append(blockLANRules, rule), TRUE, LAMBDA end :
               IF ~end.ok THEN f
               ELSE [f EXCEPT !.allowIncoming = Set(@, peer,
                        [allow |-> rule, blockLocal |-> blockLANRules])])

\* Forgotten when all is deleted.
DenyIncoming(peer) ==
    /\ peer \in DOMAIN f.allowIncoming
    /\ Execute(<<f.allowIncoming[peer].allow>> \o f.allowIncoming[peer].blockLocal, FALSE,
           LAMBDA end : IF end.ok THEN [f EXCEPT !.allowIncoming = Unset(@, peer)] ELSE f)

AllowFileshare(peer) ==
    /\ peer \notin DOMAIN f.fileshare
    /\ LET rule == NewFwRule("INPUT", "IPv4",
                       [src |-> peer, port |-> "fileshare", target |-> "ACCEPT"], MeshnetFileshare)
       IN  Execute(<<rule>>, TRUE, LAMBDA end :
               IF end.ok THEN [f EXCEPT !.fileshare = Set(@, peer, rule)] ELSE f)

DenyFileshare(peer) ==
    /\ peer \in DOMAIN f.fileshare
    /\ Execute(<<f.fileshare[peer]>>, FALSE, LAMBDA end :
           IF end.ok THEN [f EXCEPT !.fileshare = Unset(@, peer)] ELSE f)

-----------------------------------------------------------------------------
(* The kill switch, the allowlist of the user and that of the application.  *)

PerIface(Rules(_)) ==
    LET ifaces == SetToSeq(Ifaces) IN FlattenSeq([i \in DOMAIN ifaces |-> Rules(ifaces[i])])

\* append() to a nil slice makes a list of it.
Appended(list, rules) == IF rules = <<>> THEN list ELSE IF list = Nil THEN rules ELSE list \o rules

\* Each rule is remembered as soon as it is there.
BlockTraffic ==
    /\ f.trafficBlock = Nil
    /\ LET rules == PerIface(LAMBDA i :
                        <<NewFwRule("INPUT", "Both", [iface |-> i, target |-> "DROP"], TrafficBlock),
                          NewFwRule("OUTPUT", "Both", [iface |-> i, target |-> "DROP"], TrafficBlock)>>)
       IN  Execute(rules, TRUE, LAMBDA end :
               [f EXCEPT !.trafficBlock = Appended(@, SubSeq(rules, 1, end.done))])

\* The list is forgotten when all of it is deleted.
UnblockTraffic ==
    /\ f.trafficBlock # Nil
    /\ Execute(f.trafficBlock, FALSE, LAMBDA end : IF end.ok THEN [f EXCEPT !.trafficBlock = Nil] ELSE f)

portsToPortRanges(ports) ==
    FoldLeft(LAMBDA ranges, port :
                 IF ranges # <<>> /\ port = Last(ranges).max + 1
                 THEN Front(ranges) \o <<[Last(ranges) EXCEPT !.max = port]>>
                 ELSE Append(ranges, [min |-> port, max |-> port]),
             <<>>, SetToSortSeq(ports, <))

\* Source and destination ports, in and out.
allowlistPorts(iface, range) ==
    LET Rule(chain, flag) ==
            NewFwRule(chain, "Both", [iface |-> iface, flag |-> flag, ports |-> range,
                                      target |-> "ACCEPT"], UserAllowlist)
    IN  <<Rule("INPUT", "dport"), Rule("INPUT", "sport"),
          Rule("OUTPUT", "dport"), Rule("OUTPUT", "sport")>>

allowlistSubnet(iface, version) ==
    <<NewFwRule("INPUT", version, [iface |-> iface, subnet |-> version, target |-> "ACCEPT"], UserAllowlist),
      NewFwRule("OUTPUT", version, [iface |-> iface, subnet |-> version, target |-> "ACCEPT"], UserAllowlist)>>

\* A subnet is one of its family: only its version matters here.
SetAllowlist(ports, subnets) ==
    LET nets == SetToSeq(subnets)
        ranges == portsToPortRanges(ports)
        rules == FlattenSeq([n \in DOMAIN nets |-> PerIface(LAMBDA i : allowlistSubnet(i, nets[n]))])
                 \o FlattenSeq([n \in DOMAIN ranges |-> PerIface(LAMBDA i : allowlistPorts(i, ranges[n]))])
    IN  /\ Len(f.allowlist) + Len(rules) <= MaxListed
        /\ Execute(rules, TRUE, LAMBDA end :
               [f EXCEPT !.allowlist = @ \o SubSeq(rules, 1, end.done)])

UnsetAllowlist ==
    Execute(f.allowlist, FALSE, LAMBDA end : IF end.ok THEN [f EXCEPT !.allowlist = <<>>] ELSE f)

APIAllowlist ==
    LET Rule(chain, match, target, i, priority) ==
            NewFwRule(chain, "Both", [iface |-> i, match |-> match, target |-> target], priority)
        rules == PerIface(LAMBDA i :
            <<Rule("INPUT", "connmark", "ACCEPT", i, ApiAllowlistMark),
              Rule("OUTPUT", "connmark", "ACCEPT", i, ApiAllowlistOutputConnmark),
              Rule("OUTPUT", "mark", "CONNMARK", i, ApiAllowlistMark)>>)
    IN  /\ Len(f.apiAllowlist) + Len(rules) <= MaxListed
        /\ Execute(rules, TRUE, LAMBDA end :
               [f EXCEPT !.apiAllowlist = @ \o SubSeq(rules, 1, end.done)])

APIDenylist ==
    Execute(f.apiAllowlist, FALSE, LAMBDA end : IF end.ok THEN [f EXCEPT !.apiAllowlist = <<>>] ELSE f)

-----------------------------------------------------------------------------
\* Another program puts a rule of its own at the top or at the end of a chain.
OthersInsert ==
    \E chain \in Chains, top \in BOOLEAN :
        LET rule == NewFwRule(chain, "IPv4", [src |-> "other", target |-> "ACCEPT"], Foreign)
            n == Len(SelectSeq(tables["iptables"][chain], LAMBDA r : ~IsOurs(r)))
        IN  /\ n < MaxForeign
            /\ tables' = [tables EXCEPT !["iptables"][chain] =
                             IF top THEN <<rule>> \o @ ELSE Append(@, rule)]
            /\ UNCHANGED <<f, faults>>

Next ==
    \/ "incoming" \in Ops /\ \E p \in Peers : (\E local \in BOOLEAN : AllowIncoming(p, local)) \/ DenyIncoming(p)
    \/ "fileshare" \in Ops /\ \E p \in Peers : AllowFileshare(p) \/ DenyFileshare(p)
    \/ "block" \in Ops /\ (BlockTraffic \/ UnblockTraffic)
    \/ "allowlist" \in Ops /\ (UnsetAllowlist \/
           \E ports \in PortSets, subnets \in SUBSET {"IPv4", "IPv6"} : SetAllowlist(ports, subnets))
    \/ "api" \in Ops /\ (APIAllowlist \/ APIDenylist)
    \/ OthersInsert

Spec == Init /\ [][Next]_vars

-----------------------------------------------------------------------------
(* Properties.                                                              *)

FirewallManagerTypeOK ==
    /\ DOMAIN f.allowIncoming \subseteq Peers /\ DOMAIN f.fileshare \subseteq Peers
    /\ faults \in 0 .. MaxFaults
    /\ \A c \in Commands, chain \in Chains : \A r \in Range(tables[c][chain]) : r.chain = chain

\* Whatever is inserted, deleted or left half done, the rules of every chain stay in the order
\* of their priorities, so no rule is hidden by one of a lower priority (getRuleLine).
PriorityKept ==
    \A c \in Commands, chain \in Chains :
        LET ours == SelectSeq(tables[c][chain], IsOurs)
        IN  \A i, j \in DOMAIN ours : i < j => ours[i].priority >= ours[j].priority

Remembered ==
    f.allowlist \o f.apiAllowlist \o (IF f.trafficBlock = Nil THEN <<>> ELSE f.trafficBlock)
    \o FlattenSeq([i \in 1 .. Cardinality(DOMAIN f.fileshare) |->
                      <<f.fileshare[SetToSeq(DOMAIN f.fileshare)[i]]>>])
    \o FlattenSeq([i \in 1 .. Cardinality(DOMAIN f.allowIncoming) |->
                      LET r == f.allowIncoming[SetToSeq(DOMAIN f.allowIncoming)[i]]
                      IN  <<r.allow>> \o r.blockLocal])

Count(seq, x) == Cardinality({i \in DOMAIN seq : seq[i] = x})

\* While no command fails, the rules of the chains are exactly those the manager remembers, as
\* often as it remembers them: nothing is left that no later call removes.
InstalledIsRemembered ==
    faults = 0 =>
        \A c \in Commands, chain \in Chains :
            LET ours == SelectSeq(tables[c][chain], IsOurs)
                known == SelectSeq(Remembered, LAMBDA r : r.chain = chain /\ Contains(CommandsOf(r), c))
            IN  \A r \in Range(ours) \cup Range(known) : Count(ours, r) = Count(known, r)

MatchesInput(rule, peer, lan) ==
    LET p == rule.params
    IN  \/ "src" \in DOMAIN p /\ p.src = peer /\ ("dst" \in DOMAIN p => p.dst = lan)
                              /\ "port" \notin DOMAIN p
        \/ "iface" \in DOMAIN p /\ p.target = "DROP"

VerdictOf(peer, lan) ==
    LET ours == SelectSeq(tables["iptables"]["INPUT"], IsOurs)
        i == SelectInSeq(ours, LAMBDA r : MatchesInput(r, peer, lan))
    IN  IF i = 0 THEN "policy" ELSE ours[i].params.target

\* A packet of a peer to this machine or to a host of a LAN behind it is let in exactly when the
\* peer is allowed incoming traffic, and kept out of the LAN when that was not allowed, with
\* and without the kill switch: the priorities of the rules (firewall_manager.go:24) say so.
IncomingAsAllowed ==
    faults = 0 =>
        \A peer \in Peers, lan \in Lans \cup {"self"} :
            VerdictOf(peer, lan) =
                IF peer \in DOMAIN f.allowIncoming
                THEN IF lan \in Lans /\ f.allowIncoming[peer].blockLocal # <<>> THEN "DROP" ELSE "ACCEPT"
                ELSE IF f.trafficBlock # Nil THEN "DROP" ELSE "policy"
=============================================================================
