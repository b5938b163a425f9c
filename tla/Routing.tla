-------------------------------- MODULE Routing --------------------------------
(***************************************************************************)
(* Policy routing and routes (daemon/routes): the ip rules with their       *)
(* priorities, the groups of the interfaces, the reverse path filter, the   *)
(* routes, and the two routers that remember what to set up again when      *)
(* routing is turned on. networker.go calls them under its lock, so an      *)
(* operation is one step; inside it every netlink call may fail.            *)
(***************************************************************************)
EXTENDS Naturals, Sequences, SequencesExt, FiniteSets, FiniteSetsExt

CONSTANTS
    Subnets,      \* subnets of the allowlist
    Devices,      \* physical interfaces
    MaxTable,     \* the last id of a table that calculateCustomTableID may try
    MainPriority, \* the priority of the rule of the main table (32766)
    Faults,       \* "netlink": a call may fail; "rules", "tables": other programs change theirs;
                  \* "off": routing may be off when the daemon starts; "v6": servers may have
                  \* IPv6 addresses
    MaxFaults     \* how many calls fail

VARIABLES
    rules,        \* ip rules of both families: what they are and their priority
    rp,           \* net.ipv4.conf.all.rp_filter, and whether it was changed
    groups,       \* the group of each interface
    ifgroup,      \* NetlinkManager: whether it is set, and its backup
    iprule,       \* iprule.Router: the subnets it allows and its table
    policy,       \* PolicyRouter: enabled, and the rules it applied
    router,       \* Router: enabled, and the routes it applied
    agent,        \* netlink.Router: the routes that it added
    host,         \* routes of the kernel, tables in use by others, and whether the main table
                  \* has a default route that a second one would clash with
    netw,         \* networker: connected, its allowlist; and the routing setting
    faults        \* calls that failed

vars == <<rules, rp, groups, ifgroup, iprule, policy, router, agent, host, netw, faults>>

TableID == 205 \* routes.TableID()
Main == 254
Group == "0xe1f1"
Nil == "nil"
NoRules == <<>>
Families == {"v4", "v6"}

Rule(kind, priority) == [kind |-> kind, priority |-> priority, dst |-> Nil, table |-> Main]
Fwmark(priority, table) == [Rule("fwmark", priority) EXCEPT !.table = table]
Allow(priority, subnet) == [Rule("allow", priority) EXCEPT !.dst = subnet]

IsOurs(r) == r.kind \in {"fwmark", "suppress", "suppressGroup", "allow"}

Init ==
    /\ rules = [fam \in Families |->
                   {[Rule("local", 0) EXCEPT !.table = 255], Rule("main", MainPriority),
                    [Rule("default", MainPriority + 1) EXCEPT !.table = 253]}]
    /\ \E v \in {0, 1, 2} : rp = [value |-> v, changed |-> FALSE]
    /\ groups = [d \in Devices |-> "0"]
    /\ ifgroup = [set |-> FALSE, backup |-> <<>>]
    /\ iprule = [allowSubnets |-> {}, tableID |-> 0]
    /\ \E on \in {TRUE} \cup (IF "off" \in Faults THEN {FALSE} ELSE {}) :
          /\ policy = [enabled |-> on, applied |-> NoRules]
          /\ router = [enabled |-> on, applied |-> <<>>]
          /\ netw = [up |-> FALSE, allowlist |-> {}, local |-> TRUE, lan |-> FALSE, routing |-> on]
    /\ agent = {}
    /\ \E taken \in BOOLEAN : host = [routes |-> {}, tables |-> {}, mainTaken |-> taken]
    /\ faults = 0

-----------------------------------------------------------------------------
(* A call of netlink is a step of the state st; st.broken numbers the one   *)
(* that fails.                                                              *)

State(broken) ==
    [rules |-> rules, rp |-> rp, groups |-> groups, ifgroup |-> ifgroup, iprule |-> iprule,
     policy |-> policy, router |-> router, agent |-> agent, host |-> host,
     n |-> 0, err |-> FALSE, broken |-> broken, failed |-> FALSE]

\* A call whose error is returned, and one whose error is logged.
Call(st, new) ==
    IF st.err THEN st
    ELSE IF st.n + 1 = st.broken THEN [st EXCEPT !.n = @ + 1, !.err = TRUE, !.failed = TRUE]
    ELSE [new EXCEPT !.n = @ + 1]

Logged(st, new) ==
    IF st.err THEN st
    ELSE IF st.n + 1 = st.broken THEN [st EXCEPT !.n = @ + 1, !.failed = TRUE]
    ELSE [new EXCEPT !.n = @ + 1]

\* An error that was logged by the caller.
Forgiven(st) == [st EXCEPT !.err = FALSE]

Each(set, st, Op(_, _)) == FoldLeft(LAMBDA s, x : Op(s, x), st, SetToSeq(set))

\* Op in the state that st stands for.
Then(st, Op(_)) == CHOOSE end \in {Op(s) : s \in {st}} : TRUE

\* The state that a sequence of calls ends in.
Apply(end) ==
    \E st \in {end} :
        /\ rules' = st.rules /\ rp' = st.rp /\ groups' = st.groups /\ ifgroup' = st.ifgroup
        /\ iprule' = st.iprule /\ policy' = st.policy /\ router' = st.router /\ agent' = st.agent
        /\ host' = st.host
        /\ faults' = IF st.failed THEN faults + 1 ELSE faults

Broken == IF "netlink" \in Faults /\ faults < MaxFaults THEN 0 .. 13 ELSE {0}

-----------------------------------------------------------------------------
(* kernel/sysctl_setter.go with rp_filter.go; ifgroup.go                     *)

rpSet(st) ==
    Then(IF st.rp.changed THEN st ELSE Call(st, [st EXCEPT !.rp.changed = st.rp.value # 2]),
         LAMBDA read : Call(read, [read EXCEPT !.rp.value = 2]))
\* To 1, whatever it was before Set; the comment of Unset says "the one which was set before".
rpUnset(st) ==
    IF st.rp.changed THEN Call(st, [st EXCEPT !.rp.value = 1, !.rp.changed = FALSE]) ELSE st

\* The groups are saved, then set one by one.
ifgroupSet(st) ==
    IF st.ifgroup.set \/ st.err THEN st
    ELSE LET saved == Call(st, [st EXCEPT !.ifgroup.backup = st.groups])
             done == Each(Devices, saved, LAMBDA s, d : Call(s, [s EXCEPT !.groups[d] = Group]))
         IN  IF done.err THEN done ELSE [done EXCEPT !.ifgroup.set = TRUE]

\* An error when nothing is set.
ifgroupUnset(st) ==
    IF st.err THEN st
    ELSE IF ~st.ifgroup.set THEN [st EXCEPT !.err = TRUE]
    ELSE LET done == Each(Devices, st, LAMBDA s, d :
                         Call(s, [s EXCEPT !.groups[d] = IF d \in DOMAIN s.ifgroup.backup
                                                         THEN s.ifgroup.backup[d] ELSE "0"]))
         IN  IF done.err THEN done
             ELSE [done EXCEPT !.ifgroup = [set |-> FALSE, backup |-> <<>>]]

-----------------------------------------------------------------------------
(* iprule.go                                                                 *)

\* isRuleSame with a bare rule of the main table: a suppress rule without the group is one too.
IsMain(r) == r.kind \in {"main", "allow", "suppress"}

\* The greatest free priority below the last rule that is not one of the main table; 0: none.
calculateRulePriority(rs) ==
    LET last == Max({r.priority : r \in {x \in rs : ~IsMain(x)}})
        free == (1 .. last) \ ({r.priority : r \in rs} \cup {last})
    IN  IF free = {} THEN 0 ELSE Max(free)

\* The first table that nobody uses; 0: none.
calculateCustomTableID(st) ==
    LET free == (TableID .. MaxTable) \ (st.host.tables \cup {r.table : r \in st.host.routes})
    IN  IF free = {} THEN 0 ELSE Min(free)

findFwmarkRule(rs) == {r \in rs : r.kind = "fwmark"}

Without(st, fam, doomed) == [st EXCEPT !.rules[fam] = @ \ doomed]
addRule(st, fam, rule) == Call(st, [st EXCEPT !.rules[fam] = @ \cup {rule}])

removeFwmarkRule(st, fam) == Logged(st, Without(st, fam, findFwmarkRule(st.rules[fam])))
SuppressRules(rs) == {r \in rs : r.kind \in {"suppress", "suppressGroup"}}
removeSuppressRule(st, fam) == Logged(st, Without(st, fam, SuppressRules(st.rules[fam])))
removeAllowSubnetRules(st, fam, subnets) ==
    Each(subnets, st, LAMBDA s, net :
        Logged(s, Without(s, fam, {r \in s.rules[fam] : r.kind = "allow" /\ r.dst = net})))

\* A rule that is there is put anew; without a priority nothing is added, and that is no error.
enableLocalTraffic(st, fam, skipGroup) ==
    LET kind == IF skipGroup THEN "suppress" ELSE "suppressGroup"
        Put(bare, id) == IF st.err \/ id = 0 THEN bare ELSE addRule(bare, fam, Rule(kind, id))
    IN  Then(IF SuppressRules(st.rules[fam]) = {} THEN st ELSE removeSuppressRule(st, fam),
             LAMBDA bare : Put(bare, calculateRulePriority(bare.rules[fam])))

\* The rule of the tunnel, when it is not there.
FwmarkRule(st, fam) ==
    LET id == calculateRulePriority(st.rules[fam])
        table == calculateCustomTableID(st)
    IN  IF st.err THEN st
        ELSE IF findFwmarkRule(st.rules[fam]) # {} THEN
            [st EXCEPT !.iprule.tableID = (CHOOSE r \in findFwmarkRule(st.rules[fam]) : TRUE).table]
        ELSE IF id = 0 \/ table = 0 THEN [st EXCEPT !.err = TRUE]
        ELSE LET added == addRule(st, fam, Fwmark(id, table))
             IN  IF added.err THEN added ELSE [added EXCEPT !.iprule.tableID = table]

AllowRule(st, fam, net) ==
    LET id == calculateRulePriority(st.rules[fam])
    IN  IF st.err THEN st
        ELSE IF id = 0 THEN [st EXCEPT !.err = TRUE]
        ELSE addRule(st, fam, Allow(id, net))

\* One family: the tunnel, local traffic, and on top the subnets of the allowlist.
SetupFamily(st, fam, enableLocal, lanDiscovery, allowSubnets) ==
    LET Local(s) == IF enableLocal THEN enableLocalTraffic(s, fam, lanDiscovery)
                    ELSE removeSuppressRule(s, fam)
        Clean(s) == removeAllowSubnetRules(s, fam, st.iprule.allowSubnets)
        Allowed(s) == Each(allowSubnets, s, LAMBDA r, net : AllowRule(r, fam, net))
    IN  Then(Then(Then(FwmarkRule(st, fam), Local), Clean), Allowed)

\* What is undone after an error; the error stays.
Recover(st, families, allowSubnets) ==
    LET undone == Each(families, Forgiven(st), LAMBDA s, fam :
                      removeAllowSubnetRules(removeFwmarkRule(removeSuppressRule(s, fam), fam),
                                             fam, allowSubnets))
    IN  [undone EXCEPT !.err = TRUE]

SetupRoutingRules(st, ipv6, enableLocal, lanDiscovery, allowSubnets) ==
    LET families == IF ipv6 THEN Families ELSE {"v4"}
        Setup(s) == Each(families, s, LAMBDA r, fam :
                        SetupFamily(r, fam, enableLocal, lanDiscovery, allowSubnets))
        End(done) == IF done.err THEN Recover(done, families, allowSubnets)
                     ELSE [done EXCEPT !.iprule.allowSubnets = allowSubnets]
    IN  Then(Then(rpSet(st), ifgroupSet),
             LAMBDA ready : IF ready.err THEN ready ELSE Then(Setup(ready), End))

\* Both families; an error of the last two calls leaves the table.
CleanupRouting(st) ==
    LET bare == Each(Families, st, LAMBDA s, fam :
                    Then(removeFwmarkRule(removeSuppressRule(s, fam), fam),
                         LAMBDA r : removeAllowSubnetRules(r, fam, st.iprule.allowSubnets)))
    IN  Then(Then(Then(bare, rpUnset), ifgroupUnset),
             LAMBDA done : IF done.err THEN done ELSE [done EXCEPT !.iprule.tableID = 0])

-----------------------------------------------------------------------------
(* PolicyRouter (rule.go). When it is off, the rules are only remembered.    *)

PolicySetup(st, args) ==
    Then(IF st.policy.enabled
         THEN SetupRoutingRules(st, args.ipv6, args.local, args.lan, args.subnets) ELSE st,
         LAMBDA done : IF done.err THEN done ELSE [done EXCEPT !.policy.applied = args])

PolicyCleanup(st) ==
    Then(IF st.policy.enabled THEN CleanupRouting(st) ELSE st,
         LAMBDA done : IF done.err THEN done ELSE [done EXCEPT !.policy.applied = NoRules])

PolicyTableID(st) == IF st.policy.enabled THEN st.iprule.tableID ELSE 0

PolicyEnable(st) ==
    LET a == st.policy.applied
    IN  Then(IF st.policy.enabled \/ a = NoRules THEN st
             ELSE SetupRoutingRules(st, a.ipv6, a.local, a.lan, a.subnets),
             LAMBDA done : IF done.err THEN done ELSE [done EXCEPT !.policy.enabled = TRUE])

PolicyDisable(st) ==
    Then(IF st.policy.enabled THEN CleanupRouting(st) ELSE st,
         LAMBDA done : IF done.err THEN done ELSE [done EXCEPT !.policy.enabled = FALSE])

-----------------------------------------------------------------------------
(* Router (router.go) above netlink.Router (netlink.go).                     *)

\* Never into the local table: no table is the main one.
toNetlinkRoute(route) == [route EXCEPT !.table = IF @ = 0 THEN Main ELSE @]

AgentAdd(st, route) ==
    IF st.err THEN st
    ELSE IF \/ route \in st.agent
            \/ toNetlinkRoute(route) \in st.host.routes
            \/ toNetlinkRoute(route).table = Main /\ st.host.mainTaken
    THEN [st EXCEPT !.err = TRUE]
    ELSE Call(st, [st EXCEPT !.agent = @ \cup {route},
                             !.host.routes = @ \cup {toNetlinkRoute(route)}])

\* What could not be deleted is forgotten all the same.
AgentFlush(st) ==
    LET done == Each(st.agent, st, LAMBDA s, route :
                    Logged(s, [s EXCEPT !.host.routes = @ \ {toNetlinkRoute(route)}]))
    IN  [done EXCEPT !.agent = {}, !.err = @ \/ (~st.failed /\ done.failed)]

RouterAdd(st, route) ==
    LET done == IF st.router.enabled THEN AgentAdd(st, route) ELSE st
    IN  IF done.err THEN done ELSE [done EXCEPT !.router.applied = Append(@, route)]

RouterFlush(st) ==
    LET done == IF st.router.enabled THEN AgentFlush(st) ELSE st
    IN  IF done.err THEN done ELSE [done EXCEPT !.router.applied = <<>>]


\* The routes that had a table get the one of now.
RouterEnable(st, tableID) ==
    LET done == IF st.router.enabled THEN st
                ELSE FoldLeft(LAMBDA s, route :
                         AgentAdd(s, [route EXCEPT !.table = IF @ = 0 THEN 0 ELSE tableID]),
                         st, st.router.applied)
    IN  IF done.err THEN done ELSE [done EXCEPT !.router.enabled = TRUE]

RouterDisable(st) ==
    LET done == IF st.router.enabled THEN AgentFlush(st) ELSE st
    IN  IF done.err THEN done ELSE [done EXCEPT !.router.enabled = FALSE]

-----------------------------------------------------------------------------
(* networker.go: what it calls, and in which order.                         *)

Args(n, ipv6) == [ipv6 |-> ipv6, local |-> n.local, lan |-> n.lan, subnets |-> n.allowlist]

\* start: the rules, then the default route; an error takes both back.
Start ==
    /\ ~netw.up
    /\ \E broken \in Broken, local \in BOOLEAN, ipv6 \in IF "v6" \in Faults THEN BOOLEAN ELSE {FALSE} :
         LET n == [netw EXCEPT !.local = local]
         IN  \E st \in {State(broken)} :
             \E set \in {PolicySetup(st, Args(n, ipv6))} :
             \E done \in {IF set.err THEN set
                          ELSE RouterAdd(set, [dst |-> "default", table |-> PolicyTableID(set)])} :
                IF done.err
                THEN /\ \E clean \in {PolicyCleanup(Forgiven(done))} : Apply(RouterFlush(Forgiven(clean)))
                     /\ UNCHANGED netw
                ELSE Apply(done) /\ netw' = [n EXCEPT !.up = TRUE]

\* stop: the rules, then the routes; errors are logged.
Stop ==
    /\ netw.up
    /\ \E st \in {State(broken) : broken \in Broken} :
       \E clean \in {PolicyCleanup(st)} : Apply(RouterFlush(Forgiven(clean)))
    /\ netw' = [netw EXCEPT !.up = FALSE]

\* SetAllowlist and SetLanDiscovery adjust the rules of a connection.
Adjust ==
    \E subnets \in SUBSET Subnets, lan \in BOOLEAN, st \in {State(broken) : broken \in Broken} :
        LET n == [netw EXCEPT !.allowlist = subnets, !.lan = lan]
        IN  /\ n # netw
            /\ netw' = n
            /\ IF netw.up THEN Apply(PolicySetup(st, Args(n, FALSE)))
               ELSE Apply(State(0))

\* EnableRouting and DisableRouting log their errors.
EnableRouting ==
    /\ ~netw.routing
    /\ \E st \in {State(broken) : broken \in Broken} :
       \E on \in {Forgiven(PolicyEnable(st))} : Apply(RouterEnable(on, PolicyTableID(on)))
    /\ netw' = [netw EXCEPT !.routing = TRUE]

DisableRouting ==
    /\ netw.routing
    /\ \E st \in {State(broken) : broken \in Broken} :
       \E off \in {RouterDisable(st)} : Apply(PolicyDisable(Forgiven(off)))
    /\ netw' = [netw EXCEPT !.routing = FALSE]

\* Another program adds or removes a rule, or uses a table.
OthersRules ==
    /\ "rules" \in Faults
    /\ \E p \in 1 .. MainPriority - 1 :
         LET r == [Rule("foreign", p) EXCEPT !.table = 100]
         IN  rules' = IF r \in rules["v4"] THEN [rules EXCEPT !["v4"] = @ \ {r}]
                      ELSE [rules EXCEPT !["v4"] = @ \cup {r}]
    /\ Cardinality({r \in rules'["v4"] : r.kind = "foreign"}) <= 1
    /\ UNCHANGED <<rp, groups, ifgroup, iprule, policy, router, agent, host, netw, faults>>

OthersTables ==
    /\ "tables" \in Faults
    /\ host' = [host EXCEPT !.tables = IF @ = {} THEN {TableID} ELSE {}]
    /\ UNCHANGED <<rules, rp, groups, ifgroup, iprule, policy, router, agent, netw, faults>>

Next ==
    \/ Start
    \/ Stop
    \/ Adjust
    \/ EnableRouting
    \/ DisableRouting
    \/ OthersRules
    \/ OthersTables

Spec == Init /\ [][Next]_vars

-----------------------------------------------------------------------------
(* Properties.                                                              *)

RoutingTypeOK ==
    /\ \A fam \in Families : \A r \in rules[fam] : r.priority \in 0 .. MainPriority + 1
    /\ rp.value \in {0, 1, 2} /\ groups \in [Devices -> {"0", Group}]
    /\ iprule.allowSubnets \subseteq Subnets /\ faults \in 0 .. MaxFaults

\* The rules of the application are above the main rule and each has a priority of its own,
\* also when other programs add and remove theirs (iprule.go, calculateRulePriority).
AboveMain ==
    \A fam \in Families :
        LET ours == {r \in rules[fam] : IsOurs(r)}
        IN  /\ \A r \in ours : r.priority \in 1 .. MainPriority - 1
            /\ \A r, s \in ours : r # s => r.priority # s.priority

\* What goes around the tunnel (local traffic, the allowlist) is looked at before the tunnel.
\* Only where other programs leave the rules alone: one of theirs that goes away leaves a gap
\* below the tunnel's rule, and the next rule that is added takes it.
AroundBeforeTunnel ==
    \A fam \in Families :
        \A r \in findFwmarkRule(rules[fam]), s \in rules[fam] :
            IsOurs(s) /\ s.kind # "fwmark" => s.priority < r.priority

\* While nothing fails, a host that is not connected has none of our rules and routes, and its
\* interfaces are in the groups they were in (CleanupRouting).
CleanWhenStopped ==
    (~netw.up /\ faults = 0) =>
        /\ \A fam \in Families : \A r \in rules[fam] : ~IsOurs(r)
        /\ \A d \in Devices : groups[d] = "0"
        /\ host.routes = {}
        /\ ~rp.changed

=============================================================================
