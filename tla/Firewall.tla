------------------------------ MODULE Firewall ------------------------------
(***************************************************************************)
(* The firewall service (daemon/firewall/firewall.go) driving its iptables *)
(* agent (daemon/firewall/iptables/iptables.go).                           *)
(*                                                                         *)
(* The service remembers named rules in order and passes every change to   *)
(* the current agent: iptables while it is enabled, a no-op agent while it *)
(* is not.  One rule expands to several iptables commands, run one by one; *)
(* any of them may fail (the xtables lock times out, the process cannot be *)
(* started), and what ran before it stays in the kernel.  Every method     *)
(* holds the service's mutex, so a whole call is one step.                 *)
(*                                                                         *)
(* A rule's body is the sequence of iptables commands it expands to, named *)
(* by what distinguishes them (an interface, a subnet, a port range).      *)
(***************************************************************************)
EXTENDS OrderedRules, Integers, SequencesExt

CONSTANTS Names,        \* rule names
          Bodies,       \* the command sequences a rule can expand to
          MaxBatch,     \* bound: rules in one Add or Delete
          MaxFaults     \* bound: how many iptables commands may fail

ASSUME BodiesAssumption == Bodies \subseteq Seq(STRING) /\ <<>> \notin Bodies
ASSUME BoundsAssumption == MaxBatch \in Nat \ {0} /\ MaxFaults \in Nat

VARIABLES rules,        \* Firewall.rules
          enabled,      \* Firewall.enabled; also selects Firewall.current
          kernel,       \* the chain in the kernel, first match first
          faults,       \* iptables commands that failed so far
          ret           \* the last call: its name, argument and result

vars == <<rules, enabled, kernel, faults, ret>>

Rules == [name : Names, body : Bodies]

\* The kernel lines of a rule, in the order applyRule issues them.
Lines(rule) == [i \in DOMAIN rule.body |-> <<rule.name, rule.body[i]>>]

-----------------------------------------------------------------------------
(* A call maps a state (stored rules, chain, failures so far) to the set of *)
(* states it can leave, each with the error it returns.                     *)

Current == [rules |-> rules, k |-> kernel, f |-> faults, err |-> "nil"]

\* Go's "if err != nil { return err }" between two calls.
Then(out, Next1(_)) ==
    UNION {IF o.err = "nil" THEN Next1(o) ELSE {o} : o \in out}

\* "for i := range 1..n" with the same early return.
ForEach(s, n, Body(_, _)) ==
    LET out[i \in 0..n] ==
            IF i = 0 THEN {s} ELSE Then(out[i - 1], LAMBDA t : Body(t, i))
    IN  out[n]

\* Command n+1 of a rule's lines is the one that failed; n = Len: none did.
After(s, rule, n, k) ==
    IF n = Len(rule.body) THEN [s EXCEPT !.k = k]
    ELSE [s EXCEPT !.k = k, !.f = @ + 1, !.err = "fail"]

\* -I puts a line at the head of the chain.
InsertLines(k, lines) == Reverse(lines) \o k

agentAdd(on, s, rule) ==
    IF ~on THEN {s}
    ELSE {After(s, rule, n, InsertLines(s.k, SubSeq(Lines(rule), 1, n))) :
          n \in {m \in 0..Len(rule.body) :
                    m = Len(rule.body) \/ s.f < MaxFaults}}

\* -D removes the first line that matches.
DeleteLine(k, line) ==
    RemoveAt(k, CHOOSE i \in DOMAIN k : /\ k[i] = line
                                        /\ \A j \in 1..(i - 1) : k[j] # line)

\* The chain after the first n commands of a delete.  A line that is not
\* there ends the whole delete with success: no later command is issued.
DeleteLines(k, lines, n) ==
    LET out[i \in 0..n] ==
            IF i = 0 THEN [k |-> k, done |-> FALSE]
            ELSE LET o == out[i - 1]
                 IN  IF o.done \/ ~Contains(o.k, lines[i])
                     THEN [o EXCEPT !.done = TRUE]
                     ELSE [o EXCEPT !.k = DeleteLine(o.k, lines[i])]
    IN  out[n]

agentDelete(on, s, rule) ==
    IF ~on THEN {s}
    ELSE LET Out(n) == DeleteLines(s.k, Lines(rule), n)
         IN  {After(s, rule, n, Out(n).k) :
              n \in {m \in 0..Len(rule.body) :
                        \/ m = Len(rule.body)
                        \/ s.f < MaxFaults /\ ~Out(m).done}}

-----------------------------------------------------------------------------
(* The service.                                                             *)

\* Mutant of addOne: the replaced rule stays in the kernel.
addOneKeepsReplaced(s, rule) ==
    IF IsEqualRule(s.rules, rule)
    THEN {[s EXCEPT !.err = "exists"]}
    ELSE Then(agentAdd(enabled, s, rule), LAMBDA t :
              {[t EXCEPT !.rules = AddRule(@, rule)]})

addOne(s, rule) ==
    IF IsEqualRule(s.rules, rule)
    THEN {[s EXCEPT !.err = "exists"]}
    ELSE Then(agentAdd(enabled, s, rule), LAMBDA t :
         LET u == [t EXCEPT !.rules = AddRule(@, rule)]
         IN  IF HasRule(t.rules, rule.name)
             THEN agentDelete(enabled, u, GetRule(t.rules, rule.name))
             ELSE {u})

deleteOne(s, name) ==
    IF ~HasRule(s.rules, name)
    THEN {[s EXCEPT !.err = "notfound"]}
    ELSE Then(agentDelete(enabled, s, GetRule(s.rules, name)), LAMBDA t :
              {[t EXCEPT !.rules = DeleteRule(@, name)]})

\* Moves every stored rule from one agent to the other.
swap(fromOn, toOn) ==
    ForEach(Current, Len(rules), LAMBDA s, i :
        Then(agentDelete(fromOn, s, rules[i]), LAMBDA t :
             agentAdd(toOn, t, rules[i])))

Return(op, arg, out) ==
    \E o \in out :
        /\ rules' = o.rules
        /\ kernel' = o.k
        /\ faults' = o.f
        /\ ret' = [op |-> op, arg |-> arg, err |-> o.err]

Batches(S) == UNION {[1..n -> S] : n \in 1..MaxBatch}

Add(batch) ==
    /\ Return("Add", {batch[i].name : i \in DOMAIN batch},
              ForEach(Current, Len(batch), LAMBDA s, i : addOne(s, batch[i])))
    /\ UNCHANGED enabled

Delete(names) ==
    /\ Return("Delete", ToSet(names),
              ForEach(Current, Len(names), LAMBDA s, i : deleteOne(s, names[i])))
    /\ UNCHANGED enabled

Enable ==
    IF enabled
    THEN /\ Return("Enable", {}, {[Current EXCEPT !.err = "already"]})
         /\ UNCHANGED enabled
    ELSE /\ Return("Enable", {}, swap(FALSE, TRUE))
         /\ enabled' = TRUE

Disable ==
    IF ~enabled
    THEN /\ Return("Disable", {}, {[Current EXCEPT !.err = "already"]})
         /\ UNCHANGED enabled
    ELSE /\ Return("Disable", {}, swap(TRUE, FALSE))
         /\ enabled' = FALSE

Init ==
    /\ rules = <<>>
    /\ enabled \in BOOLEAN
    /\ kernel = <<>>
    /\ faults = 0
    /\ ret = [op |-> "New", arg |-> {}, err |-> "nil"]

Next ==
    \/ \E batch \in Batches(Rules) : Add(batch)
    \/ \E names \in Batches(Names) : Delete(names)
    \/ Enable
    \/ Disable

Spec == Init /\ [][Next]_vars

-----------------------------------------------------------------------------
(* Properties.                                                              *)

\* The type of every variable; the store holds rules only, in every state that
\* Add, Delete, Enable and Disable leave behind.
TypeOK ==
    /\ rules \in Seq(Rules)
    /\ enabled \in BOOLEAN
    /\ \A i \in DOMAIN kernel : kernel[i][1] \in Names
    /\ faults \in 0..MaxFaults
    /\ ret.arg \subseteq Names

\* The store never holds two rules of one name, through adds, replacements
\* and deletes and whatever the agent fails at: Get and Delete act on the
\* first match only, so a second one could never be removed.
NoDuplicateNames == UniqueNames(rules)

Count(k, line) == Cardinality({i \in DOMAIN k : k[i] = line})

\* The lines the stored rules stand for.
Wanted == UNION {ToSet(Lines(rules[i])) : i \in DOMAIN rules}

\* While no command fails, the kernel holds each line of each stored rule
\* exactly once and nothing else when the service is enabled, and nothing at
\* all when it is disabled: across replacements whose old and new bodies
\* share lines, batches that stop at an existing or a missing rule, and any
\* number of Disable and Enable.
KernelMatchesStore ==
    faults = 0 =>
        IF enabled
        THEN /\ ToSet(kernel) = Wanted
             /\ \A line \in Wanted : Count(kernel, line) = 1
        ELSE kernel = <<>>

\* A rule added under a name the service does not know is evaluated before
\* everything that was there: its lines are the head of the new chain.  The
\* networker relies on it to let its allow rules win over its drop rules.
NewRuleEvaluatedFirst ==
    \A n \in RuleNames(rules') \ RuleNames(rules) :
        enabled /\ ret'.op = "Add" /\ ret'.arg = {n} /\ ret'.err = "nil" =>
            LET new == Reverse(Lines(GetRule(rules', n)))
            IN  SubSeq(kernel', 1, Len(new)) = new
=============================================================================
