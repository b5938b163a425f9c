---------------------------- MODULE OrderedRules ----------------------------
(***************************************************************************)
(* The in-memory rule store of the firewall service,                       *)
(* daemon/firewall/rule.go: a slice of rules in the order they were added, *)
(* at most one per name.  A rule is a record with a name and the rest of   *)
(* its fields as one value, its body; two rules are Equal when both agree. *)
(***************************************************************************)
EXTENDS Naturals, Sequences

Rule(name, body) == [name |-> name, body |-> body]

RuleNames(or) == {or[i].name : i \in DOMAIN or}

HasRule(or, name) == \E i \in DOMAIN or : or[i].name = name

\* slices.IndexFunc(or.rules, byName(name)), for a name that is there
IndexOf(or, name) == CHOOSE i \in DOMAIN or : or[i].name = name

\* slices.Delete(or.rules, i, i+1)
DeleteAt(or, i) ==
    [j \in 1..(Len(or) - 1) |-> IF j < i THEN or[j] ELSE or[j + 1]]

GetRule(or, name) == or[IndexOf(or, name)]

DeleteRule(or, name) ==
    IF HasRule(or, name) THEN DeleteAt(or, IndexOf(or, name)) ELSE or

\* Add of a rule that is not Equal to a stored one: the old rule of that
\* name goes away and the new one is the last.
AddRule(or, rule) == Append(DeleteRule(or, rule.name), rule)

IsEqualRule(or, rule) ==
    HasRule(or, rule.name) /\ GetRule(or, rule.name) = rule

UniqueNames(or) ==
    \A i, j \in DOMAIN or : or[i].name = or[j].name => i = j
=============================================================================
