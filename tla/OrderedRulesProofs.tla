------------------------- MODULE OrderedRulesProofs -------------------------
(***************************************************************************)
(* What the operations of the rule store return, for every store that has  *)
(* unique names.                                                           *)
(***************************************************************************)
EXTENDS OrderedRules, TLAPS

\* A store over the rules of a set R.
IsStore(or, R) == or \in Seq(R) /\ UniqueNames(or)

\* slices.Delete of one element: the shorter sequence, still over R.
LEMMA DeleteAtType ==
    ASSUME NEW R, NEW or \in Seq(R), NEW i \in DOMAIN or
    PROVE  /\ DeleteAt(or, i) \in Seq(R)
           /\ Len(DeleteAt(or, i)) = Len(or) - 1
           /\ DOMAIN DeleteAt(or, i) = 1..(Len(or) - 1)
           /\ \A j \in 1..(Len(or) - 1) :
                 DeleteAt(or, i)[j] = IF j < i THEN or[j] ELSE or[j + 1]
<1> DEFINE n == Len(or) - 1
           d == [j \in 1..n |-> IF j < i THEN or[j] ELSE or[j + 1]]
<1>1. Len(or) \in Nat /\ DOMAIN or = 1..Len(or)
  OBVIOUS
<1>2. n \in Nat
  BY <1>1
<1>3. \A j \in 1..n : d[j] \in R
  BY <1>1, <1>2
<1>4. d \in [1..n -> R]
  BY <1>3
<1>5. d \in Seq(R)
  BY <1>2, <1>4
<1>6. Len(d) = n
  BY <1>2, <1>5
<1> QED
  BY <1>5, <1>6 DEF DeleteAt

\* OrderedRules.Delete removes exactly the rule of that name, if there is one.
LEMMA DeleteRuleStore ==
    ASSUME NEW R, NEW or, IsStore(or, R), NEW name
    PROVE  /\ IsStore(DeleteRule(or, name), R)
           /\ RuleNames(DeleteRule(or, name)) = RuleNames(or) \ {name}
<1> USE DEF IsStore
<1>1. CASE ~HasRule(or, name)
  BY <1>1 DEF DeleteRule, HasRule, RuleNames
<1>2. CASE HasRule(or, name)
  <2> DEFINE i == IndexOf(or, name)
             d == DeleteAt(or, i)
  <2>1. i \in DOMAIN or /\ or[i].name = name
    BY <1>2 DEF HasRule, IndexOf
  <2>2. DeleteRule(or, name) = d
    BY <1>2 DEF DeleteRule
  <2>3. Len(or) \in Nat /\ DOMAIN or = 1..Len(or)
    OBVIOUS
  <2>4. /\ d \in Seq(R)
        /\ DOMAIN d = 1..(Len(or) - 1)
        /\ \A j \in 1..(Len(or) - 1) : d[j] = IF j < i THEN or[j] ELSE or[j + 1]
    BY <2>1, DeleteAtType
  <2> HIDE DEF d, i
  <2> DEFINE Old(j) == IF j < i THEN j ELSE j + 1
  <2>a. \A j \in 1..(Len(or) - 1) :
           /\ Old(j) \in DOMAIN or /\ Old(j) # i
           /\ d[j] = or[Old(j)]
    BY <2>1, <2>3, <2>4
  <2>b. \A j, k \in 1..(Len(or) - 1) : Old(j) = Old(k) => j = k
    BY <2>1, <2>3
  <2> HIDE DEF Old
  <2>5. UniqueNames(d)
    BY <2>a, <2>b, <2>4 DEF UniqueNames
  <2>6. RuleNames(d) \subseteq RuleNames(or) \ {name}
    <3> SUFFICES ASSUME NEW j \in DOMAIN d
                 PROVE  d[j].name \in RuleNames(or) \ {name}
      BY DEF RuleNames
    <3>1. /\ Old(j) \in DOMAIN or /\ Old(j) # i
          /\ d[j] = or[Old(j)]
      BY <2>a, <2>4
    <3>2. or[Old(j)].name # name
      BY <3>1, <2>1 DEF UniqueNames
    <3> QED
      BY <3>1, <3>2 DEF RuleNames
  <2>7. RuleNames(or) \ {name} \subseteq RuleNames(d)
    <3> SUFFICES ASSUME NEW k \in DOMAIN or, or[k].name # name
                 PROVE  or[k].name \in RuleNames(d)
      BY DEF RuleNames
    <3>1. CASE k < i
      <4>1. k \in DOMAIN d /\ d[k] = or[k]
        BY <3>1, <2>1, <2>3, <2>4
      <4> QED
        BY <4>1 DEF RuleNames
    <3>2. CASE k > i
      <4>1. k - 1 \in DOMAIN d /\ d[k - 1] = or[k]
        BY <3>2, <2>1, <2>3, <2>4
      <4> QED
        BY <4>1 DEF RuleNames
    <3>3. k # i
      BY <2>1
    <3> QED
      BY <3>1, <3>2, <3>3, <2>1, <2>3
  <2> QED
    BY <2>2, <2>4, <2>5, <2>6, <2>7
<1> QED
  BY <1>1, <1>2

\* OrderedRules.Add keeps names unique, adds the new name and loses none.
THEOREM AddRuleStore ==
    ASSUME NEW R, NEW or, IsStore(or, R), NEW rule \in R
    PROVE  /\ IsStore(AddRule(or, rule), R)
           /\ RuleNames(AddRule(or, rule)) = RuleNames(or) \cup {rule.name}
<1> DEFINE d == DeleteRule(or, rule.name)
           a == Append(d, rule)
<1>1. /\ d \in Seq(R) /\ UniqueNames(d)
      /\ RuleNames(d) = RuleNames(or) \ {rule.name}
  BY DeleteRuleStore DEF IsStore
<1> HIDE DEF d
<1>2. /\ a \in Seq(R)
      /\ DOMAIN d = 1..Len(d) /\ Len(d) \in Nat
      /\ DOMAIN a = 1..(Len(d) + 1)
      /\ \A j \in 1..Len(d) : a[j] = d[j]
      /\ a[Len(d) + 1] = rule
  BY <1>1
<1> HIDE DEF a
<1>3. UniqueNames(a)
  <2>1. \A j \in 1..Len(d) : d[j].name # rule.name
    BY <1>1, <1>2, Zenon DEF RuleNames
  <2> QED
    BY <2>1, <1>1, <1>2 DEF UniqueNames
<1>4. RuleNames(a) \subseteq RuleNames(or) \cup {rule.name}
  <2> SUFFICES ASSUME NEW j \in DOMAIN a
               PROVE  a[j].name \in RuleNames(or) \cup {rule.name}
    BY DEF RuleNames
  <2>1. CASE j = Len(d) + 1
    BY <2>1, <1>2
  <2>2. CASE j \in 1..Len(d)
    <3>1. a[j].name \in RuleNames(d)
      BY <2>2, <1>2 DEF RuleNames
    <3> QED
      BY <3>1, <1>1
  <2> QED
    BY <2>1, <2>2, <1>2
<1>5. RuleNames(or) \cup {rule.name} \subseteq RuleNames(a)
  <2>1. rule.name \in RuleNames(a)
    <3>1. Len(d) + 1 \in DOMAIN a
      BY <1>2
    <3> QED
      BY <3>1, <1>2 DEF RuleNames
  <2>2. ASSUME NEW j \in DOMAIN d
        PROVE  d[j].name \in RuleNames(a)
    <3>1. j \in DOMAIN a /\ a[j] = d[j]
      BY <1>2
    <3> QED
      BY <3>1 DEF RuleNames
  <2>3. RuleNames(d) \subseteq RuleNames(a)
    BY <2>2 DEF RuleNames
  <2> QED
    BY <2>1, <2>3, <1>1
<1> QED
  BY <1>2, <1>3, <1>4, <1>5 DEF AddRule, IsStore, a, d
=============================================================================
