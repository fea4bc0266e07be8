--------------------------- MODULE MCApplicability ---------------------------
(***************************************************************************)
(* A small instance of Applicability: three architectures, two kinds of    *)
(* cluster, one fact of every kind, all tests of at most two leaves, alone *)
(* or under a second test, and pairs of expressions of one rule, its own   *)
(* or inherited.                                                           *)
(***************************************************************************)
EXTENDS Applicability, TLC

Fact(f) == [kind |-> "fact", fact |-> f]
ProductName == [kind |-> "product"]
Test(op, negate, children) ==
    [kind |-> "test", operator |-> op, negate |-> negate, children |-> children]

MCAxes == {"arch", "hypershift"}
MCDomain == [arch |-> {"aarch64", "s390x", "x86_64"}, hypershift |-> {"true", "false"}]
MCAxisOf == [aarch64 |-> "arch", not_s390x |-> "arch", hosted |-> "hypershift"]
MCTrueWhen == [aarch64 |-> {"aarch64"}, not_s390x |-> {"aarch64", "x86_64"}, hosted |-> {"true"}]
MCRoleFacts == [master_node |-> {"master"}]

MCLeaves == {Fact(f) : f \in {"kernel", "ntp", "master_node", "aarch64", "not_s390x", "hosted", "unclassified"}}
              \cup {ProductName}

Operators == {"AND", "OR"}

Lists(S) == {<<>>} \cup {<<s>> : s \in S} \cup {<<s, t>> : s \in S, t \in S}

Inner == {Test(op, neg, cs) : op \in Operators, neg \in BOOLEAN, cs \in Lists(MCLeaves) \ {<<>>}}

\* The pairs of tests that couple the axes, or do not.
Coupling == {Test("AND", FALSE, <<Fact(f), Fact("hosted")>>) : f \in {"aarch64", "not_s390x"}}
                \cup {Test("AND", TRUE, <<Fact("hosted")>>), Test("OR", FALSE, <<Fact("aarch64")>>)}

\* A <platform> is itself a test, AND and not negated.
Platform(t) == Test("AND", FALSE, <<t>>)

Single == {Platform(t) : t \in Inner}
Nested == {Test(op, neg, <<t, l>>) : op \in Operators, neg \in BOOLEAN, t \in Inner,
                                     l \in {Fact("hosted"), Fact("aarch64"), Fact("unclassified")}}
Coupled == {Test("OR", FALSE, <<s, t>>) : s \in Coupling, t \in Coupling}

Ref(t) == [kind |-> "platform", expr |-> t]

Simple == {Platform(Test("AND", FALSE, <<l>>)) : l \in MCLeaves}
              \cup {Platform(Test("AND", TRUE, <<Fact(f)>>)) : f \in {"aarch64", "hosted", "master_node"}}

Rule(own, groups) == [own |-> own, groups |-> groups]

Pairs == {<<Ref(s), Ref(t)>> : s \in Simple, t \in Simple}
             \cup {<<[kind |-> k], Ref(t)>> : k \in {"product", "undefined", "malformed"}, t \in Simple}

MCTests == Inner \cup Nested \cup Coupled \cup {Platform(t) : t \in Inner \cup Nested \cup Coupled}

\* How many tests a leaf is under: at most three.
IsFlat(t) == ~ IsTest(t) \/ \A i \in DOMAIN t.children : ~ IsTest(t.children[i])
MCHeight(t) == IF ~ IsTest(t) THEN 0
               ELSE IF IsFlat(t) THEN 1
               ELSE IF \A i \in DOMAIN t.children : IsFlat(t.children[i]) THEN 2 ELSE 3

\* Every expression as the rule's own; every pair as its own, as its own and
\* its group's, and as those of a group within a group.
MCXccdfRules ==
    {Rule(<<Ref(t)>>, <<>>) : t \in Single \cup {Platform(n) : n \in Nested \cup Coupled}}
        \cup UNION {{Rule(p, <<>>), Rule(<<p[1]>>, << <<p[2]>> >>),
                     Rule(<<>>, << <<p[1]>>, <<p[2]>> >>)} : p \in Pairs}
        \cup {Rule(<<>>, <<>>), Rule(<<>>, << <<>> >>), Rule(<<[kind |-> "product"]>>, <<>>)}
=============================================================================
