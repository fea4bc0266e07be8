---------------------------- MODULE Applicability ----------------------------
(***************************************************************************)
(* Which clusters and node roles a rule is for.  Upstream attaches CPE     *)
(* expressions to a rule; parser.py reads them, and applicability.py       *)
(* reduces them to what a Helm chart can check: an allowed set of values   *)
(* per declared fact (an axis), and a set of node roles.                   *)
(*                                                                         *)
(* One rule, from the datastream's groups to its entry in build_map.  An   *)
(* expression is a tree of tests whose leaves are facts or the product's   *)
(* CPE name.                                                               *)
(***************************************************************************)
EXTENDS Naturals, Sequences, SequencesExt

CONSTANTS
    Axes,        \* AXIS_ARCH, AXIS_HYPERSHIFT
    Domain,      \* DOMAINS: axis -> values
    AssumedTrue, AssumedFalse,  \* FACTS with a const
    AxisFacts,   \* the other FACTS
    AxisOf, TrueWhen,   \* fact -> its axis, and the values where it holds
    RoleFacts,   \* ROLE_FACTS: fact -> roles
    Roles,       \* the roles a cluster has
    Leaves, Tests,  \* the nodes of the expressions considered
    Height(_),   \* how high a node is in its tree: a datastream is finite
    XccdfRules   \* the rules considered: their own platform references, and
                 \* those of the groups around them, outermost first

Values == UNION {Domain[x] : x \in Axes}

FACTS == AssumedTrue \cup AssumedFalse \cup AxisFacts

IsFact(t) == t.kind = "fact"
IsProduct(t) == t.kind = "product"
IsTest(t) == t.kind = "test"

Nodes == Leaves \cup Tests

\* A reference names an expression, a product, nothing defined, or is malformed.
IsRef(ref) == \/ ref.kind = "platform" /\ ref.expr \in Nodes /\ IsTest(ref.expr)
              \/ ref.kind \in {"product", "undefined", "malformed"}

ASSUME VocabularyAssumption ==
    /\ Domain \in [Axes -> (SUBSET Values) \ {{}}]
    /\ AssumedTrue \cap AssumedFalse = {}
    /\ AxisFacts \cap (AssumedTrue \cup AssumedFalse) = {}
    /\ AxisOf \in [AxisFacts -> Axes]
    /\ \A f \in AxisFacts : TrueWhen[f] \subseteq Domain[AxisOf[f]]
    /\ DOMAIN RoleFacts \subseteq AssumedTrue
    /\ \A f \in DOMAIN RoleFacts : RoleFacts[f] \subseteq Roles
    \* ROLE_FACTS has one entry: no two of them exclude each other.
    /\ \E role \in Roles : \A f \in DOMAIN RoleFacts : role \in RoleFacts[f]

\* A test has at least one child, if only a product (applicability.py 193).
ASSUME NodesAssumption ==
    /\ \A t \in Nodes : Height(t) \in Nat
    /\ \A t \in Leaves : IsFact(t) \/ IsProduct(t)
    /\ \A t \in Tests : /\ IsTest(t) /\ t.operator \in {"AND", "OR"} /\ t.negate \in BOOLEAN
                        /\ t.children \in Seq(Nodes) \ {<<>>}
                        /\ \A i \in DOMAIN t.children : Height(t.children[i]) < Height(t)

ASSUME RulesAssumption ==
    \A r \in XccdfRules :
        /\ r.groups \in Seq(ToSet(r.groups))
        /\ \A refs \in {r.own} \cup ToSet(r.groups) :
               refs \in Seq(ToSet(refs)) /\ \A i \in DOMAIN refs : IsRef(refs[i])

VARIABLES
    rule,      \* the rule in the datastream
    inherited, \* the references of the groups entered on the way to it
    refs,      \* rule.all_platforms
    pc, next,  \* where walk or build_map is, and its depth or loop index
    exprs,     \* the expressions collected
    roles,     \* the role sets of the expressions read so far, {} for None
    app        \* the Applicability of the rule

parsed == <<rule, inherited, refs>>
vars == <<parsed, pc, next, exprs, roles, app>>

\* The clusters the axes tell apart.
Assignments == {a \in [Axes -> Values] : \A x \in Axes : a[x] \in Domain[x]}

-----------------------------------------------------------------------------
(***************************************************************************)
(* Expressions.                                                            *)
(***************************************************************************)
\* _parse_logical_test drops a fact-ref, the product is the datastream.
Kept(t) == {i \in DOMAIN t.children : ~ IsProduct(t.children[i])}
Parsed == {t \in Nodes : ~ IsProduct(t)}

\* all() or any(), where of these children the ones in held hold.
Holds(t, children, held) == IF t.operator = "AND" THEN held = children ELSE held # {}

\* Fault: an empty test returns early, before its negation.
EmptyIsTrue(t, kept, held) ==
    kept = {} \/ (IF t.negate THEN ~ Holds(t, kept, held) ELSE Holds(t, kept, held))

\* any([]) would be false: a test left without children is true.
Combine(t, kept, held) == LET value == kept = {} \/ Holds(t, kept, held)
                          IN IF t.negate THEN ~ value ELSE value

FactHolds(f, a) == f \in AssumedTrue \/ (f \in AxisFacts /\ a[AxisOf[f]] \in TrueWhen[f])

\* _evaluate of a node, given the assignments where the nodes below it hold.
EvaluateNode(t, below) ==
    {a \in Assignments : IF IsFact(t) THEN FactHolds(t.fact, a)
                         ELSE Combine(t, Kept(t), {i \in Kept(t) : a \in below[t.children[i]]})}

\* The assignments where a parsed expression holds.
Holding[t \in Parsed] == EvaluateNode(t, Holding)

Evaluate(t, a) == a \in Holding[t]

\* What occurs in the i-th child, with its position in the whole.
Placed(i, occurrences) == {<< <<i>> \o o[1], o[2] >> : o \in occurrences}

\* The occurrences of nodes in a node: the position, and the node there.
OccurrencesBelow(t, below) ==
    {<< <<>>, t >>} \cup
        IF IsTest(t) THEN UNION {Placed(i, below[t.children[i]]) : i \in DOMAIN t.children} ELSE {}

Occurrences[t \in Nodes] == OccurrencesBelow(t, Occurrences)

\* _referenced: a fact is listed at every position it has.
Referenced(t) == {o \in Occurrences[t] : IsFact(o[2])}

Facts(t) == {o[2].fact : o \in Referenced(t)}

\* _has_negation
HasNegation(t) == \E o \in Occurrences[t] : IsTest(o[2]) /\ o[2].negate

-----------------------------------------------------------------------------
(***************************************************************************)
(* The walk from the Benchmark to the rule, and build_map for the rule.    *)
(***************************************************************************)
Unrestricted == [never |-> FALSE, allowed |-> Domain, roles |-> {}]
Never == [Unrestricted EXCEPT !.never = TRUE]

Init ==
    /\ rule \in XccdfRules
    /\ inherited = <<>>
    /\ refs = <<>>
    /\ pc = "walk"
    /\ next = 1
    /\ exprs = <<>>
    /\ roles = {}
    /\ app = Unrestricted

Raise(error) == pc' = error /\ UNCHANGED <<parsed, next, exprs, roles, app>>

FromGroup(refsSoFar, own) == refsSoFar \o own

\* walk descends into the next group around the rule.
EnterGroup ==
    /\ pc = "walk"
    /\ next <= Len(rule.groups)
    /\ inherited' = FromGroup(inherited, rule.groups[next])
    /\ next' = next + 1
    /\ UNCHANGED <<rule, refs, pc, exprs, roles, app>>

FirstOccurrences(seq) ==
    LET upTo[n \in 0..Len(seq)] ==
            IF n = 0 THEN <<>>
            ELSE IF seq[n] \in ToSet(upTo[n - 1]) THEN upTo[n - 1]
            ELSE Append(upTo[n - 1], seq[n])
    IN upTo[Len(seq)]

\* The rule is read: its own references, then those it inherits, once each.
ReadRule ==
    /\ pc = "walk"
    /\ next > Len(rule.groups)
    /\ refs' = FirstOccurrences(rule.own \o inherited)
    /\ pc' = "collect"
    /\ next' = 1
    /\ UNCHANGED <<rule, inherited, exprs, roles, app>>

CollectRef ==
    /\ pc = "collect"
    /\ next <= Len(refs)
    /\ \/ /\ refs[next].kind \in {"undefined", "malformed"}
          /\ Raise("unsupported")
       \/ /\ refs[next].kind \in {"product", "platform"}
          /\ exprs' = IF refs[next].kind = "platform" THEN Append(exprs, refs[next].expr) ELSE exprs
          /\ next' = next + 1
          /\ UNCHANGED <<parsed, pc, roles, app>>

\* Rules without an expression are not in the map: nothing gates them.
Collected ==
    /\ pc = "collect"
    /\ next > Len(refs)
    /\ pc' = IF exprs = <<>> THEN "done" ELSE "reduce"
    /\ next' = 1
    /\ UNCHANGED <<parsed, exprs, roles, app>>

\* Fault: a fact that is not classified counts as false.
NothingUnknown == FALSE

\* all() stops at the first false expression, so _fact meets an unclassified
\* leaf only where the expressions before it hold.
MeetsUnknown ==
    \E i \in DOMAIN exprs : /\ ~ (Facts(exprs[i]) \subseteq FACTS)
                            /\ \E a \in Assignments : \A j \in 1..(i - 1) : Evaluate(exprs[j], a)

Satisfying == {a \in Assignments : \A i \in DOMAIN exprs : Evaluate(exprs[i], a)}

\* Fault: that no cluster satisfies the expressions goes unnoticed.
SomeCluster == FALSE

Impossible == Satisfying = {}

Projection == [x \in Axes |-> {a[x] : a \in Satisfying}]

\* Fault: compared with all clusters instead of the projections' product.
AllAssignments == Assignments

Product == {a \in Assignments : \A x \in Axes : a[x] \in Projection[x]}

Reduce ==
    /\ pc = "reduce"
    /\ \/ MeetsUnknown /\ Raise("unsupported")
       \/ /\ ~ MeetsUnknown
          /\ Impossible \/ Satisfying = Product
          /\ app' = IF Impossible THEN Never ELSE [Unrestricted EXCEPT !.allowed = Projection]
          /\ pc' = "roles"
          /\ UNCHANGED <<parsed, next, exprs, roles>>
       \/ ~ MeetsUnknown /\ ~ Impossible /\ Satisfying # Product /\ Raise("nonSeparable")

RoleNames(expr) == Facts(expr) \cap DOMAIN RoleFacts

\* _roles_for raises on a role fact negated or among others.
Unreadable(expr) == /\ RoleNames(expr) # {}
                    /\ HasNegation(expr) \/ \E o, p \in Referenced(expr) : o # p

ReadRoles ==
    /\ pc = "roles"
    /\ next <= Len(exprs)
    /\ \/ Unreadable(exprs[next]) /\ Raise("unsupported")
       \/ /\ ~ Unreadable(exprs[next])
          /\ roles' = roles \cup {RoleFacts[f] : f \in RoleNames(exprs[next])}
          /\ next' = next + 1
          /\ UNCHANGED <<parsed, pc, exprs, app>>

\* Their intersection, or frozenset() for None; an empty set is every role.
SetRoles ==
    /\ pc = "roles"
    /\ next > Len(exprs)
    /\ app' = [app EXCEPT !.roles = {r \in UNION roles : \A R \in roles : r \in R}]
    /\ pc' = "done"
    /\ UNCHANGED <<parsed, next, exprs, roles>>

Next == EnterGroup \/ ReadRule \/ CollectRef \/ Collected \/ Reduce \/ ReadRoles \/ SetRoles

Spec == Init /\ [][Next]_vars

-----------------------------------------------------------------------------
(***************************************************************************)
(* Properties.                                                             *)
(***************************************************************************)
Done == pc = "done"

\* What upstream attaches to the rule, directly or through a group around it.
References == ToSet(rule.own) \cup UNION {ToSet(rule.groups[i]) : i \in DOMAIN rule.groups}

Upstream == {ref.expr : ref \in {q \in References : q.kind = "platform"}}

\* build_map stays within its shapes, and an axis never loses all its values.
TypeOK ==
    /\ ToSet(refs) \subseteq References
    /\ pc \in {"walk", "collect", "reduce", "roles", "done", "unsupported", "nonSeparable"}
    /\ next \in 1..(Len(IF pc = "walk" THEN rule.groups ELSE refs) + 1)
    /\ \A i \in DOMAIN exprs : \E j \in DOMAIN refs :
           refs[j].kind = "platform" /\ refs[j].expr = exprs[i]
    /\ roles \in SUBSET (SUBSET Roles)
    /\ app \in [never : BOOLEAN, allowed : [Axes -> (SUBSET Values) \ {{}}], roles : SUBSET Roles]
    /\ \A x \in Axes : app.allowed[x] \subseteq Domain[x]

\* A cluster, and a role of its nodes.
Clusters == Assignments \X Roles

\* What upstream means by an expression: the product is given, a role fact
\* holds on the nodes of its roles, and the assumptions are as FACTS has them.
MeansNode(t, below) ==
    {c \in Clusters :
        \/ IsProduct(t)
        \/ /\ IsFact(t)
           /\ IF t.fact \in DOMAIN RoleFacts THEN c[2] \in RoleFacts[t.fact] ELSE FactHolds(t.fact, c[1])
        \/ /\ IsTest(t)
           /\ LET meant == {i \in DOMAIN t.children : c \in below[t.children[i]]}
              IN t.negate # Holds(t, DOMAIN t.children, meant)}

Meaning[t \in Nodes] == MeansNode(t, Meaning)

AppliesTo(a, role) == \A expr \in Upstream : <<a, role>> \in Meaning[expr]

\* What the chart does of it: the preflight lets the cluster pass, and the
\* role loop writes the object for the role.
Accepts(a, role) ==
    /\ ~ app.never
    /\ \A x \in Axes : a[x] \in app.allowed[x]
    /\ app.roles = {} \/ role \in app.roles

HasProduct(t) == \E o \in Occurrences[t] : IsProduct(o[2])

\* Somewhere in the expression a product is one of several alternatives.
ProductIsAlternative(t) ==
    \E o \in Occurrences[t] :
        IsTest(o[2]) /\ o[2].operator = "OR" /\ Len(o[2].children) > 1 /\ HasProduct(o[2])

\* The chart applies a rule to exactly the clusters and the node roles that
\* upstream means, for every expression the generator accepts: neither the
\* per-axis guards nor the separate treatment of role facts approximate it, and
\* no constraint of a group around the rule is lost on the way (the usbguard
\* family is constrained by its group only, parser.py 60-62).
ExactForEveryPool ==
    Done /\ (\A expr \in Upstream : ~ ProductIsAlternative(expr)) =>
        \A a \in Assignments, role \in Roles : Accepts(a, role) <=> AppliesTo(a, role)

\* An expression is refused as coupling the axes only when no choice of values
\* per axis has its meaning.
RefusalNecessary ==
    pc = "nonSeparable" =>
        ~ \E allowed \in [Axes -> SUBSET Values] :
              Satisfying = {a \in Assignments : \A x \in Axes : a[x] \in allowed[x]}

\* "The vocabulary is closed" (applicability.py 19-22), although the evaluation
\* stops early: a rule with a leaf nobody has classified is never applied.
UnknownNeverApplied ==
    Done /\ (\E expr \in Upstream : ~ (Facts(expr) \subseteq FACTS)) => app.never

-----------------------------------------------------------------------------
(***************************************************************************)
(* The inductive invariant.                                                *)
(***************************************************************************)
\* What the walk has inherited n groups down, the expressions of the first n
\* references, and the role sets of the first n expressions.
Entered(n) == UNION {ToSet(rule.groups[i]) : i \in 1..n}
Expressions(n) == {refs[j].expr : j \in {i \in 1..n : refs[i].kind = "platform"}}
RolesOf(n) == {RoleFacts[f] : f \in UNION {RoleNames(exprs[j]) : j \in 1..n}}

\* The references read so far, and in the end all of them.
RefsInv ==
    /\ rule \in XccdfRules
    /\ inherited \in Seq(References)
    /\ pc = "walk" => ToSet(inherited) = Entered(next - 1)
    /\ refs \in Seq(References)
    /\ pc # "walk" => ToSet(refs) = References

\* The expressions of the references seen, and in the end all of them.
ExprsInv ==
    /\ exprs \in Seq(Upstream)
    /\ pc = "walk" => exprs = <<>>
    /\ pc = "collect" => Len(exprs) < next /\ ToSet(exprs) = Expressions(next - 1)
    /\ pc \in {"reduce", "roles", "done", "nonSeparable"} =>
           ToSet(exprs) = Upstream /\ Len(exprs) <= Len(refs)

\* The axes are reduced as the expressions demand.
ReducedInv ==
    /\ pc \in {"walk", "collect", "reduce"} => app = Unrestricted
    /\ pc = "reduce" => next = 1
    /\ pc \in {"reduce", "roles"} => exprs # <<>>
    /\ pc = "roles" => app.roles = {}
    /\ pc \in {"roles", "done"} =>
           IF exprs = <<>> THEN app = Unrestricted
           ELSE /\ ~ MeetsUnknown
                /\ app.never <=> Impossible
                /\ ~ Impossible => app.allowed = Projection /\ Satisfying = Product
    /\ pc = "nonSeparable" => ~ Impossible /\ Satisfying # Product

\* The role facts of the expressions read, none of which is in a compound.
RolesInv ==
    /\ pc \in {"walk", "collect", "reduce"} => roles = {}
    /\ pc \in {"roles", "done"} /\ exprs # <<>> =>
           /\ next <= Len(exprs) + 1
           /\ \A j \in 1..(next - 1) : ~ Unreadable(exprs[j])
           /\ roles = RolesOf(next - 1)
    /\ pc = "done" /\ exprs # <<>> =>
           /\ next = Len(exprs) + 1
           /\ app.roles = {r \in UNION roles : \A R \in roles : r \in R}

IInv == TypeOK /\ RefsInv /\ ExprsInv /\ ReducedInv /\ RolesInv

=============================================================================
