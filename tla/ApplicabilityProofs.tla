------------------------ MODULE ApplicabilityProofs ------------------------
(***************************************************************************)
(* Which clusters and roles a rule is applied to, for every vocabulary of  *)
(* facts, every domain of the axes and every expression: however deep the  *)
(* tests are nested, and however many references and groups a rule has.    *)
(* The operators on expressions are recursive functions, so the module     *)
(* first shows that such a function exists; the properties then follow     *)
(* from IInv.                                                              *)
(***************************************************************************)
EXTENDS Applicability, SequenceTheorems, WellFoundedInduction, TLAPS

-----------------------------------------------------------------------------
(***************************************************************************)
(* Recursion on a height.                                                  *)
(***************************************************************************)
LEMMA LeastExists ==
    ASSUME NEW T, T \subseteq Nat, T # {}
    PROVE  \E x \in T : \A y \in T : x <= y
<1> DEFINE R == {ss \in Nat \X Nat : ss[1] < ss[2]}
<1>1. IsWellFoundedOn(R, Nat)
  BY NatLessThanWellFounded DEF OpToRel
<1> HIDE DEF R
<1>2. PICK x \in T : \A y \in T : ~ (<<y, x>> \in R)
  BY <1>1, WFMin
<1>3. \A y \in T : ~ (y < x)
  BY <1>2 DEF R
<1> QED
  BY <1>2, <1>3

\* A set of elements with heights has one of the least height.
LEMMA LowestExists ==
    ASSUME NEW S, NEW h \in [S -> Nat], NEW T, T \subseteq S, T # {}
    PROVE  \E x \in T : \A y \in T : h[x] <= h[y]
<1> DEFINE H == {h[x] : x \in T}
<1>1. H \subseteq Nat /\ H # {}
  OBVIOUS
<1> HIDE DEF H
<1>2. PICK n \in H : \A m \in H : n <= m
  BY <1>1, LeastExists
<1>3. PICK x \in T : h[x] = n
  BY <1>2 DEF H
<1>4. \A y \in T : h[y] \in H
  BY DEF H
<1> QED
  BY <1>2, <1>3, <1>4

\* G computes the value at an element from the values at lower ones.
Recursive(S, h, V, G) ==
    /\ G \in [S \X [S -> V] -> V]
    /\ \A x \in S : \A f, g \in [S -> V] :
           (\A y \in S : h[y] < h[x] => f[y] = g[y]) => G[<<x, f>>] = G[<<x, g>>]

\* f satisfies the equation at the elements lower than n.
SolvesBelow(n, f, S, h, G) == \A x \in S : h[x] < n => f[x] = G[<<x, f>>]

LEMMA SolutionsAgree ==
    ASSUME NEW S, NEW h \in [S -> Nat], NEW V, NEW G, Recursive(S, h, V, G),
           NEW f \in [S -> V], NEW g \in [S -> V], NEW m \in Nat, NEW n \in Nat,
           SolvesBelow(m, f, S, h, G), SolvesBelow(n, g, S, h, G)
    PROVE  \A x \in S : h[x] < m /\ h[x] < n => f[x] = g[x]
<1> DEFINE Bad == {x \in S : h[x] < m /\ h[x] < n /\ f[x] # g[x]}
<1>1. SUFFICES ASSUME Bad # {} PROVE FALSE
  OBVIOUS
<1> HIDE DEF Bad
<1>2. Bad \subseteq S
  BY DEF Bad
<1>3. PICK x \in Bad : \A y \in Bad : h[x] <= h[y]
  BY <1>1, <1>2, LowestExists
<1>4. x \in S /\ h[x] \in Nat /\ h[x] < m /\ h[x] < n /\ f[x] # g[x]
  BY <1>2, <1>3 DEF Bad
<1>5. \A y \in S : h[y] < h[x] => f[y] = g[y]
  <2>1. SUFFICES ASSUME NEW y \in S, h[y] < h[x] PROVE f[y] = g[y]
    OBVIOUS
  <2>2. h[y] \in Nat
    OBVIOUS
  <2>3. y \notin Bad
    BY <1>3, <1>4, <2>1, <2>2
  <2>4. QED
    BY <1>4, <2>1, <2>2, <2>3 DEF Bad
<1>6. G[<<x, f>>] = G[<<x, g>>]
  BY <1>4, <1>5 DEF Recursive
<1>7. QED
  BY <1>4, <1>6 DEF SolvesBelow

LEMMA NextLevel ==
    ASSUME NEW S, NEW h \in [S -> Nat], NEW V, NEW G, Recursive(S, h, V, G),
           NEW f \in [S -> V], NEW n \in Nat, SolvesBelow(n, f, S, h, G)
    PROVE  \E g \in [S -> V] : SolvesBelow(n + 1, g, S, h, G)
<1> DEFINE g == [x \in S |-> IF h[x] < n THEN f[x] ELSE G[<<x, f>>]]
<1>1. g \in [S -> V]
  BY DEF Recursive
<1>2. \A x \in S : h[x] < n => g[x] = f[x]
  OBVIOUS
<1>3. \A x \in S : ~ (h[x] < n) => g[x] = G[<<x, f>>]
  OBVIOUS
<1> HIDE DEF g
<1>4. ASSUME NEW x \in S, h[x] < n + 1 PROVE g[x] = G[<<x, g>>]
  <2>1. \A y \in S : h[y] < h[x] => f[y] = g[y]
    <3>1. \A y \in S : h[y] < h[x] => h[y] < n
      BY <1>4
    <3>2. QED
      BY <1>2, <3>1
  <2>2. G[<<x, f>>] = G[<<x, g>>]
    BY <1>1, <2>1 DEF Recursive
  <2>3. g[x] = G[<<x, f>>]
    BY <1>2, <1>3 DEF SolvesBelow
  <2>4. QED
    BY <2>2, <2>3
<1>5. QED
  BY <1>1, <1>4 DEF SolvesBelow

LEMMA EveryLevel ==
    ASSUME NEW S, NEW h \in [S -> Nat], NEW V, NEW G, Recursive(S, h, V, G),
           NEW v \in V, NEW n \in Nat
    PROVE  \E f \in [S -> V] : SolvesBelow(n, f, S, h, G)
<1> DEFINE Missing == {m \in Nat : ~ \E f \in [S -> V] : SolvesBelow(m, f, S, h, G)}
<1>1. SUFFICES ASSUME Missing # {} PROVE FALSE
  OBVIOUS
<1> HIDE DEF Missing
<1>2. Missing \subseteq Nat
  BY DEF Missing
<1>3. PICK m \in Missing : \A k \in Missing : m <= k
  BY <1>1, <1>2, LeastExists
<1>4. CASE m = 0
  <2>1. [x \in S |-> v] \in [S -> V]
    OBVIOUS
  <2>2. SolvesBelow(0, [x \in S |-> v], S, h, G)
    BY DEF SolvesBelow
  <2>3. QED
    BY <1>3, <1>4, <2>1, <2>2 DEF Missing
<1>5. CASE m # 0
  <2>1. m - 1 \in Nat /\ m - 1 \notin Missing /\ (m - 1) + 1 = m
    BY <1>2, <1>3, <1>5
  <2>2. PICK f \in [S -> V] : SolvesBelow(m - 1, f, S, h, G)
    BY <2>1 DEF Missing
  <2>3. \E g \in [S -> V] : SolvesBelow(m, g, S, h, G)
    BY <2>1, <2>2, NextLevel
  <2>4. QED
    BY <1>3, <2>3 DEF Missing
<1>6. QED
  BY <1>4, <1>5

\* There is a function whose value at every element is the one G computes.
LEMMA RecursionExists ==
    ASSUME NEW S, NEW h \in [S -> Nat], NEW V, NEW G, Recursive(S, h, V, G), NEW v \in V
    PROVE  \E f \in [S -> V] : \A x \in S : f[x] = G[<<x, f>>]
<1> DEFINE Level(n) == CHOOSE f \in [S -> V] : SolvesBelow(n, f, S, h, G)
           f == [x \in S |-> Level(h[x] + 1)[x]]
<1>1. \A n \in Nat : Level(n) \in [S -> V] /\ SolvesBelow(n, Level(n), S, h, G)
  <2>1. SUFFICES ASSUME NEW n \in Nat PROVE Level(n) \in [S -> V] /\ SolvesBelow(n, Level(n), S, h, G)
    OBVIOUS
  <2>2. \E g \in [S -> V] : SolvesBelow(n, g, S, h, G)
    BY EveryLevel
  <2>3. QED
    BY <2>2
<1> HIDE DEF Level
<1>2. \A x \in S : h[x] + 1 \in Nat
  OBVIOUS
<1>3. f \in [S -> V]
  BY <1>1, <1>2
<1>4. \A x \in S : f[x] = Level(h[x] + 1)[x]
  OBVIOUS
<1> HIDE DEF f
<1>5. ASSUME NEW x \in S PROVE f[x] = G[<<x, f>>]
  <2> DEFINE n == h[x] + 1
             g == Level(n)
  <2>1. n \in Nat /\ h[x] < n /\ \A y \in S : h[y] < h[x] => h[y] < n /\ h[y] < h[y] + 1
    OBVIOUS
  <2>2. g \in [S -> V] /\ SolvesBelow(n, g, S, h, G)
    BY <1>1, <2>1
  <2> HIDE DEF n
  <2>3. \A y \in S : h[y] < h[x] => f[y] = g[y]
    <3>1. SUFFICES ASSUME NEW y \in S, h[y] < h[x] PROVE f[y] = g[y]
      OBVIOUS
    <3>2. h[y] + 1 \in Nat /\ h[y] < h[y] + 1 /\ h[y] < n
      BY <2>1, <3>1
    <3>3. Level(h[y] + 1) \in [S -> V] /\ SolvesBelow(h[y] + 1, Level(h[y] + 1), S, h, G)
      BY <1>1, <3>2
    <3> HIDE DEF g
    <3>4. Level(h[y] + 1)[y] = g[y]
      BY <2>1, <2>2, <3>2, <3>3, SolutionsAgree
    <3>5. QED
      BY <1>4, <3>4
  <2>4. G[<<x, f>>] = G[<<x, g>>]
    BY <1>3, <2>2, <2>3 DEF Recursive
  <2>5. g[x] = G[<<x, g>>]
    BY <2>1, <2>2 DEF SolvesBelow
  <2>6. f[x] = g[x]
    BY <1>4 DEF n
  <2>7. QED
    BY <2>4, <2>5, <2>6
<1>6. QED
  BY <1>3, <1>5

-----------------------------------------------------------------------------
(***************************************************************************)
(* The equations of the recursive functions.                               *)
(***************************************************************************)
LEMMA NodeShape ==
    ASSUME NEW t \in Nodes
    PROVE  /\ Height(t) \in Nat
           /\ IsFact(t) \/ IsProduct(t) \/ IsTest(t)
           /\ ~ (IsFact(t) /\ IsProduct(t))
           /\ ~ (IsFact(t) /\ IsTest(t))
           /\ ~ (IsProduct(t) /\ IsTest(t))
<1>1. ~ (IsFact(t) /\ IsProduct(t)) /\ ~ (IsFact(t) /\ IsTest(t)) /\ ~ (IsProduct(t) /\ IsTest(t))
  BY DEF IsFact, IsProduct, IsTest
<1>2. t \in Leaves \/ t \in Tests
  BY DEF Nodes
<1>3. QED
  BY <1>1, <1>2, NodesAssumption

LEMMA TestShape ==
    ASSUME NEW t \in Nodes, IsTest(t)
    PROVE  /\ t.operator \in {"AND", "OR"} /\ t.negate \in BOOLEAN
           /\ t.children \in Seq(Nodes) /\ t.children # <<>>
           /\ DOMAIN t.children = 1..Len(t.children) /\ Len(t.children) \in Nat \ {0}
           /\ 1 \in DOMAIN t.children
           /\ \A i \in DOMAIN t.children : t.children[i] \in Nodes /\ Height(t.children[i]) < Height(t)
<1>1. t \notin Leaves
  BY NodesAssumption DEF IsFact, IsProduct, IsTest
<1>2. t \in Tests
  BY <1>1 DEF Nodes
<1>3. /\ t.operator \in {"AND", "OR"} /\ t.negate \in BOOLEAN
      /\ t.children \in Seq(Nodes) /\ t.children # <<>>
      /\ \A i \in DOMAIN t.children : Height(t.children[i]) < Height(t)
  BY <1>2, NodesAssumption
<1> DEFINE cs == t.children
<1>4. cs \in Seq(Nodes) /\ cs # <<>>
  BY <1>3
<1> HIDE DEF cs
<1>5. /\ DOMAIN cs = 1..Len(cs) /\ Len(cs) \in Nat \ {0} /\ 1 \in DOMAIN cs
      /\ \A i \in DOMAIN cs : cs[i] \in Nodes
  BY <1>4
<1>6. QED
  BY <1>3, <1>5 DEF cs

LEMMA ChildShape ==
    ASSUME NEW t \in Nodes, IsTest(t), NEW i \in DOMAIN t.children
    PROVE  /\ i \in Nat /\ t.children[i] \in Nodes
           /\ Height(t.children[i]) \in Nat /\ Height(t) \in Nat /\ Height(t.children[i]) < Height(t)
           /\ i \in Kept(t) <=> t.children[i] \in Parsed
<1>1. i \in Nat
  <2>1. DOMAIN t.children = 1..Len(t.children) /\ Len(t.children) \in Nat
    BY TestShape
  <2>2. QED
    BY <2>1
<1>2. QED
  BY <1>1, NodeShape, TestShape DEF Kept, Parsed

LEMMA ParsedShape ==
    ASSUME NEW t \in Parsed
    PROVE  t \in Nodes /\ ~ IsProduct(t) /\ (IsFact(t) \/ IsTest(t)) /\ ~ (IsFact(t) /\ IsTest(t))
BY NodeShape DEF Parsed

\* The equation of _evaluate.
LEMMA HoldingEquation ==
    /\ Holding \in [Parsed -> SUBSET Assignments]
    /\ \A t \in Parsed : Holding[t] = EvaluateNode(t, Holding)
<1> DEFINE V == SUBSET Assignments
           h == [t \in Parsed |-> Height(t)]
           G == [p \in Parsed \X [Parsed -> V] |-> EvaluateNode(p[1], p[2])]
<1>1. h \in [Parsed -> Nat]
  BY ParsedShape, NodeShape
<1>2. \A t \in Parsed, f \in [Parsed -> V] : G[<<t, f>>] = EvaluateNode(t, f)
  OBVIOUS
<1>3. \A t, f : EvaluateNode(t, f) \in V
  BY DEF EvaluateNode
<1>4. G \in [Parsed \X [Parsed -> V] -> V]
  BY <1>3
<1>5. ASSUME NEW t \in Parsed, NEW f \in [Parsed -> V], NEW g \in [Parsed -> V],
             \A s \in Parsed : h[s] < h[t] => f[s] = g[s]
      PROVE  EvaluateNode(t, f) = EvaluateNode(t, g)
  <2>1. CASE IsFact(t)
    BY <2>1 DEF EvaluateNode
  <2>2. CASE ~ IsFact(t)
    <3>1. t \in Nodes /\ IsTest(t)
      BY <2>2, ParsedShape
    <3>2. \A i \in Kept(t) : i \in DOMAIN t.children
      BY DEF Kept
    <3>3. \A i \in Kept(t) : t.children[i] \in Parsed /\ Height(t.children[i]) < Height(t)
      BY <3>1, <3>2, ChildShape
    <3>4. \A i \in Kept(t) : f[t.children[i]] = g[t.children[i]]
      BY <1>5, <3>3
    <3>5. \A a : {i \in Kept(t) : a \in f[t.children[i]]} = {i \in Kept(t) : a \in g[t.children[i]]}
      BY <3>4
    <3>6. QED
      BY <2>2, <3>5 DEF EvaluateNode
  <2>3. QED
    BY <2>1, <2>2
<1> HIDE DEF h, G
<1>6. Recursive(Parsed, h, V, G)
  BY <1>2, <1>4, <1>5 DEF Recursive
<1>7. {} \in V
  OBVIOUS
<1> HIDE DEF V
<1>8. PICK f \in [Parsed -> V] : \A t \in Parsed : f[t] = G[<<t, f>>]
  BY <1>1, <1>6, <1>7, RecursionExists
<1>9. f = [t \in Parsed |-> EvaluateNode(t, f)]
  BY <1>2, <1>8
<1>10. Holding = [t \in Parsed |-> EvaluateNode(t, Holding)]
  BY <1>9 DEF Holding
<1>11. QED
  BY <1>3, <1>10 DEF V

LEMMA PlacedType ==
    ASSUME NEW i \in Nat, NEW S, S \subseteq Seq(Nat) \X Nodes
    PROVE  Placed(i, S) \subseteq Seq(Nat) \X Nodes
<1>1. \A o \in S : o[1] \in Seq(Nat) /\ o[2] \in Nodes
  OBVIOUS
<1>2. \A q \in Seq(Nat) : <<i>> \o q \in Seq(Nat)
  OBVIOUS
<1>3. \A o \in S : <<i>> \o o[1] \in Seq(Nat)
  BY <1>1, <1>2
<1>4. \A o \in S : << <<i>> \o o[1], o[2] >> \in Seq(Nat) \X Nodes
  BY <1>1, <1>3
<1>5. QED
  BY <1>4 DEF Placed

LEMMA OccurrencesEquation ==
    /\ Occurrences \in [Nodes -> SUBSET (Seq(Nat) \X Nodes)]
    /\ \A t \in Nodes : Occurrences[t] = OccurrencesBelow(t, Occurrences)
<1> DEFINE V == SUBSET (Seq(Nat) \X Nodes)
           h == [t \in Nodes |-> Height(t)]
           G == [p \in Nodes \X [Nodes -> V] |-> OccurrencesBelow(p[1], p[2])]
<1>1. h \in [Nodes -> Nat]
  BY NodeShape
<1>2. \A t \in Nodes, f \in [Nodes -> V] : G[<<t, f>>] = OccurrencesBelow(t, f)
  OBVIOUS
<1>3. ASSUME NEW t \in Nodes, NEW f \in [Nodes -> V] PROVE OccurrencesBelow(t, f) \in V
  <2>1. << <<>>, t >> \in Seq(Nat) \X Nodes
    BY EmptySeq
  <2>2. CASE ~ IsTest(t)
    BY <2>1, <2>2 DEF OccurrencesBelow
  <2>3. CASE IsTest(t)
    <3>1. \A i \in DOMAIN t.children : i \in Nat /\ f[t.children[i]] \in V
      BY <2>3, ChildShape
    <3>2. \A i \in DOMAIN t.children : Placed(i, f[t.children[i]]) \subseteq Seq(Nat) \X Nodes
      BY <3>1, PlacedType
    <3>3. OccurrencesBelow(t, f) =
              {<< <<>>, t >>} \cup UNION {Placed(i, f[t.children[i]]) : i \in DOMAIN t.children}
      BY <2>3 DEF OccurrencesBelow
    <3>4. QED
      BY <2>1, <3>2, <3>3
  <2>4. QED
    BY <2>2, <2>3
<1>4. G \in [Nodes \X [Nodes -> V] -> V]
  BY <1>3
<1>5. ASSUME NEW t \in Nodes, NEW f \in [Nodes -> V], NEW g \in [Nodes -> V],
             \A s \in Nodes : h[s] < h[t] => f[s] = g[s]
      PROVE  OccurrencesBelow(t, f) = OccurrencesBelow(t, g)
  <2>1. CASE ~ IsTest(t)
    BY <2>1 DEF OccurrencesBelow
  <2>2. CASE IsTest(t)
    <3>1. \A i \in DOMAIN t.children : t.children[i] \in Nodes /\ Height(t.children[i]) < Height(t)
      BY <2>2, ChildShape
    <3>2. \A i \in DOMAIN t.children : f[t.children[i]] = g[t.children[i]]
      BY <1>5, <3>1
    <3>3. {Placed(i, f[t.children[i]]) : i \in DOMAIN t.children}
              = {Placed(i, g[t.children[i]]) : i \in DOMAIN t.children}
      BY <3>2
    <3>4. QED
      BY <2>2, <3>3 DEF OccurrencesBelow
  <2>3. QED
    BY <2>1, <2>2
<1> HIDE DEF h, G
<1>6. Recursive(Nodes, h, V, G)
  BY <1>2, <1>4, <1>5 DEF Recursive
<1>7. {} \in V
  OBVIOUS
<1> HIDE DEF V
<1>8. PICK f \in [Nodes -> V] : \A t \in Nodes : f[t] = G[<<t, f>>]
  BY <1>1, <1>6, <1>7, RecursionExists
<1>9. f = [t \in Nodes |-> OccurrencesBelow(t, f)] /\ f \in [Nodes -> V]
  BY <1>2, <1>8
<1> DEFINE IsIt(x) == x = [t \in Nodes |-> OccurrencesBelow(t, x)]
<1>10. IsIt(Occurrences)
  BY <1>9 DEF Occurrences
<1>11. Occurrences = [t \in Nodes |-> Occurrences[t]]
  BY <1>10
<1>12. \A t \in Nodes : Occurrences[t] = OccurrencesBelow(t, Occurrences)
  BY <1>10
<1> DEFINE Wrong == {t \in Nodes : Occurrences[t] \notin V}
<1>13. Wrong = {}
  <2> HIDE DEF IsIt, Wrong
  <2>1. SUFFICES ASSUME Wrong # {} PROVE FALSE
    OBVIOUS
  <2>2. Wrong \subseteq Nodes
    BY DEF Wrong
  <2>3. PICK t \in Wrong : \A s \in Wrong : h[t] <= h[s]
    BY <1>1, <2>1, <2>2, LowestExists
  <2> DEFINE g == [s \in Nodes |-> IF Occurrences[s] \in V THEN Occurrences[s] ELSE {}]
  <2>4. g \in [Nodes -> V]
    BY <1>7
  <2>5. \A s \in Nodes : s \notin Wrong => g[s] = Occurrences[s]
    BY DEF Wrong
  <2> HIDE DEF g
  <2>6. \A s \in Nodes : h[s] < h[t] => s \notin Wrong
    BY <1>1, <2>2, <2>3
  <2>7. OccurrencesBelow(t, g) = OccurrencesBelow(t, Occurrences)
    <3>1. CASE ~ IsTest(t)
      BY <3>1 DEF OccurrencesBelow
    <3>2. CASE IsTest(t)
      <4>1. \A i \in DOMAIN t.children : t.children[i] \in Nodes /\ Height(t.children[i]) < Height(t)
        BY <2>2, <3>2, ChildShape
      <4>2. \A i \in DOMAIN t.children : t.children[i] \notin Wrong
        BY <2>2, <2>6, <4>1 DEF h
      <4>3. \A i \in DOMAIN t.children : g[t.children[i]] = Occurrences[t.children[i]]
        BY <2>5, <4>1, <4>2
      <4>4. {Placed(i, g[t.children[i]]) : i \in DOMAIN t.children}
                = {Placed(i, Occurrences[t.children[i]]) : i \in DOMAIN t.children}
        BY <4>3
      <4>5. QED
        BY <3>2, <4>4 DEF OccurrencesBelow
    <3>3. QED
      BY <3>1, <3>2
  <2>8. OccurrencesBelow(t, g) \in V
    BY <1>3, <2>2, <2>4 DEF V
  <2>9. QED
    BY <1>12, <2>2, <2>7, <2>8 DEF Wrong
<1>14. QED
  BY <1>11, <1>12, <1>13 DEF V

\* The equation of the reference meaning.
LEMMA MeaningEquation ==
    /\ Meaning \in [Nodes -> SUBSET Clusters]
    /\ \A t \in Nodes : Meaning[t] = MeansNode(t, Meaning)
<1> DEFINE V == SUBSET Clusters
           h == [t \in Nodes |-> Height(t)]
           G == [p \in Nodes \X [Nodes -> V] |-> MeansNode(p[1], p[2])]
<1>1. h \in [Nodes -> Nat]
  BY NodeShape
<1>2. \A t \in Nodes, f \in [Nodes -> V] : G[<<t, f>>] = MeansNode(t, f)
  OBVIOUS
<1>3. \A t, f : MeansNode(t, f) \in V
  BY DEF MeansNode
<1>4. G \in [Nodes \X [Nodes -> V] -> V]
  BY <1>3
<1>5. ASSUME NEW t \in Nodes, NEW f \in [Nodes -> V], NEW g \in [Nodes -> V],
             \A s \in Nodes : h[s] < h[t] => f[s] = g[s]
      PROVE  MeansNode(t, f) = MeansNode(t, g)
  <2>1. CASE ~ IsTest(t)
    BY <2>1 DEF MeansNode
  <2>2. CASE IsTest(t)
    <3>1. \A i \in DOMAIN t.children : t.children[i] \in Nodes /\ Height(t.children[i]) < Height(t)
      BY <2>2, ChildShape
    <3>2. \A i \in DOMAIN t.children : f[t.children[i]] = g[t.children[i]]
      BY <1>5, <3>1
    <3>3. \A c : {i \in DOMAIN t.children : c \in f[t.children[i]]}
                     = {i \in DOMAIN t.children : c \in g[t.children[i]]}
      BY <3>2
    <3>4. QED
      BY <3>3 DEF MeansNode
  <2>3. QED
    BY <2>1, <2>2
<1> HIDE DEF h, G
<1>6. Recursive(Nodes, h, V, G)
  BY <1>2, <1>4, <1>5 DEF Recursive
<1>7. {} \in V
  OBVIOUS
<1> HIDE DEF V
<1>8. PICK f \in [Nodes -> V] : \A t \in Nodes : f[t] = G[<<t, f>>]
  BY <1>1, <1>6, <1>7, RecursionExists
<1>9. f = [t \in Nodes |-> MeansNode(t, f)]
  BY <1>2, <1>8
<1>10. Meaning = [t \in Nodes |-> MeansNode(t, Meaning)]
  BY <1>9 DEF Meaning
<1>11. QED
  BY <1>3, <1>10 DEF V

LEMMA ToSetOf ==
    ASSUME NEW S, NEW s \in Seq(S)
    PROVE  /\ ToSet(s) = {s[i] : i \in 1..Len(s)} /\ ToSet(s) \subseteq S
           /\ DOMAIN s = 1..Len(s) /\ Len(s) \in Nat
BY DEF ToSet

LEMMA AppendToSet ==
    ASSUME NEW S, NEW s \in Seq(S), NEW e \in S
    PROVE  ToSet(Append(s, e)) = ToSet(s) \cup {e}
<1> DEFINE t == Append(s, e)
           n == Len(s)
<1>1. t \in Seq(S) /\ Len(t) = n + 1 /\ t[n + 1] = e /\ \A i \in 1..n : t[i] = s[i]
  BY AppendProperties
<1>2. n \in Nat
  BY ToSetOf
<1> HIDE DEF t, n
<1>3. 1..(n + 1) = 1..n \cup {n + 1}
  BY <1>2
<1>4. ToSet(t) = {t[i] : i \in 1..(n + 1)}
  BY <1>1, ToSetOf
<1>5. {t[i] : i \in 1..(n + 1)} = {s[i] : i \in 1..n} \cup {e}
  BY <1>1, <1>3
<1>6. {s[i] : i \in 1..n} = ToSet(s)
  BY ToSetOf DEF n
<1>7. QED
  BY <1>4, <1>5, <1>6 DEF t

LEMMA ConcatToSet ==
    ASSUME NEW S, NEW s \in Seq(S), NEW t \in Seq(S)
    PROVE  s \o t \in Seq(S) /\ ToSet(s \o t) = ToSet(s) \cup ToSet(t)
<1> DEFINE u == s \o t
           m == Len(s)
           n == Len(t)
<1>1. /\ u \in Seq(S) /\ Len(u) = m + n
      /\ \A i \in 1..(m + n) : u[i] = IF i <= m THEN s[i] ELSE t[i - m]
  BY ConcatProperties
<1>2. m \in Nat /\ n \in Nat
  BY ToSetOf
<1>3. ToSet(u) = {u[i] : i \in 1..(m + n)} /\ ToSet(s) = {s[i] : i \in 1..m} /\ ToSet(t) = {t[i] : i \in 1..n}
  <2>1. ToSet(u) = {u[i] : i \in 1..Len(u)}
    BY <1>1, ToSetOf
  <2>2. QED
    BY <1>1, <2>1, ToSetOf
<1> HIDE DEF u, m, n
<1>4. ASSUME NEW i \in 1..m PROVE s[i] \in ToSet(u)
  <2>1. i \in 1..(m + n) /\ u[i] = s[i]
    BY <1>1, <1>2
  <2>2. QED
    BY <1>3, <2>1
<1>5. ASSUME NEW i \in 1..n PROVE t[i] \in ToSet(u)
  <2>1. m + i \in 1..(m + n) /\ ~ (m + i <= m) /\ (m + i) - m = i
    BY <1>2
  <2>2. u[m + i] = t[i]
    BY <1>1, <2>1
  <2>3. QED
    BY <1>3, <2>1, <2>2
<1>6. ASSUME NEW i \in 1..(m + n) PROVE u[i] \in ToSet(s) \cup ToSet(t)
  <2>1. i <= m => i \in 1..m
    BY <1>2
  <2>2. ~ (i <= m) => i - m \in 1..n
    BY <1>2
  <2>3. CASE i <= m
    <3>1. u[i] = s[i]
      BY <1>1, <2>3
    <3>2. QED
      BY <1>3, <2>1, <2>3, <3>1
  <2>4. CASE ~ (i <= m)
    <3>1. u[i] = t[i - m]
      BY <1>1, <2>4
    <3>2. QED
      BY <1>3, <2>2, <2>4, <3>1
  <2>5. QED
    BY <2>3, <2>4
<1>7. QED
  BY <1>1, <1>3, <1>4, <1>5, <1>6 DEF u

\* dict.fromkeys keeps every reference.
LEMMA FirstOccurrencesKeeps ==
    ASSUME NEW S, NEW seq \in Seq(S)
    PROVE  /\ FirstOccurrences(seq) \in Seq(S)
           /\ ToSet(FirstOccurrences(seq)) = ToSet(seq)
<1> DEFINE D == 0..Len(seq)
           V == Seq(S)
           h == [n \in D |-> n]
           One(n, f) == IF n = 0 THEN <<>>
                        ELSE IF seq[n] \in ToSet(f[n - 1]) THEN f[n - 1]
                        ELSE Append(f[n - 1], seq[n])
           G == [p \in D \X [D -> V] |-> One(p[1], p[2])]
           IsIt(x) == x = [n \in D |-> One(n, x)]
           upTo == CHOOSE x : IsIt(x)
           Among(n) == {seq[i] : i \in 1..n}
           Good(n, s) == s \in V /\ ToSet(s) = Among(n)
<1>1. Len(seq) \in Nat /\ DOMAIN seq = 1..Len(seq) /\ \A i \in 1..Len(seq) : seq[i] \in S
  OBVIOUS
<1>2. h \in [D -> Nat]
  BY <1>1
<1>3. \A n \in D, f \in [D -> V] : G[<<n, f>>] = One(n, f)
  OBVIOUS
<1>4. ASSUME NEW n \in D, NEW f, n # 0 => f[n - 1] \in V PROVE One(n, f) \in V
  <2>1. CASE n = 0
    BY <2>1, EmptySeq
  <2>2. CASE n # 0
    <3>1. f[n - 1] \in V /\ seq[n] \in S
      BY <1>1, <1>4, <2>2
    <3>2. Append(f[n - 1], seq[n]) \in V
      BY <3>1, AppendProperties
    <3>3. QED
      BY <2>2, <3>1, <3>2
  <2>3. QED
    BY <2>1, <2>2
<1>5. \A n \in D : n # 0 => n - 1 \in D /\ h[n - 1] < h[n]
  BY <1>1
<1>6. ASSUME NEW n \in D, NEW f \in [D -> V] PROVE One(n, f) \in V
  <2>1. n # 0 => f[n - 1] \in V
    BY <1>5
  <2> HIDE DEF One, V
  <2>2. QED
    BY <1>4, <2>1
<1>7. ASSUME NEW n \in D, NEW f, NEW g, n # 0 => f[n - 1] = g[n - 1]
      PROVE  One(n, f) = One(n, g)
  BY <1>7
<1> HIDE DEF h, One
<1>8. G \in [D \X [D -> V] -> V]
  BY <1>6
<1> HIDE DEF G
<1>9. Recursive(D, h, V, G)
  <2>1. ASSUME NEW n \in D, NEW f \in [D -> V], NEW g \in [D -> V],
               \A m \in D : h[m] < h[n] => f[m] = g[m]
        PROVE  G[<<n, f>>] = G[<<n, g>>]
    <3>1. n # 0 => f[n - 1] = g[n - 1]
      BY <1>5, <2>1
    <3>2. One(n, f) = One(n, g)
      BY <1>7, <3>1
    <3>3. QED
      BY <1>3, <3>2
  <2>2. QED
    BY <1>8, <2>1 DEF Recursive
<1>10. <<>> \in V
  BY EmptySeq
<1> HIDE DEF V, D
<1>11. PICK f \in [D -> V] : \A n \in D : f[n] = G[<<n, f>>]
  BY <1>2, <1>9, <1>10, RecursionExists
<1>12. IsIt(f)
  BY <1>3, <1>11
<1>13. IsIt(upTo)
  BY <1>12
<1>14. \A n \in D : upTo[n] = One(n, upTo)
  BY <1>13
<1>15. FirstOccurrences(seq) = upTo[Len(seq)]
  BY DEF FirstOccurrences, D, One
<1> HIDE DEF upTo
<1> DEFINE Wrong == {n \in D : ~ Good(n, upTo[n])}
<1>16. Wrong = {}
  <2> HIDE DEF Wrong
  <2>1. SUFFICES ASSUME Wrong # {} PROVE FALSE
    OBVIOUS
  <2>2. Wrong \subseteq D /\ Wrong \subseteq Nat
    BY <1>1 DEF Wrong, D
  <2>3. PICK n \in Wrong : \A m \in Wrong : n <= m
    BY <2>1, <2>2, LeastExists
  <2>4. CASE n = 0
    <3>1. upTo[n] = <<>>
      BY <1>14, <2>2, <2>4 DEF One
    <3>2. ToSet(<<>>) = {} /\ Among(0) = {}
      BY DEF ToSet
    <3>3. QED
      BY <1>10, <2>2, <2>3, <2>4, <3>1, <3>2 DEF Wrong
  <2>5. CASE n # 0
    <3>1. n - 1 \in D /\ n \in 1..Len(seq) /\ n \in Nat
      BY <1>1, <2>2, <2>5 DEF D
    <3>2. n - 1 \notin Wrong
      BY <2>2, <2>3, <3>1
    <3> DEFINE s == upTo[n - 1]
    <3>3. s \in V /\ ToSet(s) = Among(n - 1)
      BY <3>1, <3>2 DEF Wrong
    <3> HIDE DEF s
    <3>4. upTo[n] = IF seq[n] \in ToSet(s) THEN s ELSE Append(s, seq[n])
      BY <1>14, <2>2, <2>5 DEF One, s
    <3>5. Among(n) = Among(n - 1) \cup {seq[n]}
      <4>1. 1..n = 1..(n - 1) \cup {n}
        BY <3>1
      <4>2. QED
        BY <4>1
    <3>6. CASE seq[n] \in ToSet(s)
      BY <2>2, <2>3, <3>3, <3>4, <3>5, <3>6 DEF Wrong
    <3>7. CASE seq[n] \notin ToSet(s)
      <4>1. seq[n] \in S /\ s \in Seq(S)
        BY <1>1, <3>1, <3>3 DEF V
      <4>2. Append(s, seq[n]) \in V
        BY <4>1, AppendProperties DEF V
      <4>3. ToSet(Append(s, seq[n])) = ToSet(s) \cup {seq[n]}
        BY <4>1, AppendToSet
      <4>4. QED
        BY <2>2, <2>3, <3>3, <3>4, <3>5, <3>7, <4>2, <4>3 DEF Wrong
    <3>8. QED
      BY <3>6, <3>7
  <2>6. QED
    BY <2>4, <2>5
<1>17. Good(Len(seq), upTo[Len(seq)])
  <2>1. Len(seq) \in D
    BY <1>1 DEF D
  <2> HIDE DEF Good
  <2>2. QED
    BY <1>16, <2>1
<1>18. Among(Len(seq)) = ToSet(seq)
  BY <1>1 DEF ToSet
<1>19. QED
  BY <1>15, <1>17, <1>18 DEF V

-----------------------------------------------------------------------------
(***************************************************************************)
(* The sets that the reduction computes.                                   *)
(***************************************************************************)
LEMMA DomainShape ==
    ASSUME NEW x \in Axes
    PROVE  Domain[x] # {} /\ Domain[x] \subseteq Values
BY VocabularyAssumption

LEMMA AssignmentShape ==
    ASSUME NEW a \in Assignments, NEW x \in Axes
    PROVE  a \in [Axes -> Values] /\ a[x] \in Domain[x] /\ a[x] \in Values
BY DEF Assignments

LEMMA ProjectionShape ==
    /\ Satisfying \subseteq Assignments
    /\ Projection \in [Axes -> SUBSET Values]
    /\ \A x \in Axes : Projection[x] \subseteq Domain[x]
    /\ \A x \in Axes : Projection[x] = {a[x] : a \in Satisfying}
    /\ ~ Impossible => \A x \in Axes : Projection[x] # {}
<1>1. Satisfying \subseteq Assignments
  BY DEF Satisfying
<1>2. \A x \in Axes : {a[x] : a \in Satisfying} \subseteq Domain[x]
  BY <1>1, AssignmentShape
<1>3. \A x \in Axes : {a[x] : a \in Satisfying} \subseteq Values
  BY <1>2, DomainShape
<1>4. \A x \in Axes : Projection[x] = {a[x] : a \in Satisfying}
  BY DEF Projection
<1>5. Projection \in [Axes -> SUBSET Values]
  BY <1>3 DEF Projection
<1>6. ASSUME ~ Impossible, NEW x \in Axes PROVE Projection[x] # {}
  <2>1. PICK a \in Satisfying : TRUE
    BY <1>6 DEF Impossible
  <2>2. a[x] \in Projection[x]
    BY <1>4
  <2>3. QED
    BY <2>2
<1>7. QED
  BY <1>1, <1>2, <1>4, <1>5, <1>6

LEMMA UnrestrictedShape ==
    /\ Unrestricted.never = FALSE /\ Unrestricted.allowed = Domain /\ Unrestricted.roles = {}
    /\ Unrestricted \in [never : BOOLEAN, allowed : [Axes -> (SUBSET Values) \ {{}}], roles : SUBSET Roles]
BY VocabularyAssumption DEF Unrestricted

LEMMA RuleShape ==
    ASSUME rule \in XccdfRules
    PROVE  /\ rule.own \in Seq(References) /\ ToSet(rule.own) \subseteq References
           /\ Len(rule.groups) \in Nat /\ DOMAIN rule.groups = 1..Len(rule.groups)
           /\ \A i \in 1..Len(rule.groups) : rule.groups[i] \in Seq(References)
           /\ \A ref \in References : IsRef(ref)
           /\ References = ToSet(rule.own) \cup Entered(Len(rule.groups))
<1> DEFINE gs == rule.groups
<1>1. gs \in Seq(ToSet(gs))
  BY RulesAssumption
<1>2. \A s \in {rule.own} \cup ToSet(gs) : s \in Seq(ToSet(s)) /\ \A i \in DOMAIN s : IsRef(s[i])
  BY RulesAssumption
<1>3. Len(gs) \in Nat /\ DOMAIN gs = 1..Len(gs)
  BY <1>1, ToSetOf
<1>4. \A i \in 1..Len(gs) : gs[i] \in ToSet(gs)
  BY <1>3 DEF ToSet
<1> HIDE DEF gs
<1>5. References = ToSet(rule.own) \cup Entered(Len(gs))
  BY <1>3 DEF References, Entered, gs
<1>6. \A i \in 1..Len(gs) : ToSet(gs[i]) \subseteq References
  BY <1>3 DEF References, gs
<1>7. \A s : s \in Seq(ToSet(s)) /\ ToSet(s) \subseteq References => s \in Seq(References)
  <2>1. SUFFICES ASSUME NEW s, s \in Seq(ToSet(s)), ToSet(s) \subseteq References
                 PROVE  s \in Seq(References)
    OBVIOUS
  <2> DEFINE T == ToSet(s)
  <2>2. s \in Seq(T) /\ T \subseteq References
    BY <2>1
  <2> HIDE DEF T
  <2>3. QED
    BY <2>2
<1>8. \A s : (\A i \in DOMAIN s : IsRef(s[i])) => \A ref \in ToSet(s) : IsRef(ref)
  BY DEF ToSet
<1>9. ASSUME NEW ref \in References PROVE IsRef(ref)
  <2>1. CASE ref \in ToSet(rule.own)
    BY <1>2, <1>8, <2>1
  <2>2. CASE ref \in Entered(Len(gs))
    <3>1. PICK i \in 1..Len(gs) : ref \in ToSet(gs[i])
      BY <2>2 DEF Entered, gs
    <3>2. QED
      BY <1>2, <1>4, <1>8, <3>1
  <2>3. QED
    BY <1>5, <2>1, <2>2
<1>10. rule.own \in Seq(References) /\ ToSet(rule.own) \subseteq References
  BY <1>2, <1>5, <1>7
<1>11. \A i \in 1..Len(gs) : gs[i] \in Seq(References)
  BY <1>2, <1>4, <1>6, <1>7
<1>12. QED
  BY <1>3, <1>5, <1>9, <1>10, <1>11 DEF gs

LEMMA EnteredNext ==
    ASSUME NEW n \in Nat
    PROVE  Entered(n + 1) = Entered(n) \cup ToSet(rule.groups[n + 1])
<1>1. 1..(n + 1) = 1..n \cup {n + 1}
  OBVIOUS
<1>2. QED
  BY <1>1 DEF Entered

LEMMA ExpressionsNext ==
    ASSUME NEW n \in Nat
    PROVE  Expressions(n + 1) = IF refs[n + 1].kind = "platform"
                                THEN Expressions(n) \cup {refs[n + 1].expr} ELSE Expressions(n)
<1>1. 1..(n + 1) = 1..n \cup {n + 1}
  OBVIOUS
<1>2. QED
  BY <1>1 DEF Expressions

LEMMA RolesOfNext ==
    ASSUME NEW n \in Nat
    PROVE  RolesOf(n + 1) = RolesOf(n) \cup {RoleFacts[f] : f \in RoleNames(exprs[n + 1])}
<1>1. 1..(n + 1) = 1..n \cup {n + 1}
  OBVIOUS
<1>2. QED
  BY <1>1 DEF RolesOf

\* After every reference, the expressions are upstream's.
LEMMA AllExpressions ==
    ASSUME refs \in Seq(References), ToSet(refs) = References
    PROVE  Expressions(Len(refs)) = Upstream
<1>1. References = {refs[i] : i \in 1..Len(refs)}
  BY ToSetOf
<1>2. QED
  BY <1>1 DEF Expressions, Upstream

LEMMA RoleSetsType ==
    ASSUME NEW expr
    PROVE  {RoleFacts[f] : f \in RoleNames(expr)} \subseteq SUBSET Roles
BY VocabularyAssumption DEF RoleNames

-----------------------------------------------------------------------------
(***************************************************************************)
(* The steps.                                                              *)
(***************************************************************************)
\* build_map and walk start with the rule.
LEMMA InitKeeps == Init => IInv
<1>1. SUFFICES ASSUME Init PROVE IInv
  OBVIOUS
<1> USE <1>1 DEF Init
<1>2. <<>> \in Seq(References) /\ <<>> \in Seq(Upstream) /\ Len(<<>>) = 0 /\ ToSet(<<>>) = {}
  BY EmptySeq DEF ToSet
<1>3. Entered(0) = {}
  BY DEF Entered
<1>4. TypeOK
  <2>1. Len(rule.groups) \in Nat
    BY RuleShape
  <2>2. QED
    BY <1>2, <2>1, UnrestrictedShape, DomainShape DEF TypeOK
<1>5. RefsInv
  <2>1. next - 1 = 0
    OBVIOUS
  <2>2. QED
    BY <1>2, <1>3, <2>1 DEF RefsInv
<1>6. ExprsInv
  BY <1>2 DEF ExprsInv
<1>7. ReducedInv /\ RolesInv
  BY DEF ReducedInv, RolesInv
<1>8. QED
  BY <1>4, <1>5, <1>6, <1>7 DEF IInv

\* A step that leaves the rule alone leaves alone what it is attached to.
LEMMA RuleFrame ==
    ASSUME UNCHANGED rule
    PROVE  /\ References' = References /\ Upstream' = Upstream
           /\ \A n : Entered(n)' = Entered(n)
BY DEF References, Upstream, Entered

LEMMA ExprsFrame ==
    ASSUME UNCHANGED exprs
    PROVE  /\ Satisfying' = Satisfying /\ Impossible' = Impossible /\ Projection' = Projection
           /\ Product' = Product /\ MeetsUnknown' = MeetsUnknown
           /\ \A n : RolesOf(n)' = RolesOf(n)
<1>1. Satisfying' = Satisfying
  BY DEF Satisfying
<1>2. Projection' = Projection
  BY <1>1 DEF Projection
<1>3. Product' = Product
  BY <1>2 DEF Product
<1>4. MeetsUnknown' = MeetsUnknown
  BY DEF MeetsUnknown
<1>5. \A n : RolesOf(n)' = RolesOf(n)
  BY DEF RolesOf
<1>6. QED
  BY <1>1, <1>2, <1>3, <1>4, <1>5 DEF Impossible

LEMMA RefsFrame ==
    ASSUME UNCHANGED refs
    PROVE  \A n : Expressions(n)' = Expressions(n)
BY DEF Expressions

LEMMA EnterGroupKeeps == ASSUME IInv, EnterGroup PROVE IInv'
<1> USE DEF IInv
<1>1. /\ pc = "walk" /\ pc' = "walk" /\ next <= Len(rule.groups) /\ next' = next + 1
      /\ inherited' = inherited \o rule.groups[next]
      /\ UNCHANGED <<rule, refs, exprs, roles, app>>
  BY DEF EnterGroup, FromGroup
<1>2. rule \in XccdfRules /\ next \in 1..(Len(rule.groups) + 1) /\ Len(rule.groups) \in Nat
  BY <1>1, RuleShape DEF TypeOK, RefsInv
<1>3. next \in Nat /\ next - 1 \in Nat /\ (next - 1) + 1 = next /\ next \in 1..Len(rule.groups)
      /\ next' \in 1..(Len(rule.groups) + 1) /\ next' - 1 = next
  BY <1>1, <1>2
<1>4. References' = References /\ Upstream' = Upstream /\ \A n : Entered(n)' = Entered(n)
  BY <1>1, RuleFrame
<1>5. rule.groups[next] \in Seq(References)
  BY <1>2, <1>3, RuleShape
<1>6. /\ inherited' \in Seq(References)
      /\ ToSet(inherited') = ToSet(inherited) \cup ToSet(rule.groups[next])
  BY <1>1, <1>5, ConcatToSet DEF RefsInv
<1>7. ToSet(inherited') = Entered(next)
  BY <1>1, <1>3, <1>6, EnteredNext DEF RefsInv
<1>8. TypeOK'
  BY <1>1, <1>3, <1>4 DEF TypeOK
<1>9. RefsInv'
  <2>1. Entered(next - 1)' = Entered(next)
    BY <1>1, <1>3 DEF Entered
  <2>2. QED
    BY <1>1, <1>4, <1>6, <1>7, <2>1 DEF RefsInv
<1>10. ExprsInv'
  BY <1>1, <1>4 DEF ExprsInv
<1>11. ReducedInv'
  BY <1>1 DEF ReducedInv, Unrestricted
<1>12. RolesInv'
  BY <1>1 DEF RolesInv
<1>13. QED
  BY <1>8, <1>9, <1>10, <1>11, <1>12

LEMMA ReadRuleKeeps == ASSUME IInv, ReadRule PROVE IInv'
<1> USE DEF IInv
<1>1. /\ pc = "walk" /\ pc' = "collect" /\ next > Len(rule.groups) /\ next' = 1
      /\ refs' = FirstOccurrences(rule.own \o inherited)
      /\ UNCHANGED <<rule, inherited, exprs, roles, app>>
  BY DEF ReadRule
<1>2. /\ rule \in XccdfRules /\ next \in 1..(Len(rule.groups) + 1) /\ Len(rule.groups) \in Nat
      /\ rule.own \in Seq(References)
      /\ References = ToSet(rule.own) \cup Entered(Len(rule.groups))
  BY <1>1, RuleShape DEF TypeOK, RefsInv
<1>3. next - 1 = Len(rule.groups)
  BY <1>1, <1>2
<1>4. /\ References' = References /\ Upstream' = Upstream
  BY <1>1, RuleFrame
<1>5. rule.own \o inherited \in Seq(References) /\ ToSet(rule.own \o inherited) = References
  BY <1>1, <1>2, <1>3, ConcatToSet DEF RefsInv
<1>6. refs' \in Seq(References) /\ ToSet(refs') = References
  BY <1>1, <1>5, FirstOccurrencesKeeps
<1>7. Len(refs') \in Nat
  BY <1>6
<1>8. exprs = <<>> /\ Len(exprs) = 0 /\ ToSet(exprs) = {} /\ DOMAIN exprs = {}
  BY <1>1, EmptySeq DEF ExprsInv, ToSet
<1>9. TypeOK'
  BY <1>1, <1>4, <1>6, <1>7, <1>8 DEF TypeOK
<1>10. RefsInv'
  BY <1>1, <1>4, <1>6 DEF RefsInv
<1>11. ExprsInv'
  <2>1. Expressions(next - 1)' = {}
    BY <1>1 DEF Expressions
  <2>2. exprs' \in Seq(Upstream') /\ Len(exprs') < next' /\ ToSet(exprs') = {}
    BY <1>1, <1>4, <1>8, EmptySeq
  <2>3. QED
    BY <1>1, <2>1, <2>2 DEF ExprsInv
<1>12. ReducedInv'
  BY <1>1 DEF ReducedInv, Unrestricted
<1>13. RolesInv'
  BY <1>1 DEF RolesInv
<1>14. QED
  BY <1>9, <1>10, <1>11, <1>12, <1>13

\* An error leaves everything as it was.
LEMMA RaiseKeeps ==
    ASSUME IInv, NEW e, Raise(e), pc # "walk",
           \/ e = "unsupported"
           \/ e = "nonSeparable" /\ pc = "reduce" /\ ~ Impossible /\ Satisfying # Product
    PROVE  IInv'
<1> USE DEF IInv
<1>1. pc' = e /\ UNCHANGED <<rule, inherited, refs, next, exprs, roles, app>>
      /\ e \in {"unsupported", "nonSeparable"}
  BY DEF Raise, parsed
<1>2. References' = References /\ Upstream' = Upstream
  BY <1>1, RuleFrame
<1>3. TypeOK'
  BY <1>1, <1>2 DEF TypeOK
<1>4. RefsInv'
  BY <1>1, <1>2 DEF RefsInv
<1>5. ExprsInv'
  BY <1>1, <1>2 DEF ExprsInv
<1>6. ReducedInv'
  BY <1>1, ExprsFrame DEF ReducedInv
<1>7. RolesInv'
  BY <1>1 DEF RolesInv
<1>8. QED
  BY <1>3, <1>4, <1>5, <1>6, <1>7

LEMMA CollectRefKeeps == ASSUME IInv, CollectRef PROVE IInv'
<1> USE DEF IInv
<1>1. pc = "collect" /\ next <= Len(refs)
  BY DEF CollectRef
<1>2. CASE Raise("unsupported")
  BY <1>1, <1>2, RaiseKeeps
<1>3. CASE /\ refs[next].kind \in {"product", "platform"}
           /\ exprs' = IF refs[next].kind = "platform" THEN Append(exprs, refs[next].expr) ELSE exprs
           /\ next' = next + 1
           /\ UNCHANGED <<parsed, pc, roles, app>>
  <2>1. UNCHANGED <<rule, inherited, refs, pc, roles, app>>
    BY <1>3 DEF parsed
  <2>2. /\ References' = References /\ Upstream' = Upstream /\ \A n : Expressions(n)' = Expressions(n)
    BY <2>1, RuleFrame, RefsFrame
  <2>3. refs \in Seq(References) /\ ToSet(refs) = References /\ Len(refs) \in Nat /\ DOMAIN refs = 1..Len(refs)
    BY <1>1, ToSetOf DEF RefsInv
  <2>4. next \in 1..(Len(refs) + 1)
    BY <1>1 DEF TypeOK
  <2>5. /\ next \in Nat /\ next - 1 \in Nat /\ (next - 1) + 1 = next /\ next' - 1 = next
        /\ next \in DOMAIN refs /\ next' \in 1..(Len(refs) + 1)
    BY <1>1, <1>3, <2>3, <2>4
  <2>6. exprs \in Seq(Upstream) /\ Len(exprs) < next /\ ToSet(exprs) = Expressions(next - 1)
        /\ Len(exprs) \in Nat /\ DOMAIN exprs = 1..Len(exprs)
    BY <1>1, ToSetOf DEF ExprsInv
  <2>7. refs[next] \in References
    BY <2>3, <2>5
  <2>8. Expressions(next) = IF refs[next].kind = "platform" THEN Expressions(next - 1) \cup {refs[next].expr}
                            ELSE Expressions(next - 1)
    BY <2>5, ExpressionsNext
  <2>9. /\ exprs' \in Seq(Upstream) /\ Len(exprs') < next' /\ ToSet(exprs') = Expressions(next)
        /\ \A i \in DOMAIN exprs' : \E j \in DOMAIN refs :
               refs[j].kind = "platform" /\ refs[j].expr = exprs'[i]
    <3> DEFINE e == refs[next].expr
    <3>0. \A i \in DOMAIN exprs : \E j \in DOMAIN refs :
               refs[j].kind = "platform" /\ refs[j].expr = exprs[i]
      BY DEF TypeOK
    <3>1. CASE refs[next].kind = "platform"
      <4>1. e \in Upstream
        BY <2>7, <3>1 DEF Upstream
      <4>2. exprs' = Append(exprs, e)
        BY <1>3, <3>1
      <4> HIDE DEF e
      <4>3. /\ exprs' \in Seq(Upstream) /\ Len(exprs') = Len(exprs) + 1
            /\ \A i \in 1..Len(exprs) : exprs'[i] = exprs[i]
            /\ exprs'[Len(exprs) + 1] = e
        BY <2>6, <4>1, <4>2, AppendProperties
      <4>4. ToSet(exprs') = ToSet(exprs) \cup {e}
        BY <2>6, <4>1, <4>2, AppendToSet
      <4>5. DOMAIN exprs' = 1..(Len(exprs) + 1)
        BY <4>3, ToSetOf
      <4>6. ASSUME NEW i \in DOMAIN exprs'
            PROVE  \E j \in DOMAIN refs : refs[j].kind = "platform" /\ refs[j].expr = exprs'[i]
        <5>1. CASE i = Len(exprs) + 1
          BY <2>5, <3>1, <4>3, <5>1 DEF e
        <5>2. CASE i # Len(exprs) + 1
          <6>1. i \in 1..Len(exprs) /\ exprs'[i] = exprs[i] /\ i \in DOMAIN exprs
            BY <2>6, <4>3, <4>5, <5>2
          <6>2. QED
            BY <3>0, <6>1
        <5>3. QED
          BY <5>1, <5>2
      <4>7. Len(exprs') < next'
        BY <1>3, <2>5, <2>6, <4>3
      <4>8. QED
        BY <2>6, <2>8, <3>1, <4>3, <4>4, <4>6, <4>7 DEF e
    <3>2. CASE refs[next].kind # "platform"
      <4>1. exprs' = exprs /\ Len(exprs) < next'
        BY <1>3, <2>5, <2>6, <3>2
      <4>2. QED
        BY <2>6, <2>8, <3>0, <3>2, <4>1
    <3>3. QED
      BY <3>1, <3>2
  <2>10. TypeOK'
    BY <1>1, <2>1, <2>2, <2>5, <2>9 DEF TypeOK
  <2>11. RefsInv'
    BY <1>1, <2>1, <2>2 DEF RefsInv
  <2>12. ExprsInv'
    <3>1. Expressions(next - 1)' = Expressions(next)
      BY <2>1, <2>5 DEF Expressions
    <3>2. QED
      BY <1>1, <2>1, <2>2, <2>9, <3>1 DEF ExprsInv
  <2>13. ReducedInv'
    BY <1>1, <2>1 DEF ReducedInv, Unrestricted
  <2>14. RolesInv'
    BY <1>1, <2>1 DEF RolesInv
  <2>15. QED
    BY <2>10, <2>11, <2>12, <2>13, <2>14
<1>4. QED
  BY <1>2, <1>3 DEF CollectRef

LEMMA CollectedKeeps == ASSUME IInv, Collected PROVE IInv'
<1> USE DEF IInv
<1>1. /\ pc = "collect" /\ next > Len(refs) /\ next' = 1
      /\ pc' = IF exprs = <<>> THEN "done" ELSE "reduce"
      /\ UNCHANGED <<rule, inherited, refs, exprs, roles, app>>
  BY DEF Collected, parsed
<1>2. References' = References /\ Upstream' = Upstream
  BY <1>1, RuleFrame
<1>3. refs \in Seq(References) /\ ToSet(refs) = References /\ Len(refs) \in Nat
  BY <1>1 DEF RefsInv
<1>4. next \in 1..(Len(refs) + 1) /\ exprs \in Seq(Upstream) /\ Len(exprs) \in Nat /\ Len(exprs) < next
  BY <1>1 DEF TypeOK, ExprsInv
<1>5. next - 1 = Len(refs) /\ Len(exprs) <= Len(refs) /\ next' \in 1..(Len(refs) + 1)
  BY <1>1, <1>3, <1>4
<1>6. ToSet(exprs) = Upstream
  BY <1>1, <1>3, <1>5, AllExpressions DEF ExprsInv
<1>7. pc' \in {"done", "reduce"} /\ (pc' = "done" => exprs' = <<>>)
  BY <1>1
<1>8. TypeOK'
  BY <1>1, <1>2, <1>5, <1>7 DEF TypeOK
<1>9. RefsInv'
  BY <1>1, <1>2, <1>7 DEF RefsInv
<1>10. ExprsInv'
  BY <1>1, <1>2, <1>5, <1>6, <1>7 DEF ExprsInv
<1>11. ReducedInv'
  BY <1>1, <1>7 DEF ReducedInv, Unrestricted
<1>12. RolesInv'
  BY <1>1, <1>7 DEF RolesInv
<1>13. QED
  BY <1>8, <1>9, <1>10, <1>11, <1>12

LEMMA ReduceKeeps == ASSUME IInv, Reduce PROVE IInv'
<1> USE DEF IInv
<1>1. pc = "reduce"
  BY DEF Reduce
<1>2. CASE MeetsUnknown /\ Raise("unsupported")
  BY <1>1, <1>2, RaiseKeeps
<1>3. CASE ~ MeetsUnknown /\ ~ Impossible /\ Satisfying # Product /\ Raise("nonSeparable")
  BY <1>1, <1>3, RaiseKeeps
<1>4. CASE /\ ~ MeetsUnknown
           /\ Impossible \/ Satisfying = Product
           /\ app' = IF Impossible THEN Never ELSE [Unrestricted EXCEPT !.allowed = Projection]
           /\ pc' = "roles"
           /\ UNCHANGED <<parsed, next, exprs, roles>>
  <2>1. UNCHANGED <<rule, inherited, refs, next, exprs, roles>> /\ pc' = "roles"
    BY <1>4 DEF parsed
  <2>2. References' = References /\ Upstream' = Upstream
    BY <2>1, RuleFrame
  <2>3. next = 1 /\ Len(refs) \in Nat /\ exprs \in Seq(Upstream) /\ Len(exprs) \in Nat
    BY <1>1 DEF ReducedInv, ExprsInv, RefsInv
  <2> DEFINE Shape == /\ app' \in [never : BOOLEAN, allowed : [Axes -> (SUBSET Values) \ {{}}], roles : SUBSET Roles]
                      /\ \A x \in Axes : app'.allowed[x] \subseteq Domain[x]
                      /\ app'.roles = {}
  <2>4. Impossible => app'.never = TRUE /\ Shape
    <3>1. SUFFICES ASSUME Impossible PROVE app'.never = TRUE /\ Shape
      OBVIOUS
    <3>2. app' = Never
      BY <1>4, <3>1
    <3>3. app'.never = TRUE /\ app'.allowed = Domain /\ app'.roles = {}
          /\ app' \in [never : BOOLEAN, allowed : [Axes -> (SUBSET Values) \ {{}}], roles : SUBSET Roles]
      BY <3>2, VocabularyAssumption DEF Never, Unrestricted
    <3>4. QED
      BY <3>3
  <2>5. ~ Impossible => app'.never = FALSE /\ app'.allowed = Projection /\ Satisfying = Product /\ Shape
    <3>1. SUFFICES ASSUME ~ Impossible
                   PROVE  app'.never = FALSE /\ app'.allowed = Projection /\ Satisfying = Product /\ Shape
      OBVIOUS
    <3>2. app' = [Unrestricted EXCEPT !.allowed = Projection] /\ Satisfying = Product
      BY <1>4, <3>1
    <3>3. Projection \in [Axes -> (SUBSET Values) \ {{}}]
      BY <3>1, ProjectionShape
    <3>4. app'.never = FALSE /\ app'.allowed = Projection /\ app'.roles = {}
          /\ app' \in [never : BOOLEAN, allowed : [Axes -> (SUBSET Values) \ {{}}], roles : SUBSET Roles]
      BY <3>2, <3>3 DEF Unrestricted
    <3>5. QED
      BY <3>2, <3>4, ProjectionShape
  <2> HIDE DEF Shape
  <2>6. Shape /\ (app'.never <=> Impossible)
    BY <2>4, <2>5
  <2>7. TypeOK'
    BY <1>1, <2>1, <2>2, <2>3, <2>6 DEF TypeOK, Shape
  <2>8. RefsInv'
    BY <1>1, <2>1, <2>2 DEF RefsInv
  <2>9. ExprsInv'
    BY <1>1, <2>1, <2>2 DEF ExprsInv
  <2>10. ReducedInv'
    <3>1. exprs # <<>>
      BY <1>1 DEF ReducedInv
    <3>2. app'.roles = {}
      BY <2>6 DEF Shape
    <3>3. /\ Satisfying' = Satisfying /\ Projection' = Projection /\ Product' = Product
          /\ (Impossible' <=> Impossible) /\ (MeetsUnknown' <=> MeetsUnknown)
      BY <2>1, ExprsFrame
    <3>4. QED
      BY <1>4, <2>1, <2>5, <2>6, <3>1, <3>2, <3>3 DEF ReducedInv
  <2>11. RolesInv'
    <3>1. 1..(next' - 1) = {} /\ next' <= Len(exprs') + 1
      BY <2>1, <2>3
    <3>3. RolesOf(next - 1)' = {}
      BY <3>1 DEF RolesOf
    <3>2. QED
      BY <1>1, <2>1, <3>1, <3>3 DEF RolesInv
  <2>12. QED
    BY <2>7, <2>8, <2>9, <2>10, <2>11
<1>5. QED
  BY <1>2, <1>3, <1>4 DEF Reduce

LEMMA ReadRolesKeeps == ASSUME IInv, ReadRoles PROVE IInv'
<1> USE DEF IInv
<1>1. pc = "roles" /\ next <= Len(exprs)
  BY DEF ReadRoles
<1>2. CASE Unreadable(exprs[next]) /\ Raise("unsupported")
  BY <1>1, <1>2, RaiseKeeps
<1>3. CASE /\ ~ Unreadable(exprs[next])
           /\ roles' = roles \cup {RoleFacts[f] : f \in RoleNames(exprs[next])}
           /\ next' = next + 1
           /\ UNCHANGED <<parsed, pc, exprs, app>>
  <2>1. UNCHANGED <<rule, inherited, refs, pc, exprs, app>>
    BY <1>3 DEF parsed
  <2>2. References' = References /\ Upstream' = Upstream
    BY <2>1, RuleFrame
  <2>3. next \in 1..(Len(refs) + 1)
    BY <1>1 DEF TypeOK
  <2>4. /\ exprs # <<>> /\ exprs \in Seq(Upstream) /\ Len(exprs) <= Len(refs)
        /\ Len(refs) \in Nat /\ Len(exprs) \in Nat
    BY <1>1 DEF ExprsInv, RefsInv, ReducedInv
  <2>5. /\ next \in Nat /\ next - 1 \in Nat /\ (next - 1) + 1 = next /\ next' - 1 = next
        /\ next' \in 1..(Len(refs) + 1) /\ next' <= Len(exprs) + 1
    BY <1>1, <1>3, <2>3, <2>4
  <2>6. /\ \A j \in 1..(next - 1) : ~ Unreadable(exprs[j])
        /\ roles = RolesOf(next - 1)
    BY <1>1, <2>4 DEF RolesInv
  <2>7. roles' = RolesOf(next)
    <3>1. RolesOf(next) = RolesOf(next - 1) \cup {RoleFacts[f] : f \in RoleNames(exprs[next])}
      BY <2>5, RolesOfNext
    <3>2. QED
      BY <1>3, <2>6, <3>1
  <2>8. roles' \in SUBSET (SUBSET Roles)
    BY <1>3, RoleSetsType DEF TypeOK
  <2>9. \A j \in 1..next : ~ Unreadable(exprs[j])
    <3>1. \A j \in 1..next : j = next \/ j \in 1..(next - 1)
      BY <2>5
    <3>2. QED
      BY <1>3, <2>6, <3>1
  <2>10. TypeOK'
    BY <1>1, <2>1, <2>2, <2>5, <2>8 DEF TypeOK
  <2>11. RefsInv'
    BY <1>1, <2>1, <2>2 DEF RefsInv
  <2>12. ExprsInv'
    BY <1>1, <2>1, <2>2 DEF ExprsInv
  <2>13. ReducedInv'
    <3>1. /\ Satisfying' = Satisfying /\ Projection' = Projection /\ Product' = Product
          /\ (Impossible' <=> Impossible) /\ (MeetsUnknown' <=> MeetsUnknown)
      BY <2>1, ExprsFrame
    <3>2. QED
      BY <1>1, <2>1, <2>4, <3>1 DEF ReducedInv
  <2>14. RolesInv'
    <3>1. RolesOf(next - 1)' = RolesOf(next)
      BY <2>1, <2>5 DEF RolesOf
    <3>2. \A j \in 1..(next' - 1) : ~ Unreadable(exprs[j])'
      BY <2>1, <2>5, <2>9 DEF Unreadable
    <3>3. QED
      BY <1>1, <2>1, <2>5, <2>7, <3>1, <3>2 DEF RolesInv
  <2>15. QED
    BY <2>10, <2>11, <2>12, <2>13, <2>14
<1>4. QED
  BY <1>2, <1>3 DEF ReadRoles

LEMMA SetRolesKeeps == ASSUME IInv, SetRoles PROVE IInv'
<1> USE DEF IInv
<1> DEFINE common == {r \in UNION roles : \A R \in roles : r \in R}
<1>1. /\ pc = "roles" /\ next > Len(exprs) /\ pc' = "done" /\ app' = [app EXCEPT !.roles = common]
      /\ UNCHANGED <<rule, inherited, refs, next, exprs, roles>>
  BY DEF SetRoles, parsed
<1>2. References' = References /\ Upstream' = Upstream
  BY <1>1, RuleFrame
<1>3. common \subseteq Roles
  BY DEF TypeOK
<1>4. app \in [never : BOOLEAN, allowed : [Axes -> (SUBSET Values) \ {{}}], roles : SUBSET Roles]
  BY DEF TypeOK
<1> HIDE DEF common
<1>5. /\ app' \in [never : BOOLEAN, allowed : [Axes -> (SUBSET Values) \ {{}}], roles : SUBSET Roles]
      /\ app'.never = app.never /\ app'.allowed = app.allowed /\ app'.roles = common
  BY <1>1, <1>3, <1>4
<1>6. exprs # <<>> /\ exprs \in Seq(Upstream) /\ Len(exprs) \in Nat
  BY <1>1 DEF ExprsInv, ReducedInv
<1>7. next \in 1..(Len(refs) + 1) /\ next \in Nat /\ next <= Len(exprs) + 1
  BY <1>1, <1>6 DEF TypeOK, RolesInv
<1>8. next = Len(exprs) + 1
  BY <1>1, <1>6, <1>7
<1>9. TypeOK'
  BY <1>1, <1>2, <1>5, <1>7 DEF TypeOK
<1>10. RefsInv'
  BY <1>1, <1>2 DEF RefsInv
<1>11. ExprsInv'
  BY <1>1, <1>2 DEF ExprsInv
<1>12. ReducedInv'
  <2>1. /\ Satisfying' = Satisfying /\ Projection' = Projection /\ Product' = Product
        /\ (Impossible' <=> Impossible) /\ (MeetsUnknown' <=> MeetsUnknown)
    BY <1>1, ExprsFrame
  <2>2. QED
    BY <1>1, <1>5, <1>6, <2>1 DEF ReducedInv
<1>13. RolesInv'
  <2>1. RolesOf(next - 1)' = RolesOf(next - 1)
    BY <1>1 DEF RolesOf
  <2>2. \A j \in 1..(next - 1) : Unreadable(exprs[j])' <=> Unreadable(exprs[j])
    BY <1>1 DEF Unreadable
  <2>3. /\ \A j \in 1..(next - 1) : ~ Unreadable(exprs[j])
        /\ roles = RolesOf(next - 1)
    BY <1>1, <1>6 DEF RolesInv
  <2>4. next' - 1 = next - 1
    BY <1>1
  <2>5. \A j \in 1..(next' - 1) : ~ Unreadable(exprs[j])'
    BY <2>2, <2>3, <2>4
  <2>6. app'.roles = {r \in UNION roles' : \A R \in roles' : r \in R}
    BY <1>1, <1>5 DEF common
  <2>7. QED
    BY <1>1, <1>6, <1>7, <1>8, <2>1, <2>3, <2>5, <2>6 DEF RolesInv
<1>14. QED
  BY <1>9, <1>10, <1>11, <1>12, <1>13

LEMMA NextKeeps == ASSUME IInv, [Next]_vars PROVE IInv'
<1>1. CASE UNCHANGED vars
  <2>1. UNCHANGED <<rule, inherited, refs, pc, next, exprs, roles, app>>
    BY <1>1 DEF vars, parsed
  <2> DEFINE Same == /\ References' = References /\ Upstream' = Upstream
                     /\ Satisfying' = Satisfying /\ Projection' = Projection /\ Product' = Product
                     /\ (Impossible' <=> Impossible) /\ (MeetsUnknown' <=> MeetsUnknown)
  <2>2. Same
    BY <2>1, RuleFrame, ExprsFrame
  <2> HIDE DEF Same
  <2>3. TypeOK'
    BY <2>1, <2>2 DEF IInv, TypeOK, Same
  <2>4. RefsInv'
    <3>1. Entered(next - 1)' = Entered(next - 1)
      BY <2>1 DEF Entered
    <3>2. QED
      BY <2>1, <2>2, <3>1 DEF IInv, RefsInv, Same
  <2>5. ExprsInv'
    <3>1. Expressions(next - 1)' = Expressions(next - 1)
      BY <2>1 DEF Expressions
    <3>2. QED
      BY <2>1, <2>2, <3>1 DEF IInv, ExprsInv, Same
  <2>6. ReducedInv'
    BY <2>1, <2>2 DEF IInv, ReducedInv, Same
  <2>7. RolesInv'
    <3>1. RolesOf(next - 1)' = RolesOf(next - 1)
      BY <2>1 DEF RolesOf
    <3>2. \A j : Unreadable(exprs[j])' <=> Unreadable(exprs[j])
      BY <2>1 DEF Unreadable
    <3>3. QED
      BY <2>1, <3>1, <3>2 DEF IInv, RolesInv
  <2>8. QED
    BY <2>3, <2>4, <2>5, <2>6, <2>7 DEF IInv
<1>2. CASE Next
  BY <1>2, EnterGroupKeeps, ReadRuleKeeps, CollectRefKeeps, CollectedKeeps, ReduceKeeps,
     ReadRolesKeeps, SetRolesKeeps DEF Next
<1>3. QED
  BY <1>1, <1>2

\* The inductive invariant of reading a rule and reducing its expressions.
THEOREM IInvCorrect == Spec => []IInv
<1>1. Init => IInv
  BY InitKeeps
<1>2. IInv /\ [Next]_vars => IInv'
  BY NextKeeps
<1>3. QED
  BY <1>1, <1>2, PTL DEF Spec

\* build_map stays within its shapes, and an axis never loses all its values
\* (applicability.py 211-258).
THEOREM TypeCorrect == Spec => []TypeOK
<1>1. IInv => TypeOK
  BY DEF IInv
<1>2. QED
  BY <1>1, IInvCorrect, PTL

-----------------------------------------------------------------------------
(***************************************************************************)
(* The refusals.                                                           *)
(***************************************************************************)
\* An expression is refused as coupling the axes only when no choice of values
\* per axis has its meaning: the product of the projections is the least one
\* that could (applicability.py 243-251).
THEOREM RefusalNecessaryCorrect == Spec => []RefusalNecessary
<1>1. IInv => RefusalNecessary
  <2>1. SUFFICES ASSUME IInv, pc = "nonSeparable", NEW allowed \in [Axes -> SUBSET Values],
                        Satisfying = {a \in Assignments : \A x \in Axes : a[x] \in allowed[x]}
                 PROVE  FALSE
    BY DEF RefusalNecessary
  <2>2. Satisfying # Product
    BY <2>1 DEF IInv, ReducedInv
  <2>3. Satisfying \subseteq Product
    BY ProjectionShape DEF Product
  <2>4. \A x \in Axes : Projection[x] \subseteq allowed[x]
    BY <2>1, ProjectionShape
  <2>5. Product \subseteq Satisfying
    BY <2>1, <2>4 DEF Product
  <2>6. QED
    BY <2>2, <2>3, <2>5
<1>2. QED
  BY <1>1, IInvCorrect, PTL

\* A rule with a leaf nobody has classified is never applied, although the
\* evaluation stops at the first false expression (applicability.py 19-22, 225).
THEOREM UnknownNeverAppliedCorrect == Spec => []UnknownNeverApplied
<1>1. IInv => UnknownNeverApplied
  <2>1. SUFFICES ASSUME IInv, Done, NEW expr \in Upstream, ~ (Facts(expr) \subseteq FACTS)
                 PROVE  app.never
    BY DEF UnknownNeverApplied
  <2>2. pc = "done" /\ exprs \in Seq(Upstream) /\ ToSet(exprs) = Upstream
    BY <2>1 DEF Done, IInv, ExprsInv
  <2>3. PICK i \in DOMAIN exprs : exprs[i] = expr
    BY <2>2 DEF ToSet
  <2>4. exprs # <<>> /\ i \in Nat /\ DOMAIN exprs = 1..Len(exprs) /\ Len(exprs) \in Nat
    BY <2>2, <2>3, ToSetOf, EmptySeq
  <2>5. ~ MeetsUnknown /\ (app.never <=> Impossible)
    BY <2>1, <2>2, <2>4 DEF IInv, ReducedInv
  <2>6. \A a \in Assignments : ~ \A j \in 1..(i - 1) : Evaluate(exprs[j], a)
    BY <2>1, <2>3, <2>5 DEF MeetsUnknown
  <2>7. \A j \in 1..(i - 1) : j \in DOMAIN exprs
    BY <2>3, <2>4
  <2>8. Impossible
    BY <2>6, <2>7 DEF Impossible, Satisfying
  <2>9. QED
    BY <2>5, <2>8
<1>2. QED
  BY <1>1, IInvCorrect, PTL

-----------------------------------------------------------------------------
(***************************************************************************)
(* What occurs in an expression.                                           *)
(***************************************************************************)
\* What holds for a node whenever it holds for the nodes below it holds for all.
LEMMA NodeInduction ==
    ASSUME NEW T,
           \A t \in Nodes : (IsTest(t) => \A i \in DOMAIN t.children : t.children[i] \in T) => t \in T
    PROVE  Nodes \subseteq T
<1> DEFINE h == [t \in Nodes |-> Height(t)]
           Bad == {t \in Nodes : t \notin T}
<1>1. h \in [Nodes -> Nat]
  BY NodeShape
<1>2. SUFFICES ASSUME Bad # {} PROVE FALSE
  OBVIOUS
<1>3. \A t \in Nodes : h[t] = Height(t)
  OBVIOUS
<1> HIDE DEF h, Bad
<1>4. Bad \subseteq Nodes
  BY DEF Bad
<1>5. PICK t \in Bad : \A s \in Bad : h[t] <= h[s]
  BY <1>1, <1>2, <1>4, LowestExists
<1>6. ASSUME IsTest(t), NEW i \in DOMAIN t.children PROVE t.children[i] \in T
  <2> DEFINE c == t.children[i]
  <2>1. c \in Nodes /\ Height(c) \in Nat /\ Height(t) \in Nat /\ Height(c) < Height(t)
    BY <1>4, <1>5, <1>6, ChildShape
  <2> HIDE DEF c
  <2>2. c \notin Bad
    BY <1>3, <1>4, <1>5, <2>1
  <2>3. QED
    BY <2>1, <2>2 DEF Bad, c
<1>7. QED
  BY <1>4, <1>5, <1>6 DEF Bad

LEMMA OccursLeaf ==
    ASSUME NEW t \in Nodes, ~ IsTest(t)
    PROVE  Occurrences[t] = {<< <<>>, t >>}
BY OccurrencesEquation DEF OccurrencesBelow

LEMMA OccursSelf ==
    ASSUME NEW t \in Nodes
    PROVE  << <<>>, t >> \in Occurrences[t]
BY OccurrencesEquation DEF OccurrencesBelow

LEMMA OccursBelow ==
    ASSUME NEW t \in Nodes, IsTest(t), NEW i \in DOMAIN t.children, NEW o \in Occurrences[t.children[i]]
    PROVE  << <<i>> \o o[1], o[2] >> \in Occurrences[t]
<1>1. << <<i>> \o o[1], o[2] >> \in Placed(i, Occurrences[t.children[i]])
  BY DEF Placed
<1>2. Occurrences[t] = {<< <<>>, t >>} \cup
          UNION {Placed(j, Occurrences[t.children[j]]) : j \in DOMAIN t.children}
  BY OccurrencesEquation DEF OccurrencesBelow
<1>3. QED
  BY <1>1, <1>2

LEMMA OccursIn ==
    ASSUME NEW t \in Nodes, IsTest(t), NEW o \in Occurrences[t], o[2] # t
    PROVE  \E i \in DOMAIN t.children : \E q \in Occurrences[t.children[i]] :
               o = << <<i>> \o q[1], q[2] >>
<1>1. Occurrences[t] = {<< <<>>, t >>} \cup
          UNION {Placed(j, Occurrences[t.children[j]]) : j \in DOMAIN t.children}
  BY OccurrencesEquation DEF OccurrencesBelow
<1>2. o # << <<>>, t >>
  OBVIOUS
<1>3. PICK i \in DOMAIN t.children : o \in Placed(i, Occurrences[t.children[i]])
  BY <1>1, <1>2
<1>4. QED
  BY <1>3 DEF Placed

LEMMA OccurrenceShape ==
    ASSUME NEW t \in Nodes, NEW o \in Occurrences[t]
    PROVE  o[1] \in Seq(Nat) /\ o[2] \in Nodes /\ o = <<o[1], o[2]>>
BY OccurrencesEquation

\* What a test contains, its children contain it or it is the test.
LEMMA ChildInherits ==
    ASSUME NEW t \in Nodes, IsTest(t), NEW i \in DOMAIN t.children
    PROVE  /\ ~ HasNegation(t) => ~ HasNegation(t.children[i]) /\ t.negate = FALSE
           /\ ~ ProductIsAlternative(t) => ~ ProductIsAlternative(t.children[i])
           /\ Facts(t.children[i]) \subseteq Facts(t)
           /\ \A o \in Referenced(t.children[i]) : << <<i>> \o o[1], o[2] >> \in Referenced(t)
           /\ HasProduct(t.children[i]) => HasProduct(t)
<1> DEFINE c == t.children[i]
           At(o) == << <<i>> \o o[1], o[2] >>
<1>1. \A o \in Occurrences[c] : At(o) \in Occurrences[t] /\ At(o)[2] = o[2]
  BY OccursBelow
<1>2. << <<>>, t >> \in Occurrences[t] /\ t.negate \in BOOLEAN
  BY OccursSelf, TestShape
<1> HIDE DEF c, At
<1>3. ~ HasNegation(t) => ~ HasNegation(c) /\ t.negate = FALSE
  <2>1. HasNegation(c) => HasNegation(t)
    BY <1>1 DEF HasNegation
  <2>2. t.negate => HasNegation(t)
    BY <1>2 DEF HasNegation
  <2>3. QED
    BY <1>2, <2>1, <2>2
<1>4. ProductIsAlternative(c) => ProductIsAlternative(t)
  BY <1>1 DEF ProductIsAlternative
<1>5. \A o \in Referenced(c) : At(o) \in Referenced(t) /\ At(o)[2] = o[2]
  BY <1>1 DEF Referenced
<1>6. Facts(c) \subseteq Facts(t)
  BY <1>5 DEF Facts
<1>7. HasProduct(c) => HasProduct(t)
  BY <1>1 DEF HasProduct
<1>8. QED
  BY <1>3, <1>4, <1>5, <1>6, <1>7 DEF c, At

\* Where products are no alternatives, a test with a product among its
\* children is a conjunction or has no other child.
LEMMA ProductChild ==
    ASSUME NEW t \in Nodes, IsTest(t), ~ ProductIsAlternative(t), t.operator # "AND",
           NEW i \in DOMAIN t.children, HasProduct(t.children[i])
    PROVE  DOMAIN t.children = {i}
<1>1. HasProduct(t)
  BY ChildInherits
<1>2. t.operator = "OR" /\ DOMAIN t.children = 1..Len(t.children) /\ Len(t.children) \in Nat \ {0}
  BY TestShape
<1>3. << <<>>, t >> \in Occurrences[t]
  BY OccursSelf
<1>4. ~ (Len(t.children) > 1)
  BY <1>1, <1>2, <1>3 DEF ProductIsAlternative
<1>5. QED
  BY <1>2, <1>4

\* The leaves of a tree are facts or products, and every tree has one.
LEMMA HasLeaf ==
    ASSUME NEW t \in Nodes
    PROVE  HasProduct(t) \/ Referenced(t) # {}
<1> DEFINE T == {s \in Nodes : HasProduct(s) \/ Referenced(s) # {}}
<1>1. ASSUME NEW s \in Nodes, IsTest(s) => \A i \in DOMAIN s.children : s.children[i] \in T
      PROVE  s \in T
  <2>1. CASE IsTest(s)
    <3>1. 1 \in DOMAIN s.children /\ s.children[1] \in T
      BY <1>1, <2>1, TestShape
    <3>2. QED
      BY <2>1, <3>1, ChildInherits
  <2>2. CASE ~ IsTest(s)
    <3>1. << <<>>, s >> \in Occurrences[s] /\ (IsFact(s) \/ IsProduct(s))
      BY <2>2, OccursSelf, NodeShape
    <3>2. QED
      BY <3>1 DEF HasProduct, Referenced
  <2>3. QED
    BY <2>1, <2>2
<1> HIDE DEF T
<1>2. Nodes \subseteq T
  BY <1>1, NodeInduction
<1>3. QED
  BY <1>2 DEF T

LEMMA FactOf ==
    ASSUME NEW t \in Nodes, IsFact(t)
    PROVE  Referenced(t) = {<< <<>>, t >>} /\ Facts(t) = {t.fact}
<1>1. ~ IsTest(t)
  BY NodeShape
<1>2. Referenced(t) = {<< <<>>, t >>}
  BY <1>1, OccursLeaf DEF Referenced
<1>3. QED
  BY <1>2 DEF Facts

-----------------------------------------------------------------------------
(***************************************************************************)
(* What an expression means, and what _evaluate makes of it.               *)
(***************************************************************************)
\* all() and any(), over the children and over the children that were kept.
Judged(t, c) == IF t.operator = "AND" THEN \A i \in DOMAIN t.children : c \in Meaning[t.children[i]]
                ELSE \E i \in DOMAIN t.children : c \in Meaning[t.children[i]]
Computed(t, a) == \/ Kept(t) = {}
                  \/ IF t.operator = "AND" THEN \A i \in Kept(t) : a \in Holding[t.children[i]]
                     ELSE \E i \in Kept(t) : a \in Holding[t.children[i]]

LEMMA MeaningOfTest ==
    ASSUME NEW t \in Nodes, IsTest(t), NEW c \in Clusters
    PROVE  c \in Meaning[t] <=> IF t.negate THEN ~ Judged(t, c) ELSE Judged(t, c)
<1> DEFINE meant == {i \in DOMAIN t.children : c \in Meaning[t.children[i]]}
<1>1. ~ IsProduct(t) /\ ~ IsFact(t)
  BY NodeShape
<1>2. Meaning[t] = MeansNode(t, Meaning)
  BY MeaningEquation
<1>3. c \in Meaning[t] <=> t.negate # Holds(t, DOMAIN t.children, meant)
  BY <1>1, <1>2 DEF MeansNode
<1>4. Holds(t, DOMAIN t.children, meant) <=> Judged(t, c)
  <2>1. (meant = DOMAIN t.children) <=> \A i \in DOMAIN t.children : c \in Meaning[t.children[i]]
    OBVIOUS
  <2>2. (meant # {}) <=> \E i \in DOMAIN t.children : c \in Meaning[t.children[i]]
    OBVIOUS
  <2> HIDE DEF meant
  <2>3. QED
    BY <2>1, <2>2 DEF Holds, Judged
<1> HIDE DEF meant
<1>5. t.negate \in BOOLEAN
  BY TestShape
<1>6. Holds(t, DOMAIN t.children, meant) \in BOOLEAN
  BY DEF Holds
<1>7. QED
  BY <1>3, <1>4, <1>5, <1>6

LEMMA HoldingOfTest ==
    ASSUME NEW t \in Nodes, IsTest(t), NEW a \in Assignments
    PROVE  a \in Holding[t] <=> IF t.negate THEN ~ Computed(t, a) ELSE Computed(t, a)
<1> DEFINE held == {i \in Kept(t) : a \in Holding[t.children[i]]}
<1>1. ~ IsFact(t) /\ t \in Parsed
  BY NodeShape DEF Parsed
<1>2. Holding[t] = EvaluateNode(t, Holding)
  BY <1>1, HoldingEquation
<1>3. a \in Holding[t] <=> Combine(t, Kept(t), held)
  BY <1>1, <1>2 DEF EvaluateNode
<1>4. (Kept(t) = {} \/ Holds(t, Kept(t), held)) <=> Computed(t, a)
  <2>1. (held = Kept(t)) <=> \A i \in Kept(t) : a \in Holding[t.children[i]]
    OBVIOUS
  <2>2. (held # {}) <=> \E i \in Kept(t) : a \in Holding[t.children[i]]
    OBVIOUS
  <2> HIDE DEF held
  <2>3. QED
    BY <2>1, <2>2 DEF Holds, Computed
<1> HIDE DEF held
<1>5. QED
  BY <1>3, <1>4 DEF Combine

LEMMA ProductMeans ==
    ASSUME NEW t \in Nodes, IsProduct(t), NEW c \in Clusters
    PROVE  c \in Meaning[t] /\ HasProduct(t)
<1>1. c \in Meaning[t]
  BY MeaningEquation DEF MeansNode
<1>2. << <<>>, t >> \in Occurrences[t]
  BY OccursSelf
<1>3. QED
  BY <1>1, <1>2 DEF HasProduct

LEMMA FactMeans ==
    ASSUME NEW t \in Nodes, IsFact(t), NEW a \in Assignments, NEW role \in Roles
    PROVE  /\ t.fact \in DOMAIN RoleFacts => (<<a, role>> \in Meaning[t] <=> role \in RoleFacts[t.fact])
           /\ t.fact \notin DOMAIN RoleFacts => (<<a, role>> \in Meaning[t] <=> FactHolds(t.fact, a))
           /\ a \in Holding[t] <=> FactHolds(t.fact, a)
<1>1. ~ IsProduct(t) /\ ~ IsTest(t) /\ t \in Parsed
  BY NodeShape DEF Parsed
<1>2. <<a, role>> \in Clusters /\ <<a, role>>[1] = a /\ <<a, role>>[2] = role
  BY DEF Clusters
<1>3. Meaning[t] = MeansNode(t, Meaning)
  BY MeaningEquation
<1>4. <<a, role>> \in Meaning[t] <=> (IF t.fact \in DOMAIN RoleFacts THEN role \in RoleFacts[t.fact]
                                    ELSE FactHolds(t.fact, a))
  BY <1>1, <1>2, <1>3 DEF MeansNode
<1>5. Holding[t] = EvaluateNode(t, Holding)
  BY <1>1, HoldingEquation
<1>6. a \in Holding[t] <=> FactHolds(t.fact, a)
  BY <1>5 DEF EvaluateNode
<1>7. QED
  BY <1>4, <1>6

\* An expression without role facts means what _evaluate computes, on the nodes
\* of every role.
LEMMA PlainMeaning ==
    ASSUME NEW t \in Parsed, Facts(t) \cap DOMAIN RoleFacts = {}, ~ ProductIsAlternative(t),
           NEW a \in Assignments, NEW role \in Roles
    PROVE  <<a, role>> \in Meaning[t] <=> a \in Holding[t]
<1> DEFINE c == <<a, role>>
           Claim(s) == Facts(s) \cap DOMAIN RoleFacts = {} /\ ~ ProductIsAlternative(s) /\ s \in Parsed
                           => (c \in Meaning[s] <=> a \in Holding[s])
           T == {s \in Nodes : Claim(s)}
<1>1. c \in Clusters
  BY DEF Clusters
<1>2. ASSUME NEW s \in Nodes, IsTest(s) => \A i \in DOMAIN s.children : s.children[i] \in T
      PROVE  s \in T
  <2>1. SUFFICES ASSUME Facts(s) \cap DOMAIN RoleFacts = {}, ~ ProductIsAlternative(s), s \in Parsed
                 PROVE  c \in Meaning[s] <=> a \in Holding[s]
    OBVIOUS
  <2>2. CASE IsFact(s)
    <3>1. s.fact \notin DOMAIN RoleFacts
      BY <2>1, <2>2, FactOf
    <3>2. QED
      BY <2>2, <3>1, FactMeans
  <2>3. CASE IsTest(s)
    <3>1. \A i \in DOMAIN s.children : s.children[i] \in Nodes /\ (i \in Kept(s) <=> s.children[i] \in Parsed)
      BY <2>3, ChildShape
    <3>2. \A i \in Kept(s) : i \in DOMAIN s.children
      BY DEF Kept
    <3>3. ASSUME NEW i \in Kept(s) PROVE c \in Meaning[s.children[i]] <=> a \in Holding[s.children[i]]
      <4>1. i \in DOMAIN s.children /\ s.children[i] \in Parsed
        BY <3>1, <3>2
      <4>2. ~ ProductIsAlternative(s.children[i]) /\ Facts(s.children[i]) \subseteq Facts(s)
        BY <2>1, <2>3, <4>1, ChildInherits
      <4>3. Claim(s.children[i])
        BY <1>2, <2>3, <4>1
      <4>4. QED
        BY <2>1, <4>1, <4>2, <4>3
    <3>4. ASSUME NEW i \in DOMAIN s.children, i \notin Kept(s)
          PROVE  c \in Meaning[s.children[i]] /\ HasProduct(s.children[i])
      <4>1. IsProduct(s.children[i])
        BY <3>4 DEF Kept
      <4>2. QED
        BY <1>1, <3>1, <4>1, ProductMeans
    <3>5. Judged(s, c) <=> Computed(s, a)
      <4>1. CASE s.operator = "AND"
        <5>1. Judged(s, c) <=> \A i \in Kept(s) : c \in Meaning[s.children[i]]
          BY <3>2, <3>4, <4>1 DEF Judged
        <5>2. Computed(s, a) <=> \A i \in Kept(s) : a \in Holding[s.children[i]]
          BY <4>1 DEF Computed
        <5>3. QED
          BY <3>3, <5>1, <5>2
      <4>2. CASE s.operator # "AND" /\ Kept(s) = DOMAIN s.children
        <5>1. Kept(s) # {}
          BY <2>3, <4>2, TestShape
        <5>2. Judged(s, c) <=> \E i \in Kept(s) : c \in Meaning[s.children[i]]
          BY <4>2 DEF Judged
        <5>3. Computed(s, a) <=> \E i \in Kept(s) : a \in Holding[s.children[i]]
          BY <4>2, <5>1 DEF Computed
        <5>4. QED
          BY <3>3, <5>2, <5>3
      <4>3. CASE s.operator # "AND" /\ Kept(s) # DOMAIN s.children
        <5>1. PICK i \in DOMAIN s.children : i \notin Kept(s)
          BY <3>2, <4>3
        <5>2. DOMAIN s.children = {i}
          BY <2>1, <2>3, <3>4, <4>3, <5>1, ProductChild
        <5>3. Kept(s) = {}
          BY <3>2, <5>1, <5>2
        <5>4. Judged(s, c)
          BY <3>4, <4>3, <5>1 DEF Judged
        <5>5. QED
          BY <5>3, <5>4 DEF Computed
      <4>4. QED
        BY <4>1, <4>2, <4>3
    <3>6. QED
      BY <1>1, <2>3, <3>5, MeaningOfTest, HoldingOfTest
  <2>4. QED
    BY <2>1, <2>2, <2>3, ParsedShape
<1> HIDE DEF T
<1>3. Nodes \subseteq T
  BY <1>2, NodeInduction
<1>4. QED
  BY <1>3, ParsedShape DEF T

\* Without a fact and without a negation, every cluster is meant.
LEMMA NoFactMeansAll ==
    ASSUME NEW t \in Nodes, Referenced(t) = {}, ~ HasNegation(t), NEW c \in Clusters
    PROVE  c \in Meaning[t]
<1> DEFINE T == {s \in Nodes : Referenced(s) = {} /\ ~ HasNegation(s) => c \in Meaning[s]}
<1>1. ASSUME NEW s \in Nodes, IsTest(s) => \A i \in DOMAIN s.children : s.children[i] \in T
      PROVE  s \in T
  <2>1. SUFFICES ASSUME Referenced(s) = {}, ~ HasNegation(s) PROVE c \in Meaning[s]
    OBVIOUS
  <2>2. CASE IsTest(s)
    <3>1. ASSUME NEW i \in DOMAIN s.children PROVE c \in Meaning[s.children[i]]
      <4>1. Referenced(s.children[i]) = {} /\ ~ HasNegation(s.children[i])
        BY <2>1, <2>2, ChildInherits
      <4>2. QED
        BY <1>1, <2>2, <4>1
    <3>2. 1 \in DOMAIN s.children
      BY <2>2, TestShape
    <3>3. s.negate = FALSE
      BY <2>1, <2>2, <3>2, ChildInherits
    <3>4. Judged(s, c)
      BY <3>1, <3>2 DEF Judged
    <3>5. QED
      BY <2>2, <3>3, <3>4, MeaningOfTest
  <2>3. CASE IsFact(s)
    BY <2>1, <2>3, FactOf
  <2>4. CASE IsProduct(s)
    BY <2>4, ProductMeans
  <2>5. QED
    BY <2>2, <2>3, <2>4, NodeShape
<1> HIDE DEF T
<1>2. Nodes \subseteq T
  BY <1>1, NodeInduction
<1>3. QED
  BY <1>2 DEF T

\* With assumed facts only, and without a negation, every assignment satisfies.
LEMMA AssumedHolds ==
    ASSUME NEW t \in Parsed, Facts(t) \subseteq AssumedTrue, ~ HasNegation(t), NEW a \in Assignments
    PROVE  a \in Holding[t]
<1> DEFINE T == {s \in Nodes : s \in Parsed /\ Facts(s) \subseteq AssumedTrue /\ ~ HasNegation(s)
                                   => a \in Holding[s]}
<1>1. ASSUME NEW s \in Nodes, IsTest(s) => \A i \in DOMAIN s.children : s.children[i] \in T
      PROVE  s \in T
  <2>1. SUFFICES ASSUME s \in Parsed, Facts(s) \subseteq AssumedTrue, ~ HasNegation(s)
                 PROVE  a \in Holding[s]
    OBVIOUS
  <2>2. CASE IsTest(s)
    <3>1. ASSUME NEW i \in Kept(s) PROVE a \in Holding[s.children[i]]
      <4>1. i \in DOMAIN s.children
        BY DEF Kept
      <4>2. s.children[i] \in Parsed
        BY <2>2, <4>1, ChildShape
      <4>3. Facts(s.children[i]) \subseteq AssumedTrue /\ ~ HasNegation(s.children[i])
        BY <2>1, <2>2, <4>1, ChildInherits
      <4>4. QED
        BY <1>1, <2>2, <4>1, <4>2, <4>3
    <3>2. s.negate = FALSE
      <4>1. 1 \in DOMAIN s.children
        BY <2>2, TestShape
      <4>2. QED
        BY <2>1, <2>2, <4>1, ChildInherits
    <3>3. Computed(s, a)
      BY <3>1 DEF Computed
    <3>4. QED
      BY <2>2, <3>2, <3>3, HoldingOfTest
  <2>3. CASE IsFact(s)
    <3>1. s.fact \in AssumedTrue
      BY <2>1, <2>3, FactOf
    <3>2. FactHolds(s.fact, a)
      BY <3>1 DEF FactHolds
    <3>3. Holding[s] = EvaluateNode(s, Holding)
      BY <2>1, HoldingEquation
    <3>4. QED
      BY <2>3, <3>2, <3>3 DEF EvaluateNode
  <2>4. QED
    BY <2>1, <2>2, <2>3, ParsedShape
<1> HIDE DEF T
<1>2. Nodes \subseteq T
  BY <1>1, NodeInduction
<1>3. QED
  BY <1>2, ParsedShape DEF T

\* Positions below different children differ, and so do those below one child.
LEMMA PositionsDiffer ==
    ASSUME NEW i \in Nat, NEW j \in Nat, NEW p \in Seq(Nat), NEW q \in Seq(Nat),
           <<i>> \o p = <<j>> \o q
    PROVE  i = j /\ p = q
<1> DEFINE s == <<i>>
           t == <<j>>
<1>1. s \in Seq(Nat) /\ t \in Seq(Nat) /\ Len(s) = 1 /\ Len(t) = 1 /\ s[1] = i /\ t[1] = j
  OBVIOUS
<1>2. s \o p = t \o q
  OBVIOUS
<1> HIDE DEF s, t
<1>3. /\ Len(s \o p) = 1 + Len(p)
      /\ \A k \in 1..1 + Len(p) : (s \o p)[k] = IF k <= 1 THEN s[k] ELSE p[k - 1]
  <2>1. /\ Len(s \o p) = Len(s) + Len(p)
        /\ \A k \in 1..Len(s) + Len(p) : (s \o p)[k] = IF k <= Len(s) THEN s[k] ELSE p[k - Len(s)]
    BY <1>1, ConcatProperties, Zenon
  <2>2. QED
    BY <1>1, <2>1
<1>4. /\ Len(t \o q) = 1 + Len(q)
      /\ \A k \in 1..1 + Len(q) : (t \o q)[k] = IF k <= 1 THEN t[k] ELSE q[k - 1]
  <2>1. /\ Len(t \o q) = Len(t) + Len(q)
        /\ \A k \in 1..Len(t) + Len(q) : (t \o q)[k] = IF k <= Len(t) THEN t[k] ELSE q[k - Len(t)]
    BY <1>1, ConcatProperties, Zenon
  <2>2. QED
    BY <1>1, <2>1
<1>5. Len(p) \in Nat /\ Len(q) \in Nat /\ Len(p) = Len(q)
  BY <1>2, <1>3, <1>4
<1>6. 1 \in 1..1 + Len(p) /\ 1 \in 1..1 + Len(q)
  BY <1>5
<1>7. i = j
  BY <1>1, <1>2, <1>3, <1>4, <1>6
<1>8. ASSUME NEW k \in 1..Len(p) PROVE p[k] = q[k]
  <2>1. k + 1 \in 1..1 + Len(p) /\ ~ (k + 1 <= 1) /\ (k + 1) - 1 = k
    BY <1>5
  <2>2. QED
    BY <1>2, <1>3, <1>4, <1>5, <2>1
<1>9. p = q
  BY <1>5, <1>8, SeqEqual
<1>10. QED
  BY <1>7, <1>9

LEMMA ChildIsRead ==
    ASSUME NEW t \in Nodes, IsTest(t), \A o, p \in Referenced(t) : o = p,
           NEW i \in DOMAIN t.children, NEW j \in DOMAIN t.children,
           NEW q \in Referenced(t.children[i]), NEW r \in Referenced(t.children[j])
    PROVE  i = j /\ q = r
<1>1. /\ i \in Nat /\ j \in Nat /\ t.children[i] \in Nodes /\ t.children[j] \in Nodes
  BY ChildShape
<1>2. << <<i>> \o q[1], q[2] >> \in Referenced(t) /\ << <<j>> \o r[1], r[2] >> \in Referenced(t)
  BY ChildInherits
<1>3. <<i>> \o q[1] = <<j>> \o r[1] /\ q[2] = r[2]
  BY <1>2
<1>4. q \in Occurrences[t.children[i]] /\ r \in Occurrences[t.children[j]]
  BY DEF Referenced
<1>5. q[1] \in Seq(Nat) /\ r[1] \in Seq(Nat) /\ q = <<q[1], q[2]>> /\ r = <<r[1], r[2]>>
  BY <1>1, <1>4, OccurrenceShape
<1>6. i = j /\ q[1] = r[1]
  BY <1>1, <1>3, <1>5, PositionsDiffer
<1>7. QED
  BY <1>3, <1>5, <1>6

\* An expression whose single leaf is a role fact, not negated, means the nodes
\* of the fact's roles, on every cluster.
LEMMA RoleMeaning ==
    ASSUME NEW t \in Nodes, NEW f \in DOMAIN RoleFacts, f \in Facts(t), ~ HasNegation(t),
           \A o, p \in Referenced(t) : o = p, ~ ProductIsAlternative(t),
           NEW a \in Assignments, NEW role \in Roles
    PROVE  <<a, role>> \in Meaning[t] <=> role \in RoleFacts[f]
<1> DEFINE c == <<a, role>>
           Claim(s) == f \in Facts(s) /\ ~ HasNegation(s) /\ (\A o, p \in Referenced(s) : o = p)
                           /\ ~ ProductIsAlternative(s) => (c \in Meaning[s] <=> role \in RoleFacts[f])
           T == {s \in Nodes : Claim(s)}
<1>1. c \in Clusters
  BY DEF Clusters
<1>2. ASSUME NEW s \in Nodes, IsTest(s) => \A i \in DOMAIN s.children : s.children[i] \in T
      PROVE  s \in T
  <2>1. SUFFICES ASSUME f \in Facts(s), ~ HasNegation(s), \A o, p \in Referenced(s) : o = p,
                        ~ ProductIsAlternative(s)
                 PROVE  c \in Meaning[s] <=> role \in RoleFacts[f]
    OBVIOUS
  <2>2. CASE IsFact(s)
    <3>1. s.fact = f
      BY <2>1, <2>2, FactOf
    <3>2. QED
      BY <2>2, <3>1, FactMeans
  <2>3. CASE IsProduct(s)
    <3>1. ~ IsTest(s) /\ ~ IsFact(s)
      BY <2>3, NodeShape
    <3>2. Referenced(s) = {}
      BY <3>1, OccursLeaf DEF Referenced
    <3>3. QED
      BY <2>1, <3>2 DEF Facts
  <2>4. CASE IsTest(s)
    <3>1. PICK o \in Referenced(s) : o[2].fact = f
      BY <2>1 DEF Facts
    <3>2. o \in Occurrences[s] /\ IsFact(o[2]) /\ o[2] # s
      BY <2>4, <3>1, NodeShape DEF Referenced
    <3>3. PICK i \in DOMAIN s.children : \E q \in Occurrences[s.children[i]] :
              o = << <<i>> \o q[1], q[2] >>
      BY <2>4, <3>2, OccursIn
    <3>4. PICK q \in Occurrences[s.children[i]] : o = << <<i>> \o q[1], q[2] >>
      BY <3>3
    <3>5. q \in Referenced(s.children[i]) /\ q[2].fact = f
      BY <3>1, <3>2, <3>4 DEF Referenced
    <3>6. f \in Facts(s.children[i])
      BY <3>5 DEF Facts
    <3>7. \A p, r \in Referenced(s.children[i]) : p = r
      BY <2>1, <2>4, ChildIsRead
    <3>8. c \in Meaning[s.children[i]] <=> role \in RoleFacts[f]
      <4>1. ~ HasNegation(s.children[i]) /\ ~ ProductIsAlternative(s.children[i])
        BY <2>1, <2>4, ChildInherits
      <4>2. Claim(s.children[i])
        BY <1>2, <2>4
      <4>3. QED
        BY <3>6, <3>7, <4>1, <4>2
    <3>9. ASSUME NEW j \in DOMAIN s.children, j # i
          PROVE  c \in Meaning[s.children[j]] /\ s.operator = "AND"
      <4>1. Referenced(s.children[j]) = {}
        BY <2>1, <2>4, <3>5, <3>9, ChildIsRead
      <4>2. ~ HasNegation(s.children[j]) /\ s.children[j] \in Nodes
        BY <2>1, <2>4, ChildInherits, ChildShape
      <4>3. c \in Meaning[s.children[j]]
        BY <1>1, <4>1, <4>2, NoFactMeansAll
      <4>4. HasProduct(s.children[j])
        BY <4>1, <4>2, HasLeaf
      <4>5. s.operator # "AND" => DOMAIN s.children = {j}
        BY <2>1, <2>4, <4>4, ProductChild
      <4>6. QED
        BY <3>9, <4>3, <4>5
    <3>10. s.negate = FALSE
      BY <2>1, <2>4, ChildInherits
    <3>11. Judged(s, c) <=> c \in Meaning[s.children[i]]
      <4>1. CASE s.operator = "AND"
        BY <3>9, <4>1 DEF Judged
      <4>2. CASE s.operator # "AND"
        BY <3>9, <4>2 DEF Judged
      <4>3. QED
        BY <4>1, <4>2
    <3>12. QED
      BY <1>1, <2>4, <3>8, <3>10, <3>11, MeaningOfTest
  <2>5. QED
    BY <2>2, <2>3, <2>4, NodeShape
<1> HIDE DEF T
<1>3. Nodes \subseteq T
  BY <1>2, NodeInduction
<1>4. QED
  BY <1>3 DEF T

-----------------------------------------------------------------------------
(***************************************************************************)
(* What the chart does of it.                                              *)
(***************************************************************************)
\* An expression the generator has read means its assignments, on the nodes of
\* its role facts' roles.
LEMMA ReadableMeaning ==
    ASSUME NEW t \in Nodes, IsTest(t), ~ Unreadable(t), ~ ProductIsAlternative(t),
           NEW a \in Assignments, NEW role \in Roles
    PROVE  <<a, role>> \in Meaning[t] <=>
               a \in Holding[t] /\ \A f \in RoleNames(t) : role \in RoleFacts[f]
<1>1. t \in Parsed
  BY NodeShape DEF Parsed
<1>2. CASE RoleNames(t) = {}
  BY <1>1, <1>2, PlainMeaning DEF RoleNames
<1>3. CASE RoleNames(t) # {}
  <2>1. ~ HasNegation(t) /\ \A o, p \in Referenced(t) : o = p
    BY <1>3 DEF Unreadable
  <2>2. PICK f \in RoleNames(t) : TRUE
    BY <1>3
  <2>3. f \in Facts(t) /\ f \in DOMAIN RoleFacts /\ f \in AssumedTrue
    BY <2>2, VocabularyAssumption DEF RoleNames
  <2>4. Facts(t) = {f}
    BY <2>1, <2>3 DEF Facts
  <2>5. RoleNames(t) = {f}
    BY <2>3, <2>4 DEF RoleNames
  <2>6. a \in Holding[t]
    BY <1>1, <2>1, <2>3, <2>4, AssumedHolds
  <2>7. <<a, role>> \in Meaning[t] <=> role \in RoleFacts[f]
    BY <2>1, <2>3, RoleMeaning
  <2>8. QED
    BY <2>5, <2>6, <2>7
<1>4. QED
  BY <1>2, <1>3

LEMMA UpstreamShape ==
    ASSUME rule \in XccdfRules, NEW expr \in Upstream
    PROVE  expr \in Nodes /\ IsTest(expr)
<1>1. PICK ref \in References : ref.kind = "platform" /\ ref.expr = expr
  BY DEF Upstream
<1>2. IsRef(ref)
  BY RuleShape
<1>3. QED
  BY <1>1, <1>2 DEF IsRef

\* The axes: the preflight lets a cluster pass if and only if it satisfies the
\* expressions.
LEMMA AcceptedAxes ==
    ASSUME IInv, Done, exprs # <<>>, NEW a \in Assignments
    PROVE  (~ app.never /\ \A x \in Axes : a[x] \in app.allowed[x]) <=> a \in Satisfying
<1>1. /\ app.never <=> Impossible
      /\ ~ Impossible => app.allowed = Projection /\ Satisfying = Product
  BY DEF Done, IInv, ReducedInv
<1>2. CASE Impossible
  BY <1>1, <1>2 DEF Impossible
<1>3. CASE ~ Impossible
  BY <1>1, <1>3 DEF Product
<1>4. QED
  BY <1>2, <1>3

\* The roles: an object is written for a role if and only if every role fact
\* holds on its nodes.  ROLE_FACTS having one entry, no intersection is empty.
LEMMA AcceptedRoles ==
    ASSUME IInv, Done, exprs # <<>>, NEW role \in Roles
    PROVE  (app.roles = {} \/ role \in app.roles) <=>
               \A i \in DOMAIN exprs : \A f \in RoleNames(exprs[i]) : role \in RoleFacts[f]
<1>1. /\ next = Len(exprs) + 1 /\ roles = RolesOf(next - 1)
      /\ app.roles = {r \in UNION roles : \A R \in roles : r \in R}
  BY DEF Done, IInv, RolesInv
<1>2. exprs \in Seq(Upstream)
  BY DEF IInv, ExprsInv
<1>3. DOMAIN exprs = 1..Len(exprs) /\ Len(exprs) \in Nat
  BY <1>2, ToSetOf
<1>4. next - 1 = Len(exprs)
  BY <1>1, <1>3
<1>5. roles = {RoleFacts[f] : f \in UNION {RoleNames(exprs[j]) : j \in DOMAIN exprs}}
  BY <1>1, <1>3, <1>4 DEF RolesOf
<1>6. (\A R \in roles : role \in R) <=>
          \A i \in DOMAIN exprs : \A f \in RoleNames(exprs[i]) : role \in RoleFacts[f]
  BY <1>5
<1>7. PICK shared \in Roles : \A f \in DOMAIN RoleFacts : shared \in RoleFacts[f]
  BY VocabularyAssumption
<1>8. \A R \in roles : shared \in R
  BY <1>5, <1>7 DEF RoleNames
<1>9. CASE roles = {}
  BY <1>1, <1>6, <1>9
<1>10. CASE roles # {}
  <2>1. shared \in app.roles
    BY <1>1, <1>8, <1>10
  <2>2. role \in app.roles <=> \A R \in roles : role \in R
    BY <1>1, <1>10
  <2>3. QED
    BY <1>6, <2>1, <2>2
<1>11. QED
  BY <1>9, <1>10

\* The chart applies a rule to exactly the clusters and the node roles that
\* upstream means: neither the per-axis guards nor the separate treatment of
\* role facts (applicability.py 267-291, 320-330) approximate an expression that
\* the generator accepts, however it nests, and no constraint of a group around
\* the rule is lost on the way (parser.py 60-62).
THEOREM ExactForEveryPoolCorrect == Spec => []ExactForEveryPool
<1>1. IInv => ExactForEveryPool
  <2>1. SUFFICES ASSUME IInv, Done, \A expr \in Upstream : ~ ProductIsAlternative(expr),
                        NEW a \in Assignments, NEW role \in Roles
                 PROVE  Accepts(a, role) <=> AppliesTo(a, role)
    BY DEF ExactForEveryPool
  <2>2. rule \in XccdfRules /\ exprs \in Seq(Upstream) /\ ToSet(exprs) = Upstream
    BY <2>1 DEF IInv, RefsInv, ExprsInv, Done
  <2>3. CASE exprs = <<>>
    <3>1. Upstream = {}
      BY <2>2, <2>3 DEF ToSet
    <3>2. app = Unrestricted
      BY <2>1, <2>3 DEF IInv, ReducedInv, Done
    <3>3. Accepts(a, role)
      BY <3>2, AssignmentShape, UnrestrictedShape DEF Accepts
    <3>4. QED
      BY <3>1, <3>3 DEF AppliesTo
  <2>4. CASE exprs # <<>>
    <3>1. Upstream = {exprs[i] : i \in DOMAIN exprs}
      BY <2>2 DEF ToSet
    <3>2. \A i \in DOMAIN exprs : exprs[i] \in Upstream /\ exprs[i] \in Nodes /\ IsTest(exprs[i])
      BY <2>2, <3>1, UpstreamShape
    <3>3. ASSUME NEW i \in DOMAIN exprs PROVE ~ Unreadable(exprs[i])
      <4>1. /\ next = Len(exprs) + 1
            /\ \A j \in 1..(next - 1) : ~ Unreadable(exprs[j])
        BY <2>1, <2>4 DEF Done, IInv, RolesInv
      <4>2. DOMAIN exprs = 1..Len(exprs) /\ Len(exprs) \in Nat
        BY <2>2, ToSetOf
      <4>3. next - 1 = Len(exprs)
        BY <4>1, <4>2
      <4>4. QED
        BY <4>1, <4>2, <4>3
    <3>4. \A i \in DOMAIN exprs : <<a, role>> \in Meaning[exprs[i]] <=>
              Evaluate(exprs[i], a) /\ \A f \in RoleNames(exprs[i]) : role \in RoleFacts[f]
      BY <2>1, <3>2, <3>3, ReadableMeaning DEF Evaluate
    <3>5. AppliesTo(a, role) <=> \A i \in DOMAIN exprs : <<a, role>> \in Meaning[exprs[i]]
      BY <3>1 DEF AppliesTo
    <3>6. a \in Satisfying <=> \A i \in DOMAIN exprs : Evaluate(exprs[i], a)
      BY DEF Satisfying
    <3>7. Accepts(a, role) <=> a \in Satisfying /\ (app.roles = {} \/ role \in app.roles)
      BY <2>1, <2>4, AcceptedAxes DEF Accepts
    <3>8. QED
      BY <2>1, <2>4, <3>4, <3>5, <3>6, <3>7, AcceptedRoles
  <2>5. QED
    BY <2>3, <2>4
<1>2. QED
  BY <1>1, IInvCorrect, PTL

=============================================================================
