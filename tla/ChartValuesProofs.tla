-------------------------- MODULE ChartValuesProofs --------------------------
(***************************************************************************)
(* Proofs about ChartValues, for all contents of the products, all         *)
(* selections of profiles and all overrides.                               *)
(***************************************************************************)
EXTENDS ChartValues, FiniteSetTheorems, WellFoundedInduction, TLAPS

(***************************************************************************)
(* The resolver.                                                           *)
(***************************************************************************)
\* Every set of naturals has a least member.
LEMMA LeastExists ==
    ASSUME NEW T, T \subseteq Nat, T # {}
    PROVE  \E x \in T : \A y \in T : x <= y
<1> DEFINE R == {ss \in Nat \X Nat : ss[1] < ss[2]}
<1>1. IsWellFoundedOn(R, Nat)
  BY NatLessThanWellFounded DEF OpToRel
<1> HIDE DEF R
<1>2. PICK x \in T : \A y \in T : ~ (<<y, x>> \in R)
  BY <1>1, WFMin
<1>3. \A y \in T : ~ (y < x)
  BY <1>2 DEF R
<1> QED
  BY <1>2, <1>3

\* The profiles that ask for an option are finitely many.
LEMMA AskingBounded ==
    ASSUME NEW c, NEW name, NEW s, IsFiniteSet(DOMAIN c.profiles)
    PROVE  /\ Asking(c, name, s) \in Nat
           /\ Asking(c, name, s) <= Cardinality(DOMAIN c.profiles)
           /\ Cardinality(DOMAIN c.profiles) \in Nat
BY FS_Subset, FS_CardinalityType DEF Asking

\* The majority, with the alphabetically first selector among equals, exists.
LEMMA BestExists ==
    ASSUME NEW c, NEW name, IsFiniteSet(DOMAIN c.profiles),
           NEW asked, asked \subseteq Nat, asked # {}
    PROVE  \E s \in asked : \A t \in asked \ {s} :
               \/ Asking(c, name, s) > Asking(c, name, t)
               \/ Asking(c, name, s) = Asking(c, name, t) /\ s < t
<1> DEFINE N == Cardinality(DOMAIN c.profiles)
           Spare == {N - Asking(c, name, s) : s \in asked}
<1>1. \A s \in asked : Asking(c, name, s) \in Nat /\ Asking(c, name, s) <= N /\ N \in Nat
  BY AskingBounded
<1>2. PICK m \in Spare : \A y \in Spare : m <= y
  <2>1. \A s \in asked : N - Asking(c, name, s) \in Nat
    <3> HIDE DEF N
    <3> QED
      BY <1>1
  <2>2. Spare \subseteq Nat
    BY <2>1
  <2>3. Spare # {}
    OBVIOUS
  <2> QED
    BY <2>2, <2>3, LeastExists
<1>3. PICK s0 \in asked : m = N - Asking(c, name, s0)
  BY <1>2
<1> HIDE DEF Spare
<1>4. \A t \in asked : Asking(c, name, t) <= Asking(c, name, s0)
  <2> TAKE t \in asked
  <2>1. N - Asking(c, name, t) \in Spare
    BY DEF Spare
  <2>2. m <= N - Asking(c, name, t)
    BY <2>1, <1>2
  <2> QED
    BY <2>2, <1>3, <1>1
<1> DEFINE Most == {s \in asked : Asking(c, name, s) = Asking(c, name, s0)}
<1>5. PICK s \in Most : \A t \in Most : s <= t
  <2>1. Most \subseteq Nat /\ Most # {}
    OBVIOUS
  <2> QED
    BY <2>1, LeastExists
<1>6. ASSUME NEW t \in asked \ {s}
      PROVE  \/ Asking(c, name, s) > Asking(c, name, t)
             \/ Asking(c, name, s) = Asking(c, name, t) /\ s < t
  <2>1. CASE t \in Most
    BY <1>6, <2>1, <1>5
  <2>2. CASE t \notin Most
    BY <1>6, <2>2, <1>1, <1>4, <1>5
  <2> QED
    BY <2>1, <2>2
<1> QED
  BY <1>5, <1>6

\* A value found has texts, and a name without one is resolved to none.
LEMMA FoundValue ==
    ASSUME NEW d \in Datastreams, NEW p \in ToSet(Products), NEW name,
           FindValue(d[p], name) # "None"
    PROVE  /\ FindValue(d[p], name) \in DOMAIN d[p].values
           /\ LET v == d[p].values[FindValue(d[p], name)] IN
              /\ v.default \in Texts \cup {"None"} /\ v.options \in Seq(Texts)
              /\ v.options # <<>> => v.first \in DOMAIN v.options
<1>1. FindValue(d[p], name) \in DOMAIN d[p].values
  BY DEF FindValue
<1> QED
  BY <1>1, ChartValuesAssumption

\* resolve_defaults always finds a text.
LEMMA ResolveText ==
    ASSUME NEW d \in Datastreams, NEW p \in ToSet(Products), NEW name
    PROVE  Resolve(d[p], name) \in Texts
<1> DEFINE c == d[p]
           id == FindValue(c, name)
           v == c.values[id]
           asked == {s \in DOMAIN v.options : Asking(c, name, s) > 0}
           IsBest(s) == \A t \in asked \ {s} :
                           \/ Asking(c, name, s) > Asking(c, name, t)
                           \/ Asking(c, name, s) = Asking(c, name, t) /\ s < t
           best == CHOOSE s \in asked : IsBest(s)
<1>1. CASE id = "None"
  BY <1>1 DEF Resolve, Texts
<1>2. CASE id # "None"
  <2>1. /\ v.default \in Texts \cup {"None"} /\ v.options \in Seq(Texts)
        /\ v.options # <<>> => v.first \in DOMAIN v.options
    BY <1>2, FoundValue
  <2>2. Resolve(c, name) = IF asked # {} THEN v.options[best] ELSE BareDefault(v)
    BY <1>2 DEF Resolve
  <2>3. CASE asked = {}
    <3>1. v.options # <<>> => v.options[v.first] \in Texts
      BY <2>1
    <3>2. BareDefault(v) \in Texts
      BY <2>1, <3>1 DEF BareDefault, Texts
    <3> QED
      BY <2>2, <2>3, <3>2
  <2>4. CASE asked # {}
    <3>1. asked \subseteq DOMAIN v.options /\ asked \subseteq Nat /\ asked # {}
      BY <2>1, <2>4
    <3>2. IsFiniteSet(DOMAIN c.profiles)
      BY ChartValuesAssumption
    <3> HIDE DEF asked, c
    <3>3. \E s \in asked : \A t \in asked \ {s} :
               \/ Asking(c, name, s) > Asking(c, name, t)
               \/ Asking(c, name, s) = Asking(c, name, t) /\ s < t
      BY <3>1, <3>2, BestExists
    <3>4. \E s \in asked : IsBest(s)
      BY <3>3
    <3> HIDE DEF IsBest
    <3>5. best \in asked
      BY <3>4
    <3> HIDE DEF best
    <3>6. v.options[best] \in Texts
      BY <2>1, <3>1, <3>5
    <3>7. Resolve(c, name) = v.options[best]
      BY <2>2, <3>1
    <3> QED
      BY <3>6, <3>7 DEF c
  <2> QED
    BY <2>3, <2>4
<1> QED
  BY <1>1, <1>2

\* A default is a value an overlay could hold as well.
LEMMA ScalarOverlays == ASSUME NEW t \in Texts PROVE YamlScalar(t) \in Overlay
BY ChartValuesAssumption
   DEF YamlScalar, NeedsQuote, PlainType, Overlay, Text, Texts, PlainTexts, IndicatorTexts

LEMMA OverlayFacts ==
    ASSUME NEW value \in Overlay
    PROVE  /\ value.text \in Texts
           /\ value.json = "number" => value.text \in NumberTexts
BY DEF Overlay, Text, Texts, PlainTexts

(***************************************************************************)
(* What is computed from the contents stays, as the contents do.           *)
(***************************************************************************)
LEMMA SchemaFrame ==
    ASSUME contents' = contents
    PROVE  NumericVariables' = NumericVariables /\ UnquotedVariables' = UnquotedVariables
BY DEF NumericVariables, UnquotedVariables, Contents

LEMMA LayerFrame ==
    ASSUME contents' = contents
    PROVE  \A layer : LayerRules(layer)' = LayerRules(layer)
BY DEF LayerRules

LEMMA ProfileFrame ==
    ASSUME contents' = contents, NEW layer
    PROVE  /\ ProfilesOf(layer)' = ProfilesOf(layer)
           /\ \A f : ProductOf(f)' = ProductOf(f) /\ ProfileOf(f)' = ProfileOf(f)
<1>1. LayerRules(layer)' = LayerRules(layer)
  BY LayerFrame
<1>2. ProfilesOf(layer)' = ProfilesOf(layer)
  BY <1>1 DEF ProfilesOf
<1>3. \A f : ProductOf(f)' = ProductOf(f)
  BY DEF ProductOf
<1> QED
  BY <1>2, <1>3 DEF ProfileOf

LEMMA MapsFrame ==
    ASSUME contents' = contents, NEW layer
    PROVE  GeneratedMaps(layer)' = GeneratedMaps(layer)
<1>1. LayerRules(layer)' = LayerRules(layer)
  BY LayerFrame
<1>2. ProfileRules(layer)' = ProfileRules(layer)
  BY <1>1, ProfileFrame DEF ProfileRules
<1>3. ProfileVariables(layer)' = ProfileVariables(layer)
  BY <1>2, ProfileFrame DEF ProfileVariables
<1>4. RuleDependencies(layer)' = RuleDependencies(layer)
  BY <1>1 DEF RuleDependencies
<1> QED
  BY <1>2, <1>3, <1>4 DEF GeneratedMaps

LEMMA ReportFrame ==
    ASSUME contents' = contents
    PROVE  Dependencies' = Dependencies /\ UnverifiableDependencies' = UnverifiableDependencies
<1>1. \A layer : LayerRules(layer)' = LayerRules(layer)
  BY LayerFrame
<1>2. Dependencies' = Dependencies
  BY <1>1 DEF Dependencies
<1> QED
  BY <1>1, <1>2 DEF UnverifiableDependencies

LEMMA FieldsFrame ==
    ASSUME contents' = contents, variables' = variables, blocks' = blocks, install' = install
    PROVE  RenderedFields' = RenderedFields /\ RenderedSetValues' = RenderedSetValues
<1>1. ActiveRules' = ActiveRules
  BY DEF ActiveRules
<1>2. \A form, v : Field(form, v)' = Field(form, v)
  BY DEF Field
<1>3. RenderedFields' = RenderedFields
  BY <1>1, <1>2 DEF RenderedFields
<1> QED
  BY <1>3 DEF RenderedSetValues

(***************************************************************************)
(* The inductive invariant.                                                *)
(***************************************************************************)
\* The products are read one after the other, each of them.
LEMMA ProductRead ==
    /\ Len(Products) \in Nat
    /\ \A n \in 1..Len(Products) : Products[n] \in ToSet(Products)
    /\ \A p \in ToSet(Products) : \E n \in 1..Len(Products) : p = Products[n]
BY ChartValuesAssumption DEF ToSet

LEMMA InitHolds == Init => IInv
BY ProductRead DEF Init, IInv, TypeOK, DefaultsInv, WrittenInv, RenderedInv, NoInstall

\* WrittenInv speaks of contents, schema, blocks and report, which stay.
LEMMA WrittenStays ==
    ASSUME WrittenInv, pc # "resolve",
           UNCHANGED <<contents, next, schema, blocks, report>>
    PROVE  WrittenInv'
<1>1. NumericVariables' = NumericVariables /\ UnquotedVariables' = UnquotedVariables
  BY SchemaFrame
<1>2. \A layer : GeneratedMaps(layer)' = GeneratedMaps(layer)
  BY MapsFrame
<1>3. UnverifiableDependencies' = UnverifiableDependencies
  BY ReportFrame
<1> QED
  BY <1>1, <1>2, <1>3 DEF WrittenInv

LEMMA ResolveHolds == IInv /\ ResolveDefaults => IInv'
<1> SUFFICES ASSUME IInv, ResolveDefaults PROVE IInv'
  OBVIOUS
<1> DEFINE c == contents[Products[next]]
           resolved == ReferencedVariables(c)
<1>1. /\ pc = "resolve" /\ pc' = "resolve" /\ next \in 1..Len(Products) /\ next' = next + 1
      /\ variables' = [v \in DOMAIN variables \cup resolved |->
                          IF v \in resolved THEN YamlScalar(Resolve(c, v)) ELSE variables[v]]
      /\ UNCHANGED <<contents, schema, blocks, report, install, overridden, applied, setValues>>
  BY ProductRead DEF IInv, TypeOK, ResolveDefaults
<1>2. overridden = {} /\ applied = {} /\ setValues = {} /\ contents \in Datastreams
  BY <1>1 DEF IInv, DefaultsInv, RenderedInv
<1>3. \A v : YamlScalar(Resolve(c, v)) \in Overlay
  BY <1>1, <1>2, ProductRead, ResolveText, ScalarOverlays
<1>4. TypeOK'
  <2>1. \A v \in DOMAIN variables' : variables'[v] \in Overlay
    BY <1>1, <1>3 DEF IInv, TypeOK
  <2>2. next' \in 1..(Len(Products) + 1)
    BY <1>1, ProductRead
  <2>3. overridden' \subseteq DOMAIN schema'
    BY <1>1, <1>2
  <2> QED
    BY <1>1, <1>2, <2>1, <2>2, <2>3 DEF TypeOK
<1>5. DefaultsInv'
  <2> DEFINE Default(n, v) == YamlScalar(Resolve(contents[Products[n]], v))
             Before(n) == ReferencedVariables(contents[Products[n]])
  <2>1. /\ \A n \in 1..(next - 1) : Before(n) \subseteq DOMAIN variables
        /\ \A v \in DOMAIN variables : \E n \in 1..(next - 1) :
               /\ v \in Before(n) /\ \A k \in (n + 1)..(next - 1) : v \notin Before(k)
               /\ variables[v] = Default(n, v)
    BY <1>1 DEF IInv, DefaultsInv, RefersTo
  <2>2. \A v \in resolved : variables'[v] = Default(next, v)
    BY <1>1
  <2>3. \A v \in DOMAIN variables \ resolved : variables'[v] = variables[v]
    BY <1>1
  <2>4. DOMAIN variables' = DOMAIN variables \cup Before(next) /\ resolved = Before(next)
    BY <1>1
  <2> HIDE DEF Default, Before, resolved
  <2>5. \A n \in 1..next : Before(n) \subseteq DOMAIN variables'
    BY <1>1, <2>1, <2>4
  <2>6. ASSUME NEW v \in DOMAIN variables'
        PROVE  \E n \in 1..next :
                   /\ v \in Before(n) /\ \A k \in (n + 1)..next : v \notin Before(k)
                   /\ variables'[v] = Default(n, v)
    <3>1. CASE v \in resolved
      BY <1>1, <2>2, <2>4, <3>1
    <3>2. CASE v \notin resolved
      <4>1. v \in DOMAIN variables /\ variables'[v] = variables[v] /\ v \notin Before(next)
        BY <2>3, <2>4, <2>6, <3>2
      <4>2. PICK n \in 1..(next - 1) :
               /\ v \in Before(n) /\ \A k \in (n + 1)..(next - 1) : v \notin Before(k)
               /\ variables[v] = Default(n, v)
        BY <2>1, <4>1
      <4>3. \A k \in (n + 1)..next : v \notin Before(k)
        BY <1>1, <4>1, <4>2
      <4> QED
        BY <1>1, <4>1, <4>2, <4>3
    <3> QED
      BY <3>1, <3>2
  <2>7. next' - 1 = next /\ contents' = contents /\ overridden' = {}
    BY <1>1, <1>2
  <2> QED
    BY <2>5, <2>6, <2>7 DEF DefaultsInv, RefersTo, Default, Before
<1> QED
  BY <1>1, <1>2, <1>4, <1>5 DEF IInv, WrittenInv, RenderedInv

LEMMA WriteHolds == IInv /\ WriteValues => IInv'
<1> SUFFICES ASSUME IInv, WriteValues PROVE IInv'
  OBVIOUS
<1>1. /\ pc = "resolve" /\ pc' = "written" /\ next = Len(Products) + 1
      /\ overridden = {} /\ applied = {} /\ setValues = {}
      /\ UNCHANGED <<contents, next, variables, install, overridden, applied, setValues>>
  BY ProductRead DEF IInv, TypeOK, DefaultsInv, RenderedInv, WriteValues
<1>2. DOMAIN schema' = DOMAIN variables
  BY DEF WriteValues
<1>3. TypeOK'
  BY <1>1, <1>2 DEF IInv, TypeOK
<1>4. DefaultsInv'
  BY <1>1 DEF IInv, DefaultsInv, RefersTo
<1>5. WrittenInv'
  <2>1. NumericVariables' = NumericVariables /\ UnquotedVariables' = UnquotedVariables
    BY <1>1, SchemaFrame
  <2>2. \A layer : GeneratedMaps(layer)' = GeneratedMaps(layer)
    BY <1>1, MapsFrame
  <2>3. UnverifiableDependencies' = UnverifiableDependencies
    BY <1>1, ReportFrame
  <2> QED
    BY <1>1, <1>2, <2>1, <2>2, <2>3 DEF WrittenInv, WriteValues
<1> QED
  BY <1>1, <1>3, <1>4, <1>5 DEF IInv, RenderedInv

LEMMA InstallHolds == IInv /\ Install => IInv'
<1> SUFFICES ASSUME IInv, Install PROVE IInv'
  OBVIOUS
<1>1. /\ pc = "written" /\ pc' = "overlay" /\ applied = {} /\ setValues = {}
      /\ UNCHANGED <<contents, next, variables, schema, blocks, report, overridden,
                     applied, setValues>>
  BY DEF IInv, RenderedInv, Install
<1>2. install'.layer \in Layers /\ install'.profiles \subseteq DOMAIN blocks[install'.layer].profileRules
  BY DEF Install
<1>3. TypeOK'
  BY <1>1, <1>2 DEF IInv, TypeOK
<1>4. WrittenInv'
  BY <1>1, WrittenStays DEF IInv
<1> QED
  BY <1>1, <1>3, <1>4 DEF IInv, DefaultsInv, RenderedInv

LEMMA OverrideHolds == IInv /\ Override => IInv'
<1> SUFFICES ASSUME IInv, Override PROVE IInv'
  OBVIOUS
<1>1. /\ pc = "overlay" /\ pc' = "overlay" /\ applied = {} /\ setValues = {}
      /\ UNCHANGED <<contents, next, schema, blocks, report, install, applied, setValues>>
  BY DEF IInv, RenderedInv, Override
<1>2. PICK v \in DOMAIN variables \ overridden, value \in Overlay :
          variables' = [variables EXCEPT ![v] = value] /\ overridden' = overridden \cup {v}
  BY DEF Override
<1>3. TypeOK'
  BY <1>1, <1>2 DEF IInv, TypeOK
<1>4. WrittenInv'
  BY <1>1, WrittenStays DEF IInv
<1> QED
  BY <1>1, <1>3, <1>4 DEF IInv, DefaultsInv, RenderedInv

LEMMA DeleteHolds == IInv /\ Delete => IInv'
<1> SUFFICES ASSUME IInv, Delete PROVE IInv'
  OBVIOUS
<1>1. /\ pc = "overlay" /\ pc' = "overlay" /\ applied = {} /\ setValues = {}
      /\ UNCHANGED <<contents, next, schema, blocks, report, install, applied, setValues>>
  BY DEF IInv, RenderedInv, Delete
<1>2. PICK v \in DOMAIN variables \ overridden :
          /\ variables' = [w \in DOMAIN variables \ {v} |-> variables[w]]
          /\ overridden' = overridden \cup {v}
  BY DEF Delete
<1>3. TypeOK'
  BY <1>1, <1>2 DEF IInv, TypeOK
<1>4. WrittenInv'
  BY <1>1, WrittenStays DEF IInv
<1> QED
  BY <1>1, <1>3, <1>4 DEF IInv, DefaultsInv, RenderedInv

LEMMA RefuseHolds == IInv /\ Refuse => IInv'
<1> SUFFICES ASSUME IInv, Refuse PROVE IInv'
  OBVIOUS
<1>1. /\ pc = "overlay" /\ pc' = "refused"
      /\ UNCHANGED <<contents, next, variables, schema, blocks, report, install,
                     overridden, applied, setValues>>
  BY DEF Refuse
<1>2. WrittenInv'
  BY <1>1, WrittenStays DEF IInv
<1> QED
  BY <1>1, <1>2 DEF IInv, TypeOK, DefaultsInv, RenderedInv

LEMMA RenderHolds == IInv /\ Render => IInv'
<1> SUFFICES ASSUME IInv, Render PROVE IInv'
  OBVIOUS
<1>1. /\ pc = "overlay" /\ pc' = "rendered" /\ Valid
      /\ applied' = RenderedFields /\ setValues' = RenderedSetValues
      /\ UNCHANGED <<contents, next, variables, schema, blocks, report, install, overridden>>
  BY DEF Render
<1>2. \A s \in setValues' : s.profile \in install.profiles /\ s.text \in Texts
  BY <1>1, OverlayFacts DEF RenderedSetValues, IInv, TypeOK
<1>3. TypeOK'
  BY <1>1, <1>2 DEF IInv, TypeOK
<1>4. WrittenInv'
  BY <1>1, WrittenStays DEF IInv
<1>5. RenderedInv'
  BY <1>1, FieldsFrame DEF RenderedInv, Valid
<1> QED
  BY <1>1, <1>3, <1>4, <1>5 DEF IInv, DefaultsInv

LEMMA StutterHolds == IInv /\ UNCHANGED vars => IInv'
<1> SUFFICES ASSUME IInv, UNCHANGED vars PROVE IInv'
  OBVIOUS
<1>1. UNCHANGED <<contents, pc, next, variables, schema, blocks, report, install,
                  overridden, applied, setValues>>
  BY DEF vars
<1>2. WrittenInv'
  BY <1>1, WrittenStays DEF IInv, WrittenInv
<1>3. RenderedInv'
  BY <1>1, FieldsFrame DEF IInv, RenderedInv, Valid
<1> QED
  BY <1>1, <1>2, <1>3 DEF IInv, TypeOK, DefaultsInv, RefersTo

\* Every default is the last product's that refers to it, what is written is
\* what the contents give, and only accepted values are rendered.
THEOREM IInvCorrect == Spec => []IInv
<1>1. IInv /\ [Next]_vars => IInv'
  BY ResolveHolds, WriteHolds, InstallHolds, OverrideHolds, DeleteHolds, RefuseHolds,
     RenderHolds, StutterHolds DEF Next
<1> QED
  BY <1>1, InitHolds, PTL DEF Spec

\* Values, schema, blocks and rendered fields keep their kinds (values.yaml,
\* values.schema.json, the overrides and what Helm renders).
THEOREM TypeCorrect == Spec => []TypeOK
BY IInvCorrect, PTL DEF IInv

(***************************************************************************)
(* What is rendered.                                                       *)
(***************************************************************************)
\* A variable that passed the schema.
LEMMA AcceptedText ==
    ASSUME IInv, pc = "rendered", NEW v \in DOMAIN variables
    PROVE  /\ variables[v].text \in Texts \ (UncleanTexts \cup {Empty})
           /\ v \in UnquotedVariables => variables[v].text \notin RetypedTexts
<1> DEFINE value == variables[v]
<1>1. value \in Overlay /\ v \in DOMAIN schema /\ Accepts(schema[v], value)
  BY DEF IInv, TypeOK, RenderedInv, Valid
<1>2. schema[v] = VariableSchema(v, NumericVariables, UnquotedVariables)
  BY <1>1 DEF IInv, WrittenInv
<1>3. CASE value.json = "number"
  <2>1. value.text \in NumberTexts
    BY <1>1, <1>3, OverlayFacts
  <2> QED
    BY <2>1, ChartValuesAssumption DEF Texts, PlainTexts
<1>4. CASE value.json = "string"
  <2>1. value.text \in schema[v].pattern \ schema[v].not
    BY <1>1, <1>4 DEF Accepts
  <2>2. CASE v \in NumericVariables
    BY <1>2, <2>1, <2>2, ChartValuesAssumption DEF VariableSchema, Texts, PlainTexts
  <2>3. CASE v \notin NumericVariables
    BY <1>2, <2>1, <2>3 DEF VariableSchema, CleanTexts, Forbidden
  <2> QED
    BY <2>2, <2>3
<1> QED
  BY <1>1, <1>3, <1>4 DEF Accepts

\* The rules of a chart are rules of the products.
LEMMA RuleOfLayer ==
    ASSUME NEW layer, NEW n \in LayerRules(layer)
    PROVE  /\ n = <<n[1], n[2]>> /\ n[1] \in ToSet(Products)
           /\ n[2] \in DOMAIN contents[n[1]].rules
BY DEF LayerRules, HelmName, RulesWithFixes

\* Where a rendered field comes from.
LEMMA FieldOrigin ==
    ASSUME IInv, NEW a \in applied
    PROVE  /\ pc = "rendered"
           /\ \E ref \in References(contents[a.rule[1]].rules[a.rule[2]]) :
                  a.var = ref.var /\ a.form = ref.form /\ a.field = Field(ref.form, ref.var)
                      /\ (ref.form = "bare" => ref.var \in UnquotedVariables)
<1>1. pc = "rendered" /\ a \in RenderedFields
  BY DEF IInv, RenderedInv
<1>2. PICK n \in ActiveRules : \E fix \in ToSet(contents[n[1]].rules[n[2]].fixes) :
          \E ref \in fix.refs : a = [rule |-> n, var |-> ref.var, form |-> ref.form,
                                     field |-> Field(ref.form, ref.var)]
  BY <1>1 DEF RenderedFields
<1>7. PICK fix \in ToSet(contents[n[1]].rules[n[2]].fixes) : \E ref \in fix.refs :
          a = [rule |-> n, var |-> ref.var, form |-> ref.form, field |-> Field(ref.form, ref.var)]
  BY <1>2
<1>3. PICK ref \in fix.refs :
          a = [rule |-> n, var |-> ref.var, form |-> ref.form, field |-> Field(ref.form, ref.var)]
  BY <1>7
<1>4. ref \in References(contents[n[1]].rules[n[2]])
  BY <1>3 DEF References, ToSet
<1>5. n \in LayerRules(install.layer)
  <2>1. PICK f \in install.profiles : n \in blocks[install.layer].profileRules[f]
    BY DEF ActiveRules
  <2>2. install.layer \in Layers /\ f \in DOMAIN blocks[install.layer].profileRules
    BY <1>1, <2>1 DEF IInv, TypeOK
  <2>3. blocks[install.layer].profileRules = ProfileRules(install.layer)
    BY <1>1, <2>2 DEF IInv, WrittenInv, GeneratedMaps
  <2> QED
    BY <2>1, <2>2, <2>3 DEF ProfileRules
<1>6. ref.form = "bare" => ref.var \in UnquotedVariables
  BY <1>4, <1>5, RuleOfLayer DEF UnquotedVariables, Contents, UnquotedIn
<1> QED
  BY <1>1, <1>3, <1>4, <1>6

\* A field that LetThrough does not name holds the text of its variable.
LEMMA FieldHoldsText ==
    ASSUME IInv, NEW a \in applied, ~LetThrough(a)
    PROVE  LET t == variables[a.var].text
           IN  /\ t \in Texts \ (UncleanTexts \cup {Empty})
               /\ a.field.holds = t
               /\ IF a.form = "bare"
                  THEN /\ t \notin RetypedTexts \cup IndicatorTexts
                       /\ a.field.type = PlainType(t)
                  ELSE a.field.type = "string"
<1>1. PICK ref \in References(contents[a.rule[1]].rules[a.rule[2]]) :
          /\ a.var = ref.var /\ a.form = ref.form /\ a.field = Field(ref.form, ref.var)
          /\ ref.form = "bare" => ref.var \in UnquotedVariables
  BY FieldOrigin
<1> DEFINE t == variables[a.var].text
<1>2. a.var \in DOMAIN variables /\ (a.form = "bare" => t \notin IndicatorTexts)
  BY DEF LetThrough
<1>3. /\ t \in Texts \ (UncleanTexts \cup {Empty})
      /\ a.var \in UnquotedVariables => t \notin RetypedTexts
  BY <1>2, FieldOrigin, AcceptedText
<1>4. a.field = [holds |-> t, type |-> IF a.form = "bare" THEN PlainType(t) ELSE "string"]
  BY <1>1, <1>2, <1>3 DEF Field, Enc
<1> QED
  BY <1>1, <1>2, <1>3, <1>4

\* What passed the schema keeps its type, and is not cut.
LEMMA FieldsKeepType == IInv => FieldKeepsType
<1> SUFFICES ASSUME IInv, NEW a \in applied, ~LetThrough(a)
             PROVE  a.field.type \in {"number", "string"} /\ a.field.holds \notin {Truncated, Empty}
  BY DEF FieldKeepsType
<1> DEFINE t == variables[a.var].text
<1>1. /\ t \in Texts \ {Empty} /\ a.field.holds = t
      /\ IF a.form = "bare" THEN /\ t \notin RetypedTexts \cup IndicatorTexts
                                 /\ a.field.type = PlainType(t)
                            ELSE a.field.type = "string"
  BY FieldHoldsText
<1>2. t # Truncated /\ t # Empty
  BY <1>1, ChartValuesAssumption
<1>3. a.form = "bare" => PlainType(t) \in {"number", "string"}
  BY <1>1 DEF PlainType, IndicatorTexts
<1> QED
  BY <1>1, <1>2, <1>3

\* Whatever the user sets a variable to, a field that is neither without its
\* variable nor unquoted with a YAML indicator keeps its type, and no payload is
\* cut (values_schema).
THEOREM FieldKeepsTypeCorrect == Spec => []FieldKeepsType
BY IInvCorrect, FieldsKeepType, PTL

(***************************************************************************)
(* The scan.                                                               *)
(***************************************************************************)
\* Field and setValues read the same entry of variables.
LEMMA ScanAgrees == IInv => ScanChecksWhatIsApplied
<1> SUFFICES ASSUME IInv, pc = "rendered", NEW a \in applied, NEW f \in install.profiles,
                    a.rule \in blocks[install.layer].profileRules[f],
                    ~LetThrough(a)
             PROVE  Scanned(f, a.var) = a.field.holds
  BY DEF ScanChecksWhatIsApplied
<1> DEFINE v == a.var
           Entry == [profile |-> f, var |-> v, text |-> variables[v].text]
<1>1. PICK ref \in References(contents[a.rule[1]].rules[a.rule[2]]) :
          a.var = ref.var /\ a.field = Field(ref.form, ref.var)
  BY FieldOrigin
<1>2. v \in DOMAIN variables /\ a.field.holds = variables[v].text
  BY FieldHoldsText DEF LetThrough
<1>3. /\ install.layer \in Layers /\ f \in ProfilesOf(install.layer)
      /\ blocks[install.layer].profileRules = ProfileRules(install.layer)
      /\ blocks[install.layer].profileVariables = ProfileVariables(install.layer)
  <2>1. install.layer \in Layers /\ blocks[install.layer] = GeneratedMaps(install.layer)
    BY DEF IInv, TypeOK, WrittenInv
  <2>2. f \in DOMAIN blocks[install.layer].profileRules
    BY DEF IInv, TypeOK
  <2> QED
    BY <2>1, <2>2 DEF GeneratedMaps, ProfileRules
<1>4. v \in ProfileVariables(install.layer)[f]
  BY <1>1, <1>3 DEF ProfileVariables, UsedVariables, VariablesOf
<1>5. setValues = RenderedSetValues
  BY DEF IInv, RenderedInv
<1>6. Entry \in setValues
  BY <1>2, <1>3, <1>4, <1>5 DEF RenderedSetValues
<1>7. \A s \in setValues : s.profile = f /\ s.var = v => s.text = variables[v].text
  BY <1>5 DEF RenderedSetValues
<1> DEFINE Of(s) == s.profile = f /\ s.var = v
<1>8. \E s \in setValues : Of(s)
  BY <1>6
<1>9. (CHOOSE s \in setValues : Of(s)).text = variables[v].text
  <2> HIDE DEF Of
  <2>1. (CHOOSE s \in setValues : Of(s)) \in setValues /\ Of(CHOOSE s \in setValues : Of(s))
    BY <1>8
  <2> QED
    BY <1>7, <2>1 DEF Of
<1> QED
  BY <1>2, <1>8, <1>9 DEF Scanned

\* The setValues of the TailoredProfiles are the values of the rendered fields,
\* in every form of reference and for every override.
THEOREM ScanCorrect == Spec => []ScanChecksWhatIsApplied
BY IInvCorrect, ScanAgrees, PTL

(***************************************************************************)
(* Dependencies and offered values.                                        *)
(***************************************************************************)
\* What RuleDependencies leaves out is UnverifiableDependencies.
LEMMA Accounted == IInv => DependencyAccounted
<1> SUFFICES ASSUME IInv, pc # "resolve", NEW e \in Dependencies, e \notin report,
                    NEW layer \in Layers, e[1] \in LayerRules(layer)
             PROVE  e \in blocks[layer].ruleDependencies
  BY DEF DependencyAccounted
<1>1. blocks[layer].ruleDependencies = RuleDependencies(layer) /\ report = UnverifiableDependencies
  BY DEF IInv, WrittenInv, GeneratedMaps
<1>2. e[2] \in LayerRules(layer)
  BY <1>1 DEF UnverifiableDependencies
<1>3. PICK n, d : e = <<n, HelmName(n[1], d)>> /\ d \in contents[n[1]].rules[n[2]].dependsOn
  BY DEF Dependencies
<1>4. e \in LayerRules(layer) \X LayerRules(layer)
  BY <1>2, <1>3
<1> QED
  BY <1>1, <1>3, <1>4 DEF RuleDependencies, HelmName

\* rule_dependencies and unverifiable_dependencies leave no dependency out.
THEOREM DependencyCorrect == Spec => []DependencyAccounted
BY IInvCorrect, Accounted, PTL

\* A variable only one product refers to has that product's default and its
\* place in the schema.
LEMMA Unshared ==
    ASSUME IInv, pc = "written", NEW p \in ToSet(Products),
           NEW v \in ReferencedVariables(contents[p]),
           \A q \in ToSet(Products) \ {p} : v \notin ReferencedVariables(contents[q])
    PROVE  /\ variables[v] = YamlScalar(Resolve(contents[p], v))
           /\ schema[v] = VariableSchema(v, NumericVariables, UnquotedVariables)
           /\ v \in NumericVariables => v \in NumericIn(contents[p])
           /\ v \in UnquotedVariables => v \in UnquotedIn(contents[p])
<1>1. next = Len(Products) + 1
  BY DEF IInv, WrittenInv
<1>2. v \in DOMAIN variables
  BY <1>1, ProductRead DEF IInv, DefaultsInv
<1>3. PICK n \in 1..(next - 1) :
          RefersTo(n, v) /\ variables[v] = YamlScalar(Resolve(contents[Products[n]], v))
  BY <1>2 DEF IInv, DefaultsInv
<1>4. Products[n] = p
  BY <1>1, <1>3, ProductRead DEF RefersTo
<1>5. v \in DOMAIN schema
  BY <1>2 DEF IInv, TypeOK
<1>6. schema[v] = VariableSchema(v, NumericVariables, UnquotedVariables)
  BY <1>5 DEF IInv, WrittenInv
<1>7. v \in NumericVariables => v \in NumericIn(contents[p])
  <2> SUFFICES ASSUME NEW q \in ToSet(Products), v \in NumericIn(contents[q])
               PROVE  v \in NumericIn(contents[p])
    BY DEF NumericVariables, Contents
  <2>1. v \in ReferencedVariables(contents[q])
    BY DEF NumericIn
  <2> QED
    BY <2>1
<1>8. v \in UnquotedVariables => v \in UnquotedIn(contents[p])
  <2> SUFFICES ASSUME NEW q \in ToSet(Products), v \in UnquotedIn(contents[q])
               PROVE  v \in UnquotedIn(contents[p])
    BY DEF UnquotedVariables, Contents
  <2>1. v \in ReferencedVariables(contents[q])
    BY DEF UnquotedIn, ReferencedVariables, VariablesOf
  <2> QED
    BY <2>1
<1> QED
  BY <1>3, <1>4, <1>6, <1>7, <1>8

\* An option or a default is in the pattern its variable got.
LEMMA Offered == IInv => OfferedValuesAccepted
<1> SUFFICES ASSUME IInv, pc = "written", NEW p \in ToSet(Products),
                    NEW v \in ReferencedVariables(contents[p]) \ MissingValues(contents[p]),
                    \A q \in ToSet(Products) \ {p} : v \notin ReferencedVariables(contents[q])
             PROVE  LET c == contents[p]
                        value == c.values[FindValue(c, v)]
                        breaking == UncleanTexts \cup {Empty}
                                        \cup (IF v \in UnquotedIn(c) THEN RetypedTexts ELSE {})
                    IN  /\ \A t \in ToSet(value.options) \ breaking :
                               Accepts(schema[v], Text("string", t))
                        /\ variables[v].text \notin breaking => Accepts(schema[v], variables[v])
  BY DEF OfferedValuesAccepted
<1> DEFINE c == contents[p]
           value == c.values[FindValue(c, v)]
           breaking == UncleanTexts \cup {Empty}
                           \cup (IF v \in UnquotedIn(c) THEN RetypedTexts ELSE {})
           default == Resolve(c, v)
<1>1. /\ variables[v] = YamlScalar(default)
      /\ schema[v] = VariableSchema(v, NumericVariables, UnquotedVariables)
      /\ v \in NumericVariables => v \in NumericIn(c)
      /\ v \in UnquotedVariables => v \in UnquotedIn(c)
  BY Unshared
<1>2. contents \in Datastreams /\ FindValue(c, v) # "None"
  BY DEF IInv, MissingValues
<1>3. value.options \in Seq(Texts)
  BY <1>2, FoundValue
<1>4. default \in Texts
  BY <1>2, ResolveText
<1>5. v \in NumericVariables =>
          {value.options[s] : s \in DOMAIN value.options} \cup {default} \subseteq NumberTexts \cup {Empty}
  BY <1>1 DEF NumericIn
<1>6. ToSet(value.options) = {value.options[s] : s \in DOMAIN value.options}
      /\ ToSet(value.options) \subseteq Texts
  BY <1>3 DEF ToSet
<1> HIDE DEF value, default, c
<1>7. ASSUME NEW t \in (ToSet(value.options) \cup {default}) \ breaking
      PROVE  t \in schema[v].pattern \ schema[v].not
  <2>1. t \in Texts \ (UncleanTexts \cup {Empty})
    BY <1>4, <1>6, <1>7
  <2>2. CASE v \in NumericVariables
    <3>1. t \in NumberTexts
      BY <1>5, <1>6, <1>7, <2>1, <2>2
    <3> QED
      BY <1>1, <2>2, <3>1 DEF VariableSchema, Forbidden
  <2>3. CASE v \notin NumericVariables
    <3>1. v \in UnquotedVariables => t \notin RetypedTexts
      BY <1>1, <1>7
    <3> QED
      BY <1>1, <2>1, <2>3, <3>1 DEF VariableSchema, Forbidden, CleanTexts
  <2> QED
    BY <2>2, <2>3
<1>8. \A t \in ToSet(value.options) \ breaking : Accepts(schema[v], Text("string", t))
  BY <1>7 DEF Accepts, Text
<1>9. variables[v].text \notin breaking => Accepts(schema[v], variables[v])
  <2>1. variables[v].text = default
    BY <1>1 DEF YamlScalar, Text
  <2>2. variables[v].json \in {"string", "number"}
    BY <1>1, ChartValuesAssumption
       DEF YamlScalar, Text, NeedsQuote, PlainType, PlainTexts, IndicatorTexts
  <2> QED
    BY <1>7, <2>1, <2>2 DEF Accepts
<1> QED
  BY <1>8, <1>9 DEF value, c

\* The schema takes what upstream offers and the chart ships, for every variable
\* only one product has (values_schema against resolve_defaults).
THEOREM OfferedCorrect == Spec => []OfferedValuesAccepted
BY IInvCorrect, Offered, PTL
=============================================================================
