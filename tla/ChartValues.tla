----------------------------- MODULE ChartValues ------------------------------
(***************************************************************************)
(* The variables of a chart, from the XCCDF values of the two products to  *)
(* the fields the chart writes and the values its TailoredProfiles scan    *)
(* for: resolver.py's defaults, the variables, profileVariables and        *)
(* ruleDependencies blocks of values.yaml, the schema they are held to and *)
(* the overrides of one installation.                                      *)
(*                                                                         *)
(* A text is one of a few literals, classed by what YAML and a data: URI   *)
(* make of it.  Selectors are numbered in alphabetical order.  A product's *)
(* content gives                                                           *)
(*   values   id -> [type, default, options, first]: options a sequence by *)
(*            selector, first the selector read first                      *)
(*   profiles id -> [rules, refined]: refine-value, value id -> selector   *)
(*   rules    id -> [fixes, dependsOn]: a fix has the layer of its kind    *)
(*            and the references [var, form] to variables                  *)
(* A form says where a reference stands: "bare" in a YAML scalar, "quoted" *)
(* in one in quotes, "encoded" in an Ignition payload.                     *)
(***************************************************************************)
EXTENDS Naturals, Sequences, SequencesExt

CONSTANTS
    Products,     \* the products, in the order the generator reads them
    Datastreams,  \* the contents considered: product -> content
    Unprefixed,   \* name with "var_" -> name without
    NumberTexts, PercentTexts,  \* digits, digits and a %
    WordTexts,    \* neither retyped by YAML nor changed by an URI
    SpacedTexts,  \* with a space inside
    RetypedTexts, \* no, null, ~: a boolean or null when bare
    NullingTexts, \* &x, !!null: nothing but an anchor or a tag, null when bare
    CollectionTexts,  \* [a], {a: b}: a sequence or a mapping when bare
    UncleanTexts,  \* with a #, a quote or a backslash
    MaxOverrides   \* bound: variables one installation overrides

Empty == ""

\* Those that begin with a YAML indicator.
IndicatorTexts == NullingTexts \cup CollectionTexts

PlainTexts == NumberTexts \cup PercentTexts \cup WordTexts \cup SpacedTexts

Texts == PlainTexts \cup RetypedTexts \cup IndicatorTexts \cup UncleanTexts \cup {Empty}

\* What a cut or a deleted value leaves in an encoded payload.
Truncated == "truncated"
Nil == "<nil>"

Layers == {"platform", "node"}

ASSUME ChartValuesAssumption ==
    /\ MaxOverrides \in Nat
    /\ Products \in Seq(STRING)
    /\ Empty \notin PlainTexts \cup RetypedTexts \cup IndicatorTexts \cup UncleanTexts
    /\ {Truncated, Nil} \cap Texts = {}
    /\ RetypedTexts \cap PlainTexts = {}
    /\ IndicatorTexts \cap (PlainTexts \cup RetypedTexts \cup UncleanTexts) = {}
    /\ NullingTexts \cap CollectionTexts = {}
    /\ UncleanTexts \cap (NumberTexts \cup PercentTexts) = {}
    /\ \A d \in Datastreams : \A p \in ToSet(Products) : IsFiniteSet(DOMAIN d[p].profiles)
    /\ \A d \in Datastreams : \A p \in ToSet(Products) : \A id \in DOMAIN d[p].values :
           LET v == d[p].values[id] IN
           /\ v.default \in Texts \cup {"None"} /\ v.options \in Seq(Texts)
           /\ v.options # <<>> => v.first \in DOMAIN v.options

VARIABLES
    contents,  \* the datastreams generated from
    pc, next,  \* the step, and the product whose defaults are resolved next
    variables, \* values.yaml: variable -> value
    schema,    \* values.schema.json: variable -> what it takes
    blocks,    \* layer -> the generated maps of that chart's values.yaml
    report,    \* the dependencies the CLI reports
    install,   \* the chart and the profiles the user enables
    overridden,\* the variables the user overrides
    applied,   \* the fields the rendered chart writes
    setValues  \* the setValues of the rendered TailoredProfiles

vars == <<contents, pc, next, variables, schema, blocks, report, install,
          overridden, applied, setValues>>

-----------------------------------------------------------------------------
(* What the datastreams offer.                                             *)

\* Rules with at least one fix.
RulesWithFixes(c) == {r \in DOMAIN c.rules : c.rules[r].fixes # <<>>}

References(rule) == UNION {rule.fixes[i].refs : i \in DOMAIN rule.fixes}

VariablesOf(rule) == {ref.var : ref \in References(rule)}

ReferencedVariables(c) == UNION {VariablesOf(c.rules[r]) : r \in DOMAIN c.rules}

\* The id a variable's value has, "None" when there is none.
FindValue(c, name) ==
    IF name \in DOMAIN c.values THEN name
    ELSE IF name \in DOMAIN Unprefixed /\ Unprefixed[name] \in DOMAIN c.values
         THEN Unprefixed[name]
         ELSE "None"

\* The selector a profile refines a value to, by its id or by the variable's name.
Refinement(profile, id, name) ==
    IF id \in DOMAIN profile.refined THEN {profile.refined[id]}
    ELSE IF name \in DOMAIN profile.refined THEN {profile.refined[name]}
    ELSE {}

\* How many profiles ask for an option.
Asking(c, name, s) ==
    Cardinality({p \in DOMAIN c.profiles :
                     s \in Refinement(c.profiles[p], FindValue(c, name), name)})

BareDefault(v) ==
    IF v.default # "None" THEN v.default
    ELSE IF v.options # <<>> THEN v.options[v.first]
    ELSE Empty

\* The default of one variable; the generator names no default profile.
Resolve(c, name) ==
    IF FindValue(c, name) = "None" THEN Empty
    ELSE LET v == c.values[FindValue(c, name)]
             asked == {s \in DOMAIN v.options : Asking(c, name, s) > 0}
             best == CHOOSE s \in asked : \A t \in asked \ {s} :
                         \/ Asking(c, name, s) > Asking(c, name, t)
                         \/ Asking(c, name, s) = Asking(c, name, t) /\ s < t
         IN  IF asked # {} THEN v.options[best] ELSE BareDefault(v)

MissingValues(c) == {v \in ReferencedVariables(c) : FindValue(c, v) = "None"}

\* Fault: the declared type alone.
DeclaredNumeric(c) ==
    {v \in ReferencedVariables(c) \ MissingValues(c) :
        c.values[FindValue(c, v)].type = "number"}

\* The variables declared as numbers whose options are digits.
NumericIn(c) ==
    {v \in ReferencedVariables(c) \ MissingValues(c) :
        LET value == c.values[FindValue(c, v)] IN
        /\ value.type = "number"
        /\ {value.options[s] : s \in DOMAIN value.options} \cup {Resolve(c, v)}
               \subseteq NumberTexts \cup {Empty}}

UnquotedIn(c) ==
    {ref.var : ref \in {f \in UNION {References(c.rules[r]) : r \in DOMAIN c.rules} :
                            f.form = "bare"}}

-----------------------------------------------------------------------------
(* What the generator writes.                                              *)

Contents == {contents[p] : p \in ToSet(Products)}

NumericVariables == UNION {NumericIn(c) : c \in Contents}
UnquotedVariables == UNION {UnquotedIn(c) : c \in Contents}

\* A rule goes to the chart of its first fix.
RuleLayer(rule) == rule.fixes[1].layer

HelmName(p, r) == <<p, r>>

LayerRules(layer) ==
    UNION {{HelmName(p, r) : r \in {q \in RulesWithFixes(contents[p]) :
                                       RuleLayer(contents[p].rules[q]) = layer}} :
           p \in ToSet(Products)}

ProfilesOf(layer) ==
    UNION {{f \in DOMAIN contents[p].profiles :
               \E r \in contents[p].profiles[f].rules : HelmName(p, r) \in LayerRules(layer)} :
           p \in ToSet(Products)}

\* Profile keys carry their product, so a profile is in one content.
ProductOf(f) == CHOOSE p \in ToSet(Products) : f \in DOMAIN contents[p].profiles
ProfileOf(f) == contents[ProductOf(f)].profiles[f]

ProfileRules(layer) ==
    [f \in ProfilesOf(layer) |->
        {HelmName(ProductOf(f), r) : r \in ProfileOf(f).rules} \cap LayerRules(layer)]

\* Fault: only the plain references.
PlainVariables(rule) == {ref.var : ref \in {f \in References(rule) : f.form # "encoded"}}

UsedVariables(rule) == VariablesOf(rule)

ProfileVariables(layer) ==
    [f \in ProfilesOf(layer) |->
        UNION {UsedVariables(contents[n[1]].rules[n[2]]) : n \in ProfileRules(layer)[f]}]

\* The dependencies a chart checks: pairs of a rule and one it requires.
RuleDependencies(layer) ==
    {e \in LayerRules(layer) \X LayerRules(layer) :
        e[1][1] = e[2][1] /\ e[2][2] \in contents[e[1][1]].rules[e[1][2]].dependsOn}

GeneratedMaps(layer) ==
    [profileRules |-> ProfileRules(layer),
     profileVariables |-> ProfileVariables(layer),
     ruleDependencies |-> RuleDependencies(layer)]

Dependencies ==
    UNION {{<<n, HelmName(n[1], d)>> : d \in contents[n[1]].rules[n[2]].dependsOn} :
           n \in UNION {LayerRules(layer) : layer \in Layers}}

\* Fault: a dependency in the other chart taken for one that is checked.
NotEmitted ==
    {e \in Dependencies : e[2] \notin UNION {LayerRules(layer) : layer \in Layers}}

\* Those no chart checks: not emitted, or emitted in the other chart.
UnverifiableDependencies ==
    {e \in Dependencies :
        \/ e[2] \notin UNION {LayerRules(layer) : layer \in Layers}
        \/ \E layer \in Layers : e[1] \in LayerRules(layer) /\ e[2] \notin LayerRules(layer)}

-----------------------------------------------------------------------------
(* What Helm reads: a value has a JSON type and a text.                    *)

Text(json, t) == [json |-> json, text |-> t]

\* The JSON type of a text written bare into a YAML file.
PlainType(t) == IF t \in NumberTexts THEN "number"
                ELSE IF t \in RetypedTexts THEN "boolean"
                ELSE IF t \in NullingTexts \cup {Empty} THEN "null"
                ELSE IF t \in CollectionTexts THEN "collection"
                ELSE "string"

\* Fault: the text is written as it is.
NeverQuotes(t) == FALSE

NeedsQuote(t) == t \notin WordTexts \cup SpacedTexts

\* A default as values.yaml holds it.
YamlScalar(t) == Text(IF NeedsQuote(t) THEN "string" ELSE PlainType(t), t)

\* What an overlay may hold, null apart.
Overlay == {Text("string", t) : t \in Texts} \cup {Text("number", t) : t \in NumberTexts}
               \cup {Text("boolean", t) : t \in RetypedTexts}

CleanTexts == Texts \ (UncleanTexts \cup {Empty})

\* Fault: the tokens YAML retypes are accepted anywhere.
NothingForbidden(v, numeric, unquoted) == {}

Forbidden(v, numeric, unquoted) ==
    IF v \in unquoted \ numeric THEN RetypedTexts ELSE {}

VariableSchema(v, numeric, unquoted) ==
    [pattern |-> IF v \in numeric THEN NumberTexts \cup PercentTexts ELSE CleanTexts,
     not |-> Forbidden(v, numeric, unquoted)]

\* JSON Schema: a pattern says nothing of a number.
Accepts(s, value) ==
    /\ value.json \in {"string", "number"}
    /\ value.json = "string" => value.text \in s.pattern \ s.not

-----------------------------------------------------------------------------
(* What a rendered field holds.                                            *)

\* Fault: the value is put into the data: URI as it is.
NoEnc(t) == IF t \in SpacedTexts \cup PercentTexts THEN Truncated ELSE t

\* cr.enc, decoded by Ignition: the text again.
Enc(t) == t

\* The field a reference writes; the variable may have been deleted.  A null or
\* a collection holds no text.
Field(form, v) ==
    IF v \notin DOMAIN variables
    THEN [holds |-> IF form = "encoded" THEN Nil ELSE Empty,
          type |-> IF form = "bare" THEN "null" ELSE "string"]
    ELSE LET t == variables[v].text IN
         [holds |-> IF t \in UncleanTexts THEN Truncated
                    ELSE IF form = "encoded" THEN Enc(t)
                    ELSE IF form = "bare" /\ t \in IndicatorTexts THEN Empty
                    ELSE t,
          type |-> IF form = "bare" THEN PlainType(t) ELSE "string"]

\* Rules of the installed chart that an enabled profile selects.
ActiveRules == UNION {blocks[install.layer].profileRules[f] : f \in install.profiles}

RenderedFields ==
    UNION {UNION {{[rule |-> n, var |-> ref.var, form |-> ref.form,
                    field |-> Field(ref.form, ref.var)] : ref \in fix.refs} :
                  fix \in {g \in ToSet(contents[n[1]].rules[n[2]].fixes) :
                               g.layer = install.layer}} :
           n \in ActiveRules}

RenderedSetValues ==
    UNION {{[profile |-> f, var |-> v, text |-> variables[v].text] :
               v \in blocks[install.layer].profileVariables[f] \cap DOMAIN variables} :
           f \in install.profiles}

-----------------------------------------------------------------------------
(* One generation, one installation.                                       *)

NoInstall == [layer |-> "none", profiles |-> {}]

Init ==
    /\ contents \in Datastreams
    /\ pc = "resolve" /\ next = 1
    /\ variables = <<>> /\ schema = <<>> /\ blocks = <<>>
    /\ report = {} /\ install = NoInstall /\ overridden = {}
    /\ applied = {} /\ setValues = {}

\* _variables_block: the defaults of one more product, over those before.
ResolveDefaults ==
    /\ pc = "resolve" /\ next <= Len(Products)
    /\ LET c == contents[Products[next]]
           resolved == ReferencedVariables(c)
       IN  variables' = [v \in DOMAIN variables \cup resolved |->
                            IF v \in resolved THEN YamlScalar(Resolve(c, v))
                            ELSE variables[v]]
    /\ next' = next + 1
    /\ UNCHANGED <<contents, pc, schema, blocks, report, install, overridden,
                   applied, setValues>>

\* Both charts' values.yaml and values.schema.json, and the CLI's report.
WriteValues ==
    /\ pc = "resolve" /\ next > Len(Products)
    /\ schema' = [v \in DOMAIN variables |-> VariableSchema(v, NumericVariables, UnquotedVariables)]
    /\ blocks' = [layer \in Layers |-> GeneratedMaps(layer)]
    /\ report' = UnverifiableDependencies
    /\ pc' = "written"
    /\ UNCHANGED <<contents, next, variables, install, overridden, applied, setValues>>

\* The user takes one chart and enables profiles of it, and tailoredProfile.
Install ==
    /\ pc = "written"
    /\ \E layer \in Layers : \E fs \in SUBSET DOMAIN blocks[layer].profileRules :
           install' = [layer |-> layer, profiles |-> fs]
    /\ pc' = "overlay"
    /\ UNCHANGED <<contents, next, variables, schema, blocks, report, overridden,
                   applied, setValues>>

\* The overlay sets a variable; one the chart does not know is refused.
Override ==
    /\ pc = "overlay" /\ Cardinality(overridden) < MaxOverrides
    /\ \E v \in DOMAIN variables \ overridden, value \in Overlay :
           /\ variables' = [variables EXCEPT ![v] = value]
           /\ overridden' = overridden \cup {v}
    /\ UNCHANGED <<contents, pc, next, schema, blocks, report, install, applied,
                   setValues>>

\* null in an overlay deletes the key before the schema is consulted.
Delete ==
    /\ pc = "overlay" /\ Cardinality(overridden) < MaxOverrides
    /\ \E v \in DOMAIN variables \ overridden :
           /\ variables' = [w \in DOMAIN variables \ {v} |-> variables[w]]
           /\ overridden' = overridden \cup {v}
    /\ UNCHANGED <<contents, pc, next, schema, blocks, report, install, applied,
                   setValues>>

Valid == \A v \in DOMAIN variables : Accepts(schema[v], variables[v])

\* Helm refuses the values.
Refuse ==
    /\ pc = "overlay" /\ ~Valid
    /\ pc' = "refused"
    /\ UNCHANGED <<contents, next, variables, schema, blocks, report, install,
                   overridden, applied, setValues>>

\* Helm renders the objects and the TailoredProfiles of the chart.
Render ==
    /\ pc = "overlay" /\ Valid
    /\ applied' = RenderedFields
    /\ setValues' = RenderedSetValues
    /\ pc' = "rendered"
    /\ UNCHANGED <<contents, next, variables, schema, blocks, report, install,
                   overridden>>

Next == ResolveDefaults \/ WriteValues \/ Install \/ Override \/ Delete \/ Refuse \/ Render

Spec == Init /\ [][Next]_vars

-----------------------------------------------------------------------------
(* Properties.                                                             *)

\* Values, schema, blocks and rendered fields are of their kinds; the schema
\* knows every variable there is and no deleted one is without its entry.
TypeOK ==
    /\ pc \in {"resolve", "written", "overlay", "refused", "rendered"}
    /\ next \in 1..(Len(Products) + 1)
    /\ \A v \in DOMAIN variables : variables[v] \in Overlay
    /\ pc # "resolve" => DOMAIN variables \cup overridden = DOMAIN schema
    /\ overridden \subseteq DOMAIN schema
    /\ pc \in {"overlay", "refused", "rendered"} =>
           /\ install.layer \in Layers
           /\ install.profiles \subseteq DOMAIN blocks[install.layer].profileRules
    /\ \A s \in setValues : s.profile \in install.profiles /\ s.text \in Texts

\* The value the operator scans for: the TailoredProfile's, or the profile's own.
Scanned(f, v) ==
    IF \E s \in setValues : s.profile = f /\ s.var = v
    THEN (CHOOSE s \in setValues : s.profile = f /\ s.var = v).text
    ELSE LET c == contents[ProductOf(f)]
             id == FindValue(c, v)
             chosen == Refinement(ProfileOf(f), id, v)
         IN  IF id = "None" THEN "None"
             ELSE IF chosen # {} THEN c.values[id].options[CHOOSE s \in chosen : TRUE]
             ELSE BareDefault(c.values[id])

\* A field whose variable is deleted, or unquoted and given a text that begins
\* with a YAML indicator: RetypingRefused is about these.
LetThrough(a) ==
    \/ a.var \notin DOMAIN variables
    \/ a.form = "bare" /\ variables[a.var].text \in IndicatorTexts

\* With tailoredProfile enabled, the scan of a profile compares every field the
\* chart writes for the profile's rules with the very value the chart wrote,
\* whichever product the variable came from, in whichever form it stands and
\* whatever the user sets it to (README "The rendered TailoredProfile setValues
\* use the same global values"), the fields of LetThrough apart.
ScanChecksWhatIsApplied ==
    pc = "rendered" =>
        \A a \in applied : \A f \in install.profiles :
            /\ a.rule \in blocks[install.layer].profileRules[f]
            /\ ~LetThrough(a)
            => Scanned(f, a.var) = a.field.holds

\* Deletion and indicators are the only ways past the schema: every other field
\* keeps its type, is not empty, and cuts no configuration file short, whatever
\* the user sets its variable to (values_schema's pattern and its list of what
\* YAML retypes).
FieldKeepsType ==
    \A a \in applied :
        ~LetThrough(a) => /\ a.field.type \in {"number", "string"}
                          /\ a.field.holds \notin {Truncated, Empty}

\* values_schema says the values that change the YAML type of an unquoted field
\* are forbidden, null and the texts beginning with an indicator included: "the
\* control is simply not implemented".
RetypingRefused == \A a \in applied : a.field.type \in {"number", "string"}

\* A variable only one product has: the schema takes every option upstream
\* offers for it and the default the chart ships, but a text that would break
\* the YAML or change the type of a bare field.
OfferedValuesAccepted ==
    pc = "written" =>
        \A p \in ToSet(Products) :
            LET c == contents[p] IN
            \A v \in ReferencedVariables(c) \ MissingValues(c) :
                (\A q \in ToSet(Products) \ {p} : v \notin ReferencedVariables(contents[q])) =>
                    LET value == c.values[FindValue(c, v)]
                        breaking == UncleanTexts \cup {Empty}
                                        \cup (IF v \in UnquotedIn(c) THEN RetypedTexts ELSE {})
                    IN  /\ \A t \in ToSet(value.options) \ breaking :
                               Accepts(schema[v], Text("string", t))
                        /\ variables[v].text \notin breaking => Accepts(schema[v], variables[v])

\* Every dependency of a rule a chart emits is in that chart's
\* ruleDependencies, where its preflight finds it, or in the CLI's report.
DependencyAccounted ==
    pc # "resolve" =>
        \A e \in Dependencies :
            \/ e \in report
            \/ \A layer \in Layers : e[1] \in LayerRules(layer) =>
                   e \in blocks[layer].ruleDependencies

-----------------------------------------------------------------------------
(* Why they hold.                                                          *)

\* The product is one of the n read so far and refers to the variable.
RefersTo(n, v) == v \in ReferencedVariables(contents[Products[n]])

\* Every variable has the default of the last product read that refers to it.
DefaultsInv ==
    pc \in {"resolve", "written"} =>
        /\ overridden = {}
        /\ \A n \in 1..(next - 1) : ReferencedVariables(contents[Products[n]]) \subseteq DOMAIN variables
        /\ \A v \in DOMAIN variables : \E n \in 1..(next - 1) :
               /\ RefersTo(n, v) /\ \A k \in (n + 1)..(next - 1) : ~RefersTo(k, v)
               /\ variables[v] = YamlScalar(Resolve(contents[Products[n]], v))

\* What is written is what all products together give, and stays so.
WrittenInv ==
    pc # "resolve" =>
        /\ next = Len(Products) + 1
        /\ schema = [v \in DOMAIN schema |->
                       VariableSchema(v, NumericVariables, UnquotedVariables)]
        /\ blocks = [layer \in Layers |-> GeneratedMaps(layer)]
        /\ report = UnverifiableDependencies

\* Only accepted values are rendered, and a chart renders nothing else.
RenderedInv ==
    IF pc = "rendered" THEN Valid /\ applied = RenderedFields /\ setValues = RenderedSetValues
                       ELSE applied = {} /\ setValues = {}

IInv == TypeOK /\ contents \in Datastreams /\ DefaultsInv /\ WrittenInv /\ RenderedInv
=============================================================================
