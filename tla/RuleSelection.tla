---------------------------- MODULE RuleSelection ----------------------------
(***************************************************************************)
(* Which rules a chart applies.  The generator ships values.yaml with some *)
(* rules switched off, overlays per architecture and for hosted clusters,  *)
(* and a preflight (emit.py).  Helm merges the user's files over it, and   *)
(* the preflight refuses the selections that must not reach a cluster.     *)
(*                                                                         *)
(* One layer's chart.  A render aborts at the first refusal; the order of  *)
(* preflight.yaml and of the objects' own guards is Helm's, and left open. *)
(***************************************************************************)
EXTENDS Integers, Sequences, FiniteSets

CONSTANTS
    Rules,      \* fix-carrying rules of the layer
    Profiles,
    Archs,      \* applicability.ARCHITECTURES
    Spellings,  \* the values cluster.architecture may have
    Canonical,  \* cr.arch: spelling -> architecture
    Default,    \* DEFAULT_ARCHITECTURE
    Versions,   \* cluster.ocpVersion values
    DefaultVersion,  \* DEFAULT_OCP_VERSION
    Rank,       \* order of rules by _WINNER_PREFERENCE, then by name
    Contents,   \* the content releases considered
    UserFiles,  \* the users' values files considered
    Commands    \* the lists of -f arguments considered

Setting == {"on", "off", "unset"}
Flag    == {"true", "false", "unset"}

\* A file a MachineConfig of the rule writes, in the versions of its fix.
Write == [rule : Rules, object : STRING, path : STRING, source : STRING,
          window : SUBSET Versions]

\* A fragment of the template of an object: a variant of a rule's fix, with the
\* versions it is for.
Fragment == [rule : Rules, object : STRING, window : SUBSET Versions]

Content == [layer : {"platform", "node"},
            fragments : SUBSET Fragment,
            selects : [Profiles -> SUBSET Rules],     \* profileRules
            alternatives : SUBSET (SUBSET Rules),     \* conflicts inside an object
            writes : SUBSET Write,                    \* _file_entries of the fixes
            depends : [Rules -> SUBSET Rules],        \* rule_dependencies
            archs : [Rules -> SUBSET Archs],          \* constraints["arch"]
            hosted : [Rules -> SUBSET BOOLEAN],       \* constraints["hypershift"]
            never : SUBSET Rules, optIn : SUBSET Rules, broken : SUBSET Rules]

ValuesFile == [profiles : SUBSET Profiles, rules : [Rules -> Setting],
               arch : Spellings \cup {"unset"}, hosted : Flag,
               enabled : Flag]                        \* node.enabled

UserFile == [file : ValuesFile, version : Versions]

\* A values file on the command line: the user's, or an overlay of the chart.
Overlays == Archs \cup {"hypershift"}

ASSUME SelectionAssumption ==
    /\ Archs \subseteq Spellings
    /\ "unset" \notin Spellings
    /\ Default \in Archs
    /\ DefaultVersion \in Versions
    /\ {"hypershift", "user"} \cap Archs = {}
    /\ Canonical \in [Spellings -> Archs]
    /\ \A arch \in Archs : Canonical[arch] = arch
    /\ Rank \in [Rules -> Nat]
    /\ \A c \in Contents : c \in Content
    /\ UserFiles \subseteq UserFile
    /\ Commands \subseteq Seq(Overlays \cup {"user"})

VARIABLES
    content,   \* the release the charts are generated from
    shipped,   \* the rules values.yaml switches off
    overlays,  \* what each overlay switches off; {} when the file does not exist
    guards,    \* the paths the preflight has a guard for
    user,      \* the user's values file of this render
    command,   \* its -f arguments
    loaded,    \* how many of them Helm has merged
    values,    \* .Values, as merged so far
    pc, outcome, hint,
    applied,   \* the rules of which the render contains a fragment
    scanned    \* the rules the rendered TailoredProfiles scan

chart  == <<content, shipped, overlays, guards>>
render == <<user, command, loaded, values>>
result == <<applied, scanned>>
vars == <<chart, render, pc, outcome, hint, result>>

-----------------------------------------------------------------------------
(***************************************************************************)
(* Generation.                                                             *)
(***************************************************************************)
Selections(r) == Cardinality({p \in Profiles : r \in content.selects[p]})

\* rank() of default_disabled_rules: most selected, then preferred.
RanksBefore(r, s) == \/ Selections(r) > Selections(s)
                     \/ Selections(r) = Selections(s) /\ Rank[r] <= Rank[s]

Winner(C) == CHOOSE w \in C : \A s \in C : RanksBefore(w, s)

Losers == {r \in Rules : \E C \in content.alternatives : r \in C /\ r # Winner(C)}

\* Fault: a broken rule that is not an alternative ships enabled.
ShipBroken == Losers \cup content.never \cup content.optIn

\* What values_yaml switches off.
DefaultDisabled == Losers \cup content.never \cup content.optIn \cup content.broken

\* _disabled_with_category, the union RULES.md is computed from.
DisabledWithCategory ==
    {r \in Rules : \/ r \in Losers \/ r \in content.never
                   \/ r \in content.optIn \/ r \in content.broken}

ExcludedOnHypershift ==
    {r \in Rules \ content.never : TRUE \notin content.hosted[r]}

\* Fault: every overlay excludes what the default architecture does.
ExcludedForDefault(arch) == {r \in Rules \ content.never : Default \notin content.archs[r]}

ExcludedForArch(arch) == {r \in Rules \ content.never : arch \notin content.archs[r]}

\* Fault: no overlay for the default architecture.
OtherArchitectures == [o \in Overlays |->
    IF o = "hypershift" THEN ExcludedOnHypershift
    ELSE IF o = Default THEN {} ELSE ExcludedForArch(o)]

OverlayFiles == [o \in Overlays |->
    IF o = "hypershift" THEN ExcludedOnHypershift ELSE ExcludedForArch(o)]

WritesTo(path) == {w \in content.writes : w.path = path}

\* cross_object_file_conflicts: two contents, two rules, two objects.
CrossObjectPaths ==
    {path \in {w.path : w \in content.writes} :
        /\ \E v, w \in WritesTo(path) : v.source # w.source
        /\ \E v, w \in WritesTo(path) : v.rule # w.rule
        /\ \E v, w \in WritesTo(path) : v.object # w.object}

-----------------------------------------------------------------------------
(***************************************************************************)
(* The coverage section of RULES.md.                                       *)
(***************************************************************************)
\* A later category overwrites an earlier one: alternative, not applicable,
\* opt-in, broken.
NotApplicableCategory == content.never \ (content.optIn \cup content.broken)

\* Fault: the rules that write a path alike count as each other's alternatives.
EveryPath == CrossObjectPaths

\* A path of two objects counts as a choice when each content has one rule.
PairwisePaths ==
    {path \in CrossObjectPaths : \A v, w \in WritesTo(path) : v.source = w.source => v.rule = w.rule}

\* _alternatives_of
Alternatives(r) ==
    ((UNION {C \in content.alternatives : r \in C})
        \cup (UNION {{w.rule : w \in WritesTo(path)} :
                         path \in {q \in PairwisePaths : \E w \in WritesTo(q) : w.rule = r}})) \ {r}

Remediated(p) == content.selects[p] \ DisabledWithCategory

\* still_open of profile_coverage
OpenRules(p) ==
    {r \in content.selects[p] \cap DisabledWithCategory :
        r \notin NotApplicableCategory /\ Alternatives(r) \cap Remediated(p) = {}}

-----------------------------------------------------------------------------
NoValues == [profiles |-> {}, rules |-> [r \in Rules |-> "unset"],
             arch |-> Default, hosted |-> "false", enabled |-> "false"]

NoUser == [file |-> [profiles |-> {}, rules |-> [r \in Rules |-> "unset"],
                     arch |-> "unset", hosted |-> "unset", enabled |-> "unset"],
           version |-> DefaultVersion]

Init ==
    /\ content \in Contents
    /\ shipped = {}
    /\ overlays = [o \in Overlays |-> {}]
    /\ guards = {}
    /\ user = NoUser
    /\ command = <<>>
    /\ loaded = 0
    /\ values = NoValues
    /\ pc = "generate"
    /\ outcome = "none"
    /\ hint = "none"
    /\ applied = {}
    /\ scanned = {}

\* _write_layer_chart: values.yaml, preflight.yaml and the overlays.
Generate ==
    /\ pc = "generate"
    /\ shipped' = DefaultDisabled
    /\ guards' = CrossObjectPaths
    /\ overlays' = OverlayFiles
    /\ pc' = "ready"
    /\ UNCHANGED <<content, render, outcome, hint, result>>

-----------------------------------------------------------------------------
(***************************************************************************)
(* Helm merges the values.                                                 *)
(***************************************************************************)
SwitchedOff(S) == [r \in Rules |-> IF r \in S THEN "off" ELSE "unset"]

\* _arch_overlay and _hypershift_overlay: the fact, and the rules it excludes.
FileOf(f) ==
    IF f = "user" THEN user.file
    ELSE [profiles |-> {}, rules |-> SwitchedOff(overlays[f]),
          arch |-> IF f \in Archs THEN f ELSE "unset",
          hosted |-> IF f = "hypershift" THEN "true" ELSE "unset",
          enabled |-> "unset"]

\* Fault: a file that leaves a value out unsets it.
Replace(old, new) == new

Coalesce(old, new) == IF new = "unset" THEN old ELSE new

Merge(v, f) ==
    [profiles |-> v.profiles \cup f.profiles,
     rules  |-> [r \in Rules |-> Coalesce(v.rules[r], f.rules[r])],
     arch   |-> Coalesce(v.arch, f.arch),
     hosted |-> Coalesce(v.hosted, f.hosted),
     enabled |-> Coalesce(v.enabled, f.enabled)]

\* helm template, with overlays that exist in the chart.
StartRender(u, args) ==
    /\ pc = "ready"
    /\ \A i \in DOMAIN args : args[i] # "user" => overlays[args[i]] # {}
    /\ user' = u
    /\ command' = args
    /\ loaded' = 0
    /\ values' = [NoValues EXCEPT !.rules = SwitchedOff(shipped)]
    /\ pc' = "load"
    /\ UNCHANGED <<chart, outcome, hint, result>>

LoadFile ==
    /\ pc = "load"
    /\ loaded < Len(command)
    /\ values' = Merge(values, FileOf(command[loaded + 1]))
    /\ loaded' = loaded + 1
    /\ UNCHANGED <<chart, user, command, pc, outcome, hint, result>>

FilesLoaded ==
    /\ pc = "load"
    /\ loaded = Len(command)
    /\ pc' = "applicability"
    /\ UNCHANGED <<chart, render, outcome, hint, result>>

-----------------------------------------------------------------------------
(***************************************************************************)
(* The preflight.                                                          *)
(***************************************************************************)
\* cr.ruleActive
RuleActive(v, r) ==
    IF v.rules[r] # "unset" THEN v.rules[r] = "on"
    ELSE \E p \in v.profiles : r \in content.selects[p]

Active == {r \in Rules : RuleActive(values, r)}

OnHypershift == values.hosted = "true"

\* Why cr.applicabilityPreflight refuses a rule.
Reason(r) ==
    IF r \in content.never THEN "never"
    ELSE IF Canonical[values.arch] \notin content.archs[r] THEN "arch"
    ELSE IF OnHypershift \notin content.hosted[r] THEN "hosted"
    ELSE "none"

NotApplicable == {r \in Active : Reason(r) # "none"}

Hint == IF \E r \in Active : Reason(r) = "arch" THEN "arch"
        ELSE IF OnHypershift /\ (\E r \in Active : Reason(r) = "hosted") THEN "hypershift"
        ELSE "none"

\* Fault: the dependencies are checked in the wrong direction.
DependentInactive == {d \in Active : \E r \in Rules : d \in content.depends[r] /\ r \notin Active}

DependencyUnmet == {r \in Active : ~ (content.depends[r] \subseteq Active)}

\* Fault: the guard ignores the version windows.
AllWindowsOpen(path) == TRUE

\* The guard's version constraints, those of every fragment, are ANDed.
WindowsOpen(path) == \A w \in WritesTo(path) : user.version \in w.window

\* A guard fires when every content of the path has an active rule.
GuardFires(path) ==
    /\ \A w \in WritesTo(path) : \E v \in WritesTo(path) :
            v.source = w.source /\ v.rule \in Active
    /\ WindowsOpen(path)

Refuse(why) == /\ outcome' = why
               /\ pc' = "done"
               /\ UNCHANGED <<chart, render, result>>

Proceed(from, to) == /\ pc = from
                     /\ pc' = to
                     /\ UNCHANGED <<chart, render, outcome, hint, result>>

ApplicabilityPreflight ==
    \/ /\ pc = "applicability" /\ NotApplicable # {}
       /\ hint' = Hint
       /\ Refuse("notApplicable")
    \/ NotApplicable = {} /\ Proceed("applicability", "dependencies")

DependencyPreflight ==
    \/ /\ pc = "dependencies" /\ DependencyUnmet # {}
       /\ Refuse("dependency") /\ UNCHANGED hint
    \/ DependencyUnmet = {} /\ Proceed("dependencies", "broken")

BrokenPreflight ==
    \/ /\ pc = "broken" /\ Active \cap content.broken # {}
       /\ Refuse("broken") /\ UNCHANGED hint
    \/ Active \cap content.broken = {} /\ Proceed("broken", "files")

FilePreflight ==
    \/ /\ pc = "files" /\ \E path \in guards : GuardFires(path)
       /\ Refuse("files") /\ UNCHANGED hint
    \/ ~ (\E path \in guards : GuardFires(path)) /\ Proceed("files", "objects")

\* The objects' own templates render nothing of the node chart by default; the
\* checks before them do not ask.
ObjectsOn == content.layer = "platform" \/ values.enabled = "true"

AlternativesMeet == \E C \in content.alternatives : \E r, s \in C \cap Active : r # s

FragmentsOf(object) == {f \in content.fragments : f.object = object}

\* The fragments the templates merge at this version.
Merged == {f \in content.fragments : f.rule \in Active /\ user.version \in f.window}

\* "No remediation applies": an object with an active rule, and no fragment.
EmptyObject ==
    \E f \in content.fragments :
        f.rule \in Active /\ FragmentsOf(f.object) \cap Merged = {}

\* The objects' own guards.
ObjectGuards ==
    /\ pc \in {"applicability", "dependencies", "broken", "files", "objects"}
    /\ ObjectsOn
    /\ \/ AlternativesMeet /\ Refuse("alternatives")
       \/ EmptyObject /\ Refuse("noVariant")
    /\ UNCHANGED hint

\* Fault: the scan follows the shipped values, not the user's.
DisabledAsShipped(p) == content.selects[p] \cap shipped

\* disableRules of the TailoredProfile of p.
DisableRules(p) == {r \in content.selects[p] : values.rules[r] = "off"}

Emit ==
    /\ pc = "objects"
    /\ ObjectsOn => ~ AlternativesMeet /\ ~ EmptyObject
    /\ applied' = IF ObjectsOn THEN {f.rule : f \in Merged} ELSE {}
    /\ scanned' = UNION {content.selects[p] \ DisableRules(p) : p \in values.profiles}
    /\ outcome' = "rendered"
    /\ pc' = "done"
    /\ UNCHANGED <<chart, render, hint>>

\* Helm exits; the next render starts from the chart alone.
Exit ==
    /\ pc = "done"
    /\ user' = NoUser /\ command' = <<>> /\ loaded' = 0 /\ values' = NoValues
    /\ outcome' = "none" /\ hint' = "none"
    /\ applied' = {} /\ scanned' = {}
    /\ pc' = "ready"
    /\ UNCHANGED chart

Next ==
    \/ Generate
    \/ \E u \in UserFiles, args \in Commands : StartRender(u, args)
    \/ LoadFile
    \/ FilesLoaded
    \/ ApplicabilityPreflight
    \/ DependencyPreflight
    \/ BrokenPreflight
    \/ FilePreflight
    \/ ObjectGuards
    \/ Emit
    \/ Exit

Spec == Init /\ [][Next]_vars

-----------------------------------------------------------------------------
(***************************************************************************)
(* Properties.                                                             *)
(***************************************************************************)
Checks == {"applicability", "dependencies", "broken", "files", "objects"}

\* The state has the shape the generator, Helm and the preflight give it.
TypeOK ==
    /\ content \in Contents
    /\ shipped \in SUBSET Rules
    /\ overlays \in [Overlays -> SUBSET Rules]
    /\ guards \in SUBSET {w.path : w \in content.writes}
    /\ user \in UserFile
    /\ command \in Seq(Overlays \cup {"user"})
    /\ loaded \in 0..Len(command)
    /\ values \in [profiles : SUBSET Profiles, rules : [Rules -> Setting],
                   arch : Spellings, hosted : {"true", "false"},
                   enabled : {"true", "false"}]
    /\ pc \in {"generate", "ready", "load", "done"} \cup Checks
    /\ outcome \in {"none", "notApplicable", "dependency", "broken", "files",
                    "alternatives", "noVariant", "rendered"}
    /\ hint \in {"none", "arch", "hypershift"}
    /\ applied \in SUBSET Rules
    /\ scanned \in SUBSET Rules

NoSetting(s) == \A r \in Rules : user.file.rules[r] # s

\* The user overrides no rule and may still choose profiles, facts, overlays.
Untouched == NoSetting("on") /\ NoSetting("off")

\* Everything the preflight refuses for its own sake ships switched off: the
\* first broken rule that was not an alternative "broke eight profiles at
\* once" (emit.py 1215-1219).  With no override of the user's, whatever
\* profiles, facts and overlays, no render fails on a broken rule or on two
\* alternatives, and none activates a rule that is never applicable or opt-in.
ShippedIsSafe ==
    Untouched /\ pc # "generate" =>
        /\ outcome \notin {"broken", "alternatives"}
        /\ pc \in Checks => Active \cap (content.never \cup content.optIn) = {}

\* What a render applies may stand on this cluster together: every rule is
\* applicable, works, has its dependencies selected along with it, and is the
\* only one of its alternatives.
RenderedIsSound ==
    outcome = "rendered" =>
        /\ applied \cap (content.never \cup content.broken) = {}
        /\ \A r \in applied : /\ Canonical[values.arch] \in content.archs[r]
                             /\ OnHypershift \in content.hosted[r]
                             /\ content.depends[r] \subseteq Active
        /\ \A C \in content.alternatives : \A r, s \in C \cap applied : r = s

InCommand(f) == \E i \in DOMAIN command : command[i] = f

\* The overlay of the cluster's architecture, or of hosted clusters, switches
\* off in one go all that upstream excludes there, wherever it stands among
\* the values files, unless the user switches one of them on.
OverlaySuffices ==
    NoSetting("on") /\ pc \in Checks =>
        \A r \in Active :
            /\ InCommand(Canonical[values.arch]) => Reason(r) # "arch"
            /\ InCommand("hypershift") /\ OnHypershift => Reason(r) # "hosted"

\* The preflight never points at an overlay the chart does not have.
HintedOverlayExists ==
    /\ hint = "arch" => overlays[Canonical[values.arch]] # {}
    /\ hint = "hypershift" => overlays["hypershift"] # {}

\* The render refuses a path of two objects only when two active fixes, both
\* in their version window, would write it differently.
FileGuardJustified ==
    outcome = "files" =>
        \E v, w \in content.writes :
            /\ v.path = w.path /\ v.source # w.source
            /\ {v.rule, w.rule} \subseteq Active
            /\ user.version \in v.window \cap w.window

HasVariant(r) == \E f \in content.fragments : f.rule = r /\ user.version \in f.window

\* Among the rules the enabled profiles select, a TailoredProfile scans all that
\* the chart applies.  It scans a rule the chart does not apply in two cases
\* only: the node chart's objects are off, as for the guest of a hosted cluster
\* (emit.py 379), or no variant of the rule's fix is for this version.  Scan and
\* objects read the overrides separately.
ScanFollowsSelection ==
    outcome = "rendered" =>
        \A p \in values.profiles : \A r \in content.selects[p] :
            r \in applied <=> r \in scanned /\ ObjectsOn /\ HasVariant(r)

\* An applied rule stands in for another when the two cannot both be applied.
StandsIn(s, r) ==
    /\ s # r
    /\ \/ \E C \in content.alternatives : {r, s} \subseteq C
       \/ \E v, w \in content.writes :
             v.rule = r /\ w.rule = s /\ v.path = w.path /\ v.source # w.source

\* RULES.md, which computes on its own what ships disabled and what that leaves
\* open, conceals no gap: a profile enabled alone and untouched activates just
\* the rules counted as remediated, and what it selects and neither activates
\* nor counts as open applies to no cluster, or an active rule stands in for it.
CoverageAgrees ==
    Untouched /\ pc \in Checks /\ command = <<"user">> =>
        \A p \in Profiles : values.profiles = {p} =>
            /\ Active = Remediated(p)
            /\ \A r \in content.selects[p] \ (Active \cup OpenRules(p)) :
                   r \in content.never \/ \E s \in Active : StandsIn(s, r)

-----------------------------------------------------------------------------
(***************************************************************************)
(* The inductive invariant behind the properties.                          *)
(***************************************************************************)
\* The chart is what the generator wrote; a render does not change it.
ChartInv ==
    pc # "generate" =>
        shipped = DefaultDisabled /\ overlays = OverlayFiles /\ guards = CrossObjectPaths

Rendering == pc \in {"load", "done"} \cup Checks

\* Unless the user switches rules on, what values.yaml or a file merged so far
\* switches off is off, whatever came before or after it.
OffInv ==
    Rendering /\ NoSetting("on") =>
        /\ \A r \in Rules : values.rules[r] # "on"
        /\ \A r \in shipped : values.rules[r] = "off"
        /\ \A i \in 1..loaded : command[i] # "user" =>
               \A r \in overlays[command[i]] : values.rules[r] = "off"

\* Without an overlay, and without a user who switches rules, nothing else is.
OnlyShippedInv ==
    Rendering /\ Untouched /\ command = <<"user">> => values.rules = SwitchedOff(shipped)

\* A check is reached past the earlier ones, with every file merged.
PassedInv ==
    /\ pc \in Checks => loaded = Len(command)
    /\ pc \in Checks \ {"applicability"} => NotApplicable = {}
    /\ pc \in Checks \ {"applicability", "dependencies"} => DependencyUnmet = {}
    /\ pc \in {"files", "objects"} => Active \cap content.broken = {}
    /\ pc # "done" => outcome = "none" /\ hint = "none"

IInv == /\ TypeOK /\ ChartInv /\ OffInv /\ OnlyShippedInv /\ PassedInv
        /\ ShippedIsSafe /\ RenderedIsSound /\ HintedOverlayExists
        /\ FileGuardJustified /\ ScanFollowsSelection

-----------------------------------------------------------------------------
(***************************************************************************)
(* What the repository says of a selection and the code does not do.       *)
(***************************************************************************)
\* emit.py 1232-1233, a comment of the generated values.yaml: with the
\* TailoredProfile "the Compliance Operator scans exactly this selection".
ScanIsSelection == outcome = "rendered" => scanned = Active
=============================================================================
