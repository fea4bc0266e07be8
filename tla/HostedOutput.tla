---------------------------- MODULE HostedOutput ----------------------------
(***************************************************************************)
(* Where a hardening goes.  On a standalone cluster the charts render      *)
(* objects to apply there.  A hosted cluster takes its node configuration  *)
(* and some platform configuration from the management cluster, and the    *)
(* rest itself, so one hardening is rendered several times, with different *)
(* node.output and platform.output, and applied to two clusters.           *)
(*                                                                         *)
(* A user hardens one hosted cluster with a fixed selection of rules, and  *)
(* renders the two charts, or the umbrella, as often as it takes.  That an *)
(* object renders as a whole is ObjectTemplate's subject.                  *)
(***************************************************************************)
EXTENDS Naturals, FiniteSets

CONSTANTS
    Rules,         \* fix-carrying rules
    TargetOf,      \* rule -> the kind of object it writes, see Targets
    LimitOf,       \* rule -> appl[rule].roles, {} for every role
    HostedOK,      \* rule -> constraints["hypershift"]
    Roles,         \* node roles
    Selections,    \* the sets of active rules considered
    NodeValues, PlatformValues,  \* the values considered for either chart
    UmbrellaValues,              \* pairs of them
    ConfigMapMax   \* objects a ConfigMap can hold, for CONFIGMAP_MAX_BYTES

\* HOSTED_CLUSTER_FIELDS, the other platform objects, and the node objects.
Targets == {"mapped", "unmapped", "kubelet", "machineconfig"}

\* Extra manifests: none, one of a kind the MCO reads, with its role, or another.
Extras == {"none", "workerConfig", "masterConfig", "kubeletConfig", "other"}
McoExtras == {"workerConfig", "masterConfig", "kubeletConfig"}

NodeFile == [hypershift : BOOLEAN, enabled : BOOLEAN, output : {"machineconfig", "nodepool"},
             roles : SUBSET Roles, named : BOOLEAN, tailored : BOOLEAN, extra : Extras]
PlatformFile == [hypershift : BOOLEAN, output : {"cluster", "hostedcluster", "guest"},
                 named : BOOLEAN, tailored : BOOLEAN, extra : Extras]

Wrapped == {"nodepool", "nodepool-kubelet"}

\* An object of a render: where it stands, what it is and its role, if any.
Objects == [form : {"direct"}, what : Rules \cup Extras, role : Roles \cup {"none"}]
               \cup [form : Wrapped, what : Rules \cup Extras, role : {"worker"}]
               \cup [form : {"hostedcluster"}, what : Rules, role : {"none"}]
               \cup [form : {"direct"}, what : {"TailoredProfile"}, role : {"none"}]

ASSUME HostedAssumption ==
    /\ "worker" \in Roles
    /\ Rules \cap (Extras \cup {"TailoredProfile"}) = {}
    /\ TargetOf \in [Rules -> Targets]
    /\ LimitOf \in [Rules -> SUBSET Roles]
    /\ HostedOK \in [Rules -> SUBSET BOOLEAN]
    /\ Selections \subseteq SUBSET Rules
    /\ NodeValues \subseteq NodeFile
    /\ PlatformValues \subseteq PlatformFile
    /\ UmbrellaValues \subseteq NodeValues \X PlatformValues
    /\ ConfigMapMax \in Nat

VARIABLES
    active,    \* the selection
    charts,    \* the subcharts of the current render
    node, platform,  \* their values
    pc, outcome,
    objects,   \* what the render wrote
    notices,   \* the outputs its comments ask to render too
    delivered, \* the hosted outputs applied so far
    applied,   \* what they put where
    announced  \* the outputs their comments ask for

values == <<charts, node, platform>>
history == <<delivered, applied, announced>>
vars == <<active, values, pc, outcome, objects, notices, history>>

NodeRules == {r \in Rules : TargetOf[r] \in {"machineconfig", "kubelet"}}
PlatformRules == Rules \ NodeRules
Mapped == {r \in Rules : TargetOf[r] = "mapped"}

Umbrella == charts = {"node", "platform"}
Nodepool == node.output = "nodepool"

-----------------------------------------------------------------------------
(***************************************************************************)
(* One render.                                                             *)
(***************************************************************************)
DefaultNode == [hypershift |-> FALSE, enabled |-> FALSE, output |-> "machineconfig",
                roles |-> Roles, named |-> FALSE, tailored |-> FALSE, extra |-> "none"]
DefaultPlatform == [hypershift |-> FALSE, output |-> "cluster", named |-> FALSE,
                    tailored |-> FALSE, extra |-> "none"]

Init ==
    /\ active \in Selections
    /\ charts = {}
    /\ node = DefaultNode
    /\ platform = DefaultPlatform
    /\ pc = "idle"
    /\ outcome = "none"
    /\ objects = {}
    /\ notices = {}
    /\ delivered = {}
    /\ applied = {}
    /\ announced = {}

StartRender(cs, n, p) ==
    /\ pc = "idle"
    /\ charts' = cs
    /\ node' = n
    /\ platform' = p
    /\ outcome' = "none"
    /\ pc' = "schema"
    /\ UNCHANGED <<active, objects, notices, history>>

\* helm template fails: nothing to apply.
Refuse(why) == /\ outcome' = why
               /\ pc' = "idle"
               /\ UNCHANGED <<active, values, objects, notices, history>>

Proceed(from, to) == /\ pc = from
                     /\ pc' = to
                     /\ UNCHANGED <<active, values, outcome, objects, notices, history>>

Check(from, bad, why, to) == \/ pc = from /\ bad /\ Refuse(why)
                             \/ ~ bad /\ Proceed(from, to)

\* _required_strings, where the output needs a name.
NameMissing == \/ "node" \in charts /\ Nodepool /\ ~ node.named
               \/ "platform" \in charts /\ platform.output = "hostedcluster" /\ ~ platform.named

Schema == Check("schema", NameMissing, "schema", "applicability")

\* cr.applicabilityPreflight, which does not look at node.enabled.
NotApplicable ==
    \/ "node" \in charts /\ \E r \in active \cap NodeRules : node.hypershift \notin HostedOK[r]
    \/ "platform" \in charts /\ \E r \in active \cap PlatformRules : platform.hypershift \notin HostedOK[r]

ApplicabilityPreflight == Check("applicability", NotApplicable, "notApplicable", "outputs")

\* Fault: extra manifests are not looked at.
ExtrasAnywhere(v) == FALSE

\* cr.guestExtrasPreflight
GuestExtras(v) == v.extra \in McoExtras

\* cr.nodeOutputPreflight
NodeOutputWrong ==
    \/ Nodepool /\ ~ node.hypershift
    \/ node.enabled /\ ~ Nodepool /\ node.hypershift
    \/ Nodepool /\ node.tailored
    \/ Nodepool /\ ~ node.enabled /\ node.extra # "none"
    \/ node.hypershift /\ ~ Nodepool /\ GuestExtras(node)

\* cr.platformOutputPreflight
PlatformOutputWrong ==
    \/ platform.output # "cluster" /\ ~ platform.hypershift
    \/ platform.output = "cluster" /\ platform.hypershift
    \/ platform.output = "hostedcluster" /\ (platform.tailored \/ platform.extra # "none")
    \/ platform.output = "guest" /\ GuestExtras(platform)

\* UMBRELLA_PREFLIGHT
HalvesApart ==
    /\ Umbrella
    /\ node.enabled
    /\ \/ node.hypershift # platform.hypershift
       \/ Nodepool /\ platform.output = "guest"

OutputPreflights ==
    Check("outputs",
          \/ "node" \in charts /\ NodeOutputWrong
          \/ "platform" \in charts /\ PlatformOutputWrong
          \/ HalvesApart,
          "output", "emit")

-----------------------------------------------------------------------------
(***************************************************************************)
(* What it writes.                                                         *)
(***************************************************************************)
Object(form, what, role) == [form |-> form, what |-> what, role |-> role]

\* Fault: the roles of the values, whatever the output.
LoopAllRoles == node.roles

\* The role loop of object_template: a NodePool has workers only.
LoopRoles == IF Nodepool THEN {"worker"} ELSE node.roles

FormOf(r) == IF ~ Nodepool THEN "direct"
             ELSE IF TargetOf[r] = "kubelet" THEN "nodepool-kubelet" ELSE "nodepool"

NodeObjects ==
    IF ~ node.enabled THEN {}
    ELSE {Object(FormOf(r), r, role) : r \in active \cap NodeRules, role \in LoopRoles}

\* `has $role (list ...)`, for the rules upstream restricts.
Restricted(os) == {o \in os : LimitOf[o.what] = {} \/ o.role \in LimitOf[o.what]}

\* cr.extraManifests, as extra-manifests.yaml or inside the ConfigMap.
NodeExtras ==
    IF node.extra = "none" THEN {}
    ELSE IF Nodepool THEN {Object("nodepool", node.extra, "worker")}
    ELSE {Object("direct", node.extra, "none")}

\* NODEPOOL_EXTRA_KINDS, and the role of a wrapped extra manifest.
ExtraUnfit == Nodepool /\ node.extra \in Extras \ {"none", "workerConfig"}

\* Faults: objects the HostedCluster has no field for render on a standalone
\* cluster only; those it has a field for render on the guest too.
OnlyOnCluster(r) == platform.output = "cluster"
MappedOnGuestToo(r) == platform.output # "hostedcluster"

\* The outputs that render a platform object in a document of its own.
RendersDirect(r) == IF r \in Mapped THEN platform.output = "cluster"
                    ELSE platform.output # "hostedcluster"

PlatformObjects ==
    {Object("direct", r, "none") : r \in {s \in active \cap PlatformRules : RendersDirect(s)}}
        \cup {Object("hostedcluster", r, "none") :
                  r \in IF platform.output = "hostedcluster" THEN active \cap Mapped ELSE {}}

PlatformExtras == IF platform.extra = "none" \/ platform.output = "hostedcluster" THEN {}
                  ELSE {Object("direct", platform.extra, "none")}

TailoredProfiles(v) == IF v.tailored THEN {Object("direct", "TailoredProfile", "none")} ELSE {}

NodeOutput == Restricted(NodeObjects) \cup NodeExtras \cup TailoredProfiles(node)
PlatformOutput == PlatformObjects \cup PlatformExtras \cup TailoredProfiles(platform)

TooBig == Cardinality({o \in NodeOutput : o.form = "nodepool"}) > ConfigMapMax

\* Fault: the output for the management cluster has a comment only when it is
\* empty otherwise.
NoticeWhenEmpty ==
    {o \in {"hostedcluster", "guest"} :
        \/ o = "hostedcluster" /\ platform.output = "guest" /\ active \cap Mapped # {}
        \/ /\ o = "guest" /\ platform.output = "hostedcluster"
           /\ active \cap Mapped = {} /\ (active \cap PlatformRules) \ Mapped # {}}

\* The comments of hostedcluster_template.
Notices ==
    {o \in {"hostedcluster", "guest"} :
        \/ o = "hostedcluster" /\ platform.output = "guest" /\ active \cap Mapped # {}
        \/ o = "guest" /\ platform.output = "hostedcluster" /\ (active \cap PlatformRules) \ Mapped # {}}

Wraps == "node" \in charts /\ Nodepool /\ node.enabled

RefuseWrapping ==
    /\ pc = "emit"
    /\ Wraps
    /\ ExtraUnfit \/ TooBig
    /\ Refuse("configMap")

Emit ==
    /\ pc = "emit"
    /\ ~ (Wraps /\ (ExtraUnfit \/ TooBig))
    /\ objects' = (IF "node" \in charts THEN NodeOutput ELSE {})
                      \cup (IF "platform" \in charts THEN PlatformOutput ELSE {})
    /\ notices' = IF "platform" \in charts THEN Notices ELSE {}
    /\ outcome' = "rendered"
    /\ pc' = "rendered"
    /\ UNCHANGED <<active, values, history>>

-----------------------------------------------------------------------------
(***************************************************************************)
(* The user applies it, to one cluster.                                    *)
(***************************************************************************)
\* README 452-472: the outputs that go to the management cluster; the other
\* renders of a hosted cluster go to that cluster itself.
ToManagement == \/ Wraps
                \/ "platform" \in charts /\ platform.output = "hostedcluster"

\* All facts given say that the cluster is hosted.
ForHosted == /\ "node" \in charts => node.hypershift
             /\ "platform" \in charts => platform.hypershift

Outputs == (IF Wraps THEN {"nodepool"} ELSE {})
               \cup (IF "platform" \in charts THEN {platform.output} \ {"cluster"} ELSE {})

Forget == /\ objects' = {} /\ notices' = {} /\ outcome' = "none" /\ charts' = {}
          /\ node' = DefaultNode /\ platform' = DefaultPlatform
          /\ pc' = "idle"

Apply ==
    /\ pc = "rendered"
    /\ ForHosted
    /\ delivered' = delivered \cup Outputs
    /\ applied' = applied \cup {[cluster |-> IF ToManagement THEN "management" ELSE "guest",
                                 rule |-> o.what] : o \in {p \in objects : p.what \in Rules}}
    /\ announced' = announced \cup notices
    /\ Forget
    /\ UNCHANGED active

Discard ==
    /\ pc = "rendered"
    /\ Forget
    /\ UNCHANGED <<active, history>>

Next ==
    \/ \E n \in NodeValues : StartRender({"node"}, n, DefaultPlatform)
    \/ \E p \in PlatformValues : StartRender({"platform"}, DefaultNode, p)
    \/ \E u \in UmbrellaValues : StartRender({"node", "platform"}, u[1], u[2])
    \/ Schema
    \/ ApplicabilityPreflight
    \/ OutputPreflights
    \/ RefuseWrapping
    \/ Emit
    \/ Apply
    \/ Discard

Spec == Init /\ [][Next]_vars

-----------------------------------------------------------------------------
(***************************************************************************)
(* Properties.                                                             *)
(***************************************************************************)
\* The state has the shape Helm and the user give it; a wrapped object is for
\* the workers, the only role a NodePool has.
TypeOK ==
    /\ active \in SUBSET Rules
    /\ charts \in SUBSET {"node", "platform"}
    /\ node \in NodeFile /\ platform \in PlatformFile
    /\ pc \in {"idle", "schema", "applicability", "outputs", "emit", "rendered"}
    /\ outcome \in {"none", "schema", "notApplicable", "output", "configMap", "rendered"}
    /\ objects \in SUBSET Objects
    /\ notices \in SUBSET {"hostedcluster", "guest"}
    /\ delivered \in SUBSET {"nodepool", "hostedcluster", "guest"}
    /\ applied \in SUBSET [cluster : {"management", "guest"}, rule : Rules]
    /\ announced \in SUBSET {"hostedcluster", "guest"}

\* The clusters on which something reads an object: the MCO of a standalone
\* cluster, the operators of a hosted cluster, or its control plane.
ReadOn(o) ==
    IF o.form \in Wrapped THEN {"management"}
    ELSE IF o.form = "hostedcluster" THEN {"management"}
    ELSE IF o.what \in NodeRules \cup Mapped \cup McoExtras THEN {"standalone"}
    ELSE {"standalone", "guest"}

OneCluster ==
    \E c \in {"standalone", "management", "guest"} :
        /\ \A o \in objects : c \in ReadOn(o)
        /\ ForHosted => c # "standalone"

\* README 452-472: every render goes to exactly one cluster, of the declared
\* kind, and no object is "applied and ignored" there: a render of one chart,
\* or of the umbrella with its node half enabled, has no object that another
\* cluster would have to read.
OneRenderOneCluster ==
    outcome = "rendered" /\ (Umbrella => node.enabled) => OneCluster

\* _hosted_placement, from which RULES.md tells where a rule ends up.
HostedPlacement(r) ==
    IF TRUE \notin HostedOK[r] \/ (r \in NodeRules /\ LimitOf[r] # {} /\ "worker" \notin LimitOf[r])
    THEN "not_remediable"
    ELSE IF r \in NodeRules THEN "nodepool"
    ELSE IF r \in Mapped THEN "hostedcluster" ELSE "guest"

\* The output an object is found in.
OutputOf(o) == IF o.form \in Wrapped THEN "nodepool"
               ELSE IF o.form = "hostedcluster" THEN "hostedcluster" ELSE "guest"

\* RULES.md places the rules, and the templates render them, by separate code:
\* a render for a hosted cluster holds exactly the active rules that RULES.md
\* places in one of its outputs, each in that output.
PlacementMatches ==
    outcome = "rendered" /\ ForHosted =>
        \A r \in active, out \in Outputs :
            (\E o \in objects : o.what = r /\ OutputOf(o) = out) <=> HostedPlacement(r) = out

InEffect(r) == \E a \in applied : a.rule = r

\* "Nothing else would notice that half of a profile was never applied"
\* (emit.py 1607-1610): while an active platform rule is still missing after a
\* platform output was applied, a comment has named the output that holds it.
HalfIsAnnounced ==
    delivered \cap {"hostedcluster", "guest"} # {} =>
        \A r \in active \cap PlatformRules :
            InEffect(r) \/ HostedPlacement(r) \in announced \cup {"not_remediable"}

\* Once all three outputs have been applied, in whatever order and however
\* often, every active rule is in effect on exactly one of the two clusters,
\* and those that are not remediable on neither.
AllOutputsSuffice ==
    delivered = {"nodepool", "hostedcluster", "guest"} =>
        \A r \in active :
            Cardinality({a \in applied : a.rule = r})
                = IF HostedPlacement(r) = "not_remediable" THEN 0 ELSE 1

-----------------------------------------------------------------------------
(***************************************************************************)
(* The inductive invariant behind the properties.                          *)
(***************************************************************************)
\* A render that has come this far has passed the earlier preflights, and what
\* it wrote is what its values ask for.
RenderInv ==
    /\ pc # "idle" => charts \in {{"node"}, {"platform"}, {"node", "platform"}}
    /\ pc \in {"outputs", "emit", "rendered"} => ~ NotApplicable
    /\ pc \in {"emit", "rendered"} =>
           /\ "node" \in charts => ~ NodeOutputWrong
           /\ "platform" \in charts => ~ PlatformOutputWrong
           /\ ~ HalvesApart
    /\ pc = "rendered" =>
           /\ objects = (IF "node" \in charts THEN NodeOutput ELSE {})
                            \cup (IF "platform" \in charts THEN PlatformOutput ELSE {})
           /\ notices = IF "platform" \in charts THEN Notices ELSE {}
    /\ outcome = "rendered" <=> pc = "rendered"

\* An output that was applied has put in effect all that belongs there, and a
\* platform output has named the other one if something belongs there.
DeliveredInv ==
    /\ \A r \in active : HostedPlacement(r) \in delivered => InEffect(r)
    /\ "hostedcluster" \in delivered =>
           \A r \in active : HostedPlacement(r) = "guest" => "guest" \in announced
    /\ "guest" \in delivered =>
           \A r \in active : HostedPlacement(r) = "hostedcluster" => "hostedcluster" \in announced

\* What is in effect is where RULES.md says.
AppliedInv ==
    \A a \in applied :
        /\ a.rule \in active
        /\ HostedPlacement(a.rule) # "not_remediable"
        /\ a.cluster = IF HostedPlacement(a.rule) = "guest" THEN "guest" ELSE "management"

IInv == TypeOK /\ RenderInv /\ DeliveredInv /\ AppliedInv

-----------------------------------------------------------------------------
(***************************************************************************)
(* What the repository says of an output and the code does not do.         *)
(***************************************************************************)
\* README 472: "the umbrella refuses a render whose objects belong on two
\* clusters".
UmbrellaOneCluster == outcome = "rendered" /\ Umbrella => OneCluster
=============================================================================
