------------------------- MODULE HostedOutputProofs -------------------------
(***************************************************************************)
(* Where a hardening goes, for every set of rules, roles and values, and   *)
(* however often and in whatever order the outputs are rendered.  The      *)
(* properties follow from IInv, which every step preserves.                *)
(***************************************************************************)
EXTENDS HostedOutput, FiniteSetTheorems, TLAPS

-----------------------------------------------------------------------------
(***************************************************************************)
(* The objects of a render.                                                *)
(***************************************************************************)
LEMMA RuleNames ==
    /\ \A r \in Rules : r \notin Extras /\ r # "TailoredProfile"
    /\ NodeRules \subseteq Rules /\ PlatformRules \subseteq Rules /\ Mapped \subseteq Rules
    /\ NodeRules \cap PlatformRules = {} /\ Mapped \subseteq PlatformRules
BY HostedAssumption DEF NodeRules, PlatformRules, Mapped

LEMMA NodeOutputObjects ==
    ASSUME NEW o \in NodeOutput
    PROVE  \/ /\ node.enabled /\ o.what \in active \cap NodeRules /\ o.form = FormOf(o.what)
              /\ o.role \in LoopRoles /\ (LimitOf[o.what] = {} \/ o.role \in LimitOf[o.what])
              /\ o = Object(o.form, o.what, o.role)
           \/ /\ node.extra # "none" /\ Nodepool /\ o = Object("nodepool", node.extra, "worker")
           \/ /\ node.extra # "none" /\ ~ Nodepool /\ o = Object("direct", node.extra, "none")
           \/ /\ node.tailored /\ o = Object("direct", "TailoredProfile", "none")
<1>1. CASE o \in Restricted(NodeObjects)
  BY <1>1 DEF Restricted, NodeObjects, Object
<1>2. CASE o \in NodeExtras
  BY <1>2 DEF NodeExtras
<1>3. CASE o \in TailoredProfiles(node)
  BY <1>3 DEF TailoredProfiles
<1>4. QED
  BY <1>1, <1>2, <1>3 DEF NodeOutput

LEMMA NodeOutputHas ==
    ASSUME NEW r \in active \cap NodeRules, node.enabled, NEW role \in LoopRoles,
           LimitOf[r] = {} \/ role \in LimitOf[r]
    PROVE  Object(FormOf(r), r, role) \in NodeOutput
<1>1. Object(FormOf(r), r, role) \in NodeObjects
  BY DEF NodeObjects
<1>2. QED
  BY <1>1 DEF NodeOutput, Restricted, Object

LEMMA PlatformOutputObjects ==
    ASSUME NEW o \in PlatformOutput
    PROVE  \/ /\ o.what \in active \cap PlatformRules /\ RendersDirect(o.what)
              /\ o = Object("direct", o.what, "none")
           \/ /\ o.what \in active \cap Mapped /\ platform.output = "hostedcluster"
              /\ o = Object("hostedcluster", o.what, "none")
           \/ /\ platform.extra # "none" /\ platform.output # "hostedcluster"
              /\ o = Object("direct", platform.extra, "none")
           \/ /\ platform.tailored /\ o = Object("direct", "TailoredProfile", "none")
<1>1. CASE o \in PlatformObjects
  BY <1>1 DEF PlatformObjects, Object
<1>2. CASE o \in PlatformExtras
  BY <1>2 DEF PlatformExtras
<1>3. CASE o \in TailoredProfiles(platform)
  BY <1>3 DEF TailoredProfiles
<1>4. QED
  BY <1>1, <1>2, <1>3 DEF PlatformOutput

LEMMA PlatformOutputHas ==
    /\ \A r \in active \cap PlatformRules :
           RendersDirect(r) => Object("direct", r, "none") \in PlatformOutput
    /\ \A r \in active \cap Mapped :
           platform.output = "hostedcluster" => Object("hostedcluster", r, "none") \in PlatformOutput
BY DEF PlatformOutput, PlatformObjects

LEMMA ObjectFields ==
    ASSUME NEW form, NEW what, NEW role
    PROVE  /\ Object(form, what, role).form = form
           /\ Object(form, what, role).what = what
           /\ Object(form, what, role).role = role
BY DEF Object

LEMMA FormShape ==
    ASSUME NEW r
    PROVE  /\ Nodepool => FormOf(r) \in Wrapped
           /\ ~ Nodepool => FormOf(r) = "direct"
BY DEF FormOf, Wrapped

\* Every object has one of the four forms; only a NodePool's are wrapped.
LEMMA NodeOutputType ==
    ASSUME TypeOK
    PROVE  NodeOutput \subseteq Objects
<1> SUFFICES ASSUME NEW o \in NodeOutput PROVE o \in Objects
  OBVIOUS
<1>1. /\ node.extra \in Extras /\ node.roles \subseteq Roles /\ "worker" \in Roles
      /\ active \subseteq Rules
  BY HostedAssumption DEF TypeOK, NodeFile
<1>2. ASSUME o.what \in active \cap NodeRules, o.form = FormOf(o.what), o.role \in LoopRoles,
             o = Object(o.form, o.what, o.role)
      PROVE  o \in Objects
  <2>1. CASE Nodepool
    BY <1>1, <1>2, <2>1, FormShape DEF LoopRoles, Objects, Object
  <2>2. CASE ~ Nodepool
    BY <1>1, <1>2, <2>2, FormShape DEF LoopRoles, Objects, Object
  <2>3. QED
    BY <2>1, <2>2
<1>3. CASE o = Object("nodepool", node.extra, "worker")
  BY <1>1, <1>3 DEF Objects, Object, Wrapped
<1>4. CASE o = Object("direct", node.extra, "none")
  BY <1>1, <1>4 DEF Objects, Object
<1>5. CASE o = Object("direct", "TailoredProfile", "none")
  BY <1>5 DEF Objects, Object
<1>6. QED
  BY <1>2, <1>3, <1>4, <1>5, NodeOutputObjects

LEMMA PlatformOutputType ==
    ASSUME TypeOK
    PROVE  PlatformOutput \subseteq Objects
<1> SUFFICES ASSUME NEW o \in PlatformOutput PROVE o \in Objects
  OBVIOUS
<1>1. platform.extra \in Extras /\ active \subseteq Rules
  BY DEF TypeOK, PlatformFile
<1>2. QED
  BY <1>1, PlatformOutputObjects DEF Objects, Object

-----------------------------------------------------------------------------
(***************************************************************************)
(* The steps of a render.                                                  *)
(***************************************************************************)
StartStep == \/ \E n \in NodeValues : StartRender({"node"}, n, DefaultPlatform)
             \/ \E p \in PlatformValues : StartRender({"platform"}, DefaultNode, p)
             \/ \E u \in UmbrellaValues : StartRender({"node", "platform"}, u[1], u[2])

CheckStep == Schema \/ ApplicabilityPreflight \/ OutputPreflights \/ RefuseWrapping

LEMMA NextCases ==
    [Next]_vars <=> StartStep \/ CheckStep \/ Emit \/ Apply \/ Discard \/ UNCHANGED vars
BY DEF Next, StartStep, CheckStep

LEMMA DefaultShape == DefaultNode \in NodeFile /\ DefaultPlatform \in PlatformFile
BY DEF DefaultNode, DefaultPlatform, NodeFile, PlatformFile, Extras

LEMMA StartFacts ==
    ASSUME StartStep
    PROVE  /\ charts' \in {{"node"}, {"platform"}, {"node", "platform"}}
           /\ node' \in NodeFile /\ platform' \in PlatformFile
           /\ outcome' = "none" /\ pc' = "schema" /\ pc = "idle"
           /\ UNCHANGED <<active, objects, notices, history>>
<1>1. DefaultNode \in NodeFile /\ DefaultPlatform \in PlatformFile
  BY DefaultShape
<1>2. NodeValues \subseteq NodeFile /\ PlatformValues \subseteq PlatformFile
  BY HostedAssumption
<1>3. \A u \in UmbrellaValues : u[1] \in NodeFile /\ u[2] \in PlatformFile
  BY <1>2, HostedAssumption
<1>4. QED
  BY <1>1, <1>2, <1>3 DEF StartStep, StartRender

LEMMA CheckFacts ==
    ASSUME CheckStep
    PROVE  /\ UNCHANGED <<active, values, objects, notices, history>>
           /\ \/ pc' = "idle" /\ outcome' \in {"schema", "notApplicable", "output", "configMap"}
              \/ pc = "schema" /\ pc' = "applicability" /\ outcome' = outcome
              \/ pc = "applicability" /\ pc' = "outputs" /\ outcome' = outcome /\ ~ NotApplicable
              \/ /\ pc = "outputs" /\ pc' = "emit" /\ outcome' = outcome
                 /\ "node" \in charts => ~ NodeOutputWrong
                 /\ "platform" \in charts => ~ PlatformOutputWrong
                 /\ ~ HalvesApart
BY DEF CheckStep, Schema, ApplicabilityPreflight, OutputPreflights, RefuseWrapping,
       Check, Refuse, Proceed

LEMMA CheckTypes ==
    ASSUME CheckStep, RenderInv
    PROVE  /\ pc \in {"schema", "applicability", "outputs", "emit"}
           /\ outcome # "rendered" /\ outcome' # "rendered"
           /\ pc' \in {"idle", "applicability", "outputs", "emit"}
BY CheckFacts DEF CheckStep, Schema, ApplicabilityPreflight, OutputPreflights, RefuseWrapping,
       Check, Refuse, Proceed, RenderInv

LEMMA ForgetFacts ==
    ASSUME Apply \/ Discard
    PROVE  /\ charts' = {} /\ node' = DefaultNode /\ platform' = DefaultPlatform
           /\ outcome' = "none" /\ pc' = "idle" /\ objects' = {} /\ notices' = {}
           /\ active' = active /\ pc = "rendered"
BY DEF Apply, Discard, Forget

LEMMA NoticesShape == Notices \subseteq {"hostedcluster", "guest"}
BY DEF Notices

LEMMA OutputsShape == TypeOK => Outputs \subseteq {"nodepool", "hostedcluster", "guest"}
BY DEF TypeOK, PlatformFile, Outputs

\* The rules of the objects of a render are active.
LEMMA RuleObject ==
    ASSUME TypeOK, RenderInv, pc = "rendered", NEW o \in objects, o.what \in Rules
    PROVE  o.what \in active
<1>1. node.extra \in Extras /\ platform.extra \in Extras
  BY DEF TypeOK, NodeFile, PlatformFile
<1>2. CASE o \in NodeOutput
  BY <1>1, <1>2, NodeOutputObjects, ObjectFields, RuleNames
<1>3. CASE o \in PlatformOutput
  BY <1>1, <1>3, PlatformOutputObjects, ObjectFields, RuleNames
<1>4. QED
  BY <1>2, <1>3 DEF RenderInv

-----------------------------------------------------------------------------
(***************************************************************************)
(* Types, and what a render has passed.                                    *)
(***************************************************************************)
LEMMA InitTypeOK == Init => TypeOK
BY HostedAssumption DEF Init, TypeOK, DefaultNode, DefaultPlatform, NodeFile, PlatformFile, Extras

LEMMA NextTypeOK == TypeOK /\ RenderInv /\ [Next]_vars => TypeOK'
<1> SUFFICES ASSUME TypeOK, RenderInv, [Next]_vars PROVE TypeOK'
  OBVIOUS
<1>1. CASE StartStep
  BY <1>1, StartFacts DEF TypeOK, history
<1>2. CASE CheckStep
  BY <1>2, CheckFacts DEF TypeOK, values, history
<1>3. CASE Emit
  <2>1. objects' \in SUBSET Objects
    BY <1>3, NodeOutputType, PlatformOutputType DEF Emit
  <2>2. notices' \in SUBSET {"hostedcluster", "guest"}
    BY <1>3, NoticesShape DEF Emit
  <2>3. QED
    BY <1>3, <2>1, <2>2 DEF Emit, TypeOK, values, history
<1>4. CASE Apply \/ Discard
  <2>1. node' \in NodeFile /\ platform' \in PlatformFile
    BY <1>4, ForgetFacts, DefaultShape
  <2>2. /\ delivered' \in SUBSET {"nodepool", "hostedcluster", "guest"}
        /\ applied' \in SUBSET [cluster : {"management", "guest"}, rule : Rules]
        /\ announced' \in SUBSET {"hostedcluster", "guest"}
    <3>1. CASE Apply
      <4>1. \A o \in {p \in objects : p.what \in Rules} :
               [cluster |-> IF ToManagement THEN "management" ELSE "guest", rule |-> o.what]
                   \in [cluster : {"management", "guest"}, rule : Rules]
        OBVIOUS
      <4>2. applied' \in SUBSET [cluster : {"management", "guest"}, rule : Rules]
        BY <3>1, <4>1 DEF Apply, TypeOK
      <4>3. QED
        BY <3>1, <4>2, OutputsShape DEF Apply, TypeOK
    <3>2. CASE Discard
      BY <3>2 DEF Discard, history, TypeOK
    <3>3. QED
      BY <1>4, <3>1, <3>2
  <2>3. QED
    BY <1>4, <2>1, <2>2, ForgetFacts DEF TypeOK
<1>5. CASE UNCHANGED vars
  BY <1>5 DEF vars, values, history, TypeOK
<1>6. QED
  BY <1>1, <1>2, <1>3, <1>4, <1>5, NextCases

\* The same values ask for the same objects, and pass the same preflights.
LEMMA SameValues ==
    ASSUME UNCHANGED <<active, values>>
    PROVE  /\ charts' = charts /\ node' = node /\ platform' = platform
           /\ NotApplicable' = NotApplicable /\ NodeOutputWrong' = NodeOutputWrong
           /\ PlatformOutputWrong' = PlatformOutputWrong /\ HalvesApart' = HalvesApart
           /\ NodeOutput' = NodeOutput /\ PlatformOutput' = PlatformOutput /\ Notices' = Notices
<1>1. active' = active /\ charts' = charts /\ node' = node /\ platform' = platform
  BY DEF values
<1>2. /\ NotApplicable' = NotApplicable /\ NodeOutputWrong' = NodeOutputWrong
      /\ PlatformOutputWrong' = PlatformOutputWrong /\ HalvesApart' = HalvesApart
  BY <1>1 DEF NotApplicable, NodeOutputWrong, PlatformOutputWrong, HalvesApart, GuestExtras,
     Nodepool, Umbrella
<1>3. NodeOutput' = NodeOutput
  BY <1>1 DEF NodeOutput, NodeObjects, NodeExtras, TailoredProfiles, Restricted, LoopRoles,
     FormOf, Nodepool, Object
<1>4. PlatformOutput' = PlatformOutput
  BY <1>1 DEF PlatformOutput, PlatformObjects, PlatformExtras, TailoredProfiles, RendersDirect,
     Object
<1>5. Notices' = Notices
  BY <1>1 DEF Notices
<1>6. QED
  BY <1>1, <1>2, <1>3, <1>4, <1>5

LEMMA NextRenderInv == TypeOK /\ RenderInv /\ [Next]_vars => RenderInv'
<1> SUFFICES ASSUME TypeOK, RenderInv, [Next]_vars PROVE RenderInv'
  OBVIOUS
<1>1. CASE StartStep
  BY <1>1, StartFacts DEF RenderInv
<1>2. CASE CheckStep
  <2>1. UNCHANGED <<active, values>>
    BY <1>2, CheckFacts
  <2>2. pc # "idle" /\ pc' # "rendered"
    BY <1>2, CheckTypes
  <2>3. QED
    BY <1>2, <2>1, <2>2, CheckFacts, CheckTypes, SameValues DEF RenderInv
<1>3. CASE Emit
  <2>1. UNCHANGED <<active, values>>
    BY <1>3 DEF Emit
  <2>2. QED
    BY <1>3, <2>1, SameValues DEF Emit, RenderInv
<1>4. CASE Apply \/ Discard
  BY <1>4, ForgetFacts DEF RenderInv
<1>5. CASE UNCHANGED vars
  <2>1. UNCHANGED <<active, values>> /\ UNCHANGED <<pc, outcome, objects, notices>>
    BY <1>5 DEF vars
  <2>2. QED
    BY <2>1, SameValues DEF RenderInv
<1>6. QED
  BY <1>1, <1>2, <1>3, <1>4, <1>5, NextCases

-----------------------------------------------------------------------------
(***************************************************************************)
(* One render goes to one cluster.                                         *)
(***************************************************************************)
LEMMA DirectRead ==
    ASSUME NEW o, o.form = "direct"
    PROVE  /\ "standalone" \in ReadOn(o)
           /\ o.what \notin NodeRules \cup Mapped \cup McoExtras => "guest" \in ReadOn(o)
BY DEF ReadOn, Wrapped

LEMMA WrappedRead ==
    ASSUME NEW o, o.form \in Wrapped \cup {"hostedcluster"}
    PROVE  "management" \in ReadOn(o)
BY DEF ReadOn

\* The node half: nothing, node pool objects, guest objects, or a standalone
\* cluster's, according to its facts and output.
LEMMA NodeHalf ==
    ASSUME TypeOK, ~ NodeOutputWrong
    PROVE  /\ Nodepool => node.hypershift
           /\ Nodepool /\ node.enabled => \A o \in NodeOutput : "management" \in ReadOn(o)
           /\ Nodepool /\ ~ node.enabled => NodeOutput = {}
           /\ ~ Nodepool => \A o \in NodeOutput : "standalone" \in ReadOn(o)
           /\ ~ Nodepool /\ node.hypershift =>
                  ~ node.enabled /\ \A o \in NodeOutput : "guest" \in ReadOn(o)
<1>1. Nodepool => node.hypershift /\ ~ node.tailored
  BY DEF NodeOutputWrong
<1>2. ASSUME Nodepool, NEW o \in NodeOutput
      PROVE  o.form \in Wrapped
  BY <1>1, <1>2, NodeOutputObjects, ObjectFields, FormShape DEF Wrapped
<1>3. ASSUME Nodepool, ~ node.enabled
      PROVE  NodeOutput = {}
  <2>1. node.extra = "none"
    BY <1>3 DEF NodeOutputWrong
  <2>2. QED
    BY <1>1, <1>3, <2>1, NodeOutputObjects
<1>4. ASSUME ~ Nodepool, NEW o \in NodeOutput
      PROVE  o.form = "direct"
  BY <1>4, NodeOutputObjects, ObjectFields, FormShape
<1>5. ASSUME ~ Nodepool, node.hypershift, NEW o \in NodeOutput
      PROVE  o.what \notin NodeRules \cup Mapped \cup McoExtras
  <2>1. ~ node.enabled /\ node.extra \in Extras \ McoExtras
    BY <1>5 DEF NodeOutputWrong, GuestExtras, TypeOK, NodeFile
  <2>2. o.what \in {node.extra, "TailoredProfile"}
    BY <1>5, <2>1, NodeOutputObjects, ObjectFields
  <2>3. QED
    BY <2>1, <2>2, RuleNames DEF McoExtras
<1>6. ~ Nodepool /\ node.hypershift => ~ node.enabled
  BY DEF NodeOutputWrong
<1>7. QED
  BY <1>1, <1>2, <1>3, <1>4, <1>5, <1>6, DirectRead, WrappedRead

LEMMA PlatformHalf ==
    ASSUME TypeOK, ~ PlatformOutputWrong
    PROVE  /\ platform.hypershift <=> platform.output # "cluster"
           /\ platform.output = "hostedcluster" =>
                  \A o \in PlatformOutput : "management" \in ReadOn(o)
           /\ platform.output = "guest" => \A o \in PlatformOutput : "guest" \in ReadOn(o)
           /\ platform.output = "cluster" => \A o \in PlatformOutput : "standalone" \in ReadOn(o)
<1>1. /\ platform.hypershift <=> platform.output # "cluster"
      /\ platform.extra \in Extras
  BY DEF PlatformOutputWrong, TypeOK, PlatformFile
<1>2. ASSUME platform.output = "hostedcluster", NEW o \in PlatformOutput
      PROVE  o.form = "hostedcluster"
  <2>1. ~ platform.tailored /\ platform.extra = "none"
    BY <1>2 DEF PlatformOutputWrong
  <2>2. \A r \in active \cap PlatformRules : ~ RendersDirect(r)
    BY <1>2 DEF RendersDirect
  <2>3. QED
    BY <2>1, <2>2, PlatformOutputObjects, ObjectFields
<1>3. ASSUME platform.output # "hostedcluster", NEW o \in PlatformOutput
      PROVE  o.form = "direct"
  BY <1>3, PlatformOutputObjects, ObjectFields
<1>4. ASSUME platform.output = "guest", NEW o \in PlatformOutput
      PROVE  o.what \notin NodeRules \cup Mapped \cup McoExtras
  <2>1. platform.extra \notin McoExtras
    BY <1>4 DEF PlatformOutputWrong, GuestExtras
  <2>2. \A r \in active \cap PlatformRules :
           RendersDirect(r) => r \notin Mapped \cup NodeRules \cup McoExtras
    BY <1>4, RuleNames DEF RendersDirect, McoExtras, Extras
  <2>3. o.what \in {platform.extra, "TailoredProfile"} \/
            (o.what \in active \cap PlatformRules /\ RendersDirect(o.what))
    BY <1>4, PlatformOutputObjects, ObjectFields
  <2>4. QED
    BY <1>1, <2>1, <2>2, <2>3, RuleNames DEF McoExtras
<1>5. QED
  BY <1>1, <1>2, <1>3, <1>4, DirectRead, WrappedRead

LEMMA IInvImpliesOneCluster == IInv => OneRenderOneCluster
<1> SUFFICES ASSUME IInv, outcome = "rendered", Umbrella => node.enabled
             PROVE  OneCluster
  BY DEF OneRenderOneCluster
<1>1. /\ TypeOK /\ charts \in {{"node"}, {"platform"}, {"node", "platform"}}
      /\ "node" \in charts => ~ NodeOutputWrong
      /\ "platform" \in charts => ~ PlatformOutputWrong
      /\ ~ HalvesApart
      /\ objects = (IF "node" \in charts THEN NodeOutput ELSE {})
                       \cup (IF "platform" \in charts THEN PlatformOutput ELSE {})
  BY DEF IInv, RenderInv
<1>2. platform.output \in {"cluster", "hostedcluster", "guest"}
  BY <1>1 DEF TypeOK, PlatformFile
<1>3. SUFFICES \E c \in {"standalone", "management", "guest"} :
                   (\A o \in objects : c \in ReadOn(o)) /\ (ForHosted => c # "standalone")
  BY DEF OneCluster
<1>4. CASE charts = {"node"}
  <2>1. objects = NodeOutput /\ (ForHosted <=> node.hypershift)
    BY <1>1, <1>4 DEF ForHosted
  <2>2. CASE Nodepool
    BY <1>1, <1>4, <2>1, <2>2, NodeHalf
  <2>3. CASE ~ Nodepool
    BY <1>1, <1>4, <2>1, <2>3, NodeHalf
  <2>4. QED
    BY <2>2, <2>3
<1>5. CASE charts = {"platform"}
  <2>1. objects = PlatformOutput /\ (ForHosted <=> platform.hypershift)
    BY <1>1, <1>5 DEF ForHosted
  <2>2. QED
    BY <1>1, <1>2, <1>5, <2>1, PlatformHalf
<1>6. CASE charts = {"node", "platform"}
  <2>1. /\ objects = NodeOutput \cup PlatformOutput
        /\ ForHosted <=> node.hypershift /\ platform.hypershift
        /\ node.enabled
    BY <1>1, <1>6 DEF ForHosted, Umbrella
  <2>2. /\ node.hypershift = platform.hypershift
        /\ ~ (Nodepool /\ platform.output = "guest")
    BY <1>1, <1>6, <2>1 DEF HalvesApart, Umbrella
  <2>3. CASE Nodepool
    BY <1>1, <1>2, <1>6, <2>1, <2>2, <2>3, NodeHalf, PlatformHalf
  <2>4. CASE ~ Nodepool
    BY <1>1, <1>2, <1>6, <2>1, <2>2, <2>4, NodeHalf, PlatformHalf
  <2>5. QED
    BY <2>3, <2>4
<1>7. QED
  BY <1>1, <1>4, <1>5, <1>6

-----------------------------------------------------------------------------
(***************************************************************************)
(* Every active rule is in the output RULES.md places it in.               *)
(***************************************************************************)
LEMMA PlacementShape ==
    ASSUME NEW r \in Rules
    PROVE  /\ HostedPlacement(r) \in {"not_remediable", "nodepool", "hostedcluster", "guest"}
           /\ HostedPlacement(r) # "not_remediable" <=>
                  /\ TRUE \in HostedOK[r]
                  /\ r \in NodeRules => LimitOf[r] = {} \/ "worker" \in LimitOf[r]
           /\ HostedPlacement(r) = "nodepool" =>
                  r \in NodeRules /\ (LimitOf[r] = {} \/ "worker" \in LimitOf[r])
           /\ HostedPlacement(r) = "hostedcluster" => r \in Mapped
           /\ HostedPlacement(r) = "guest" => r \in PlatformRules \ Mapped
           /\ HostedPlacement(r) # "not_remediable" =>
                  /\ r \in NodeRules <=> HostedPlacement(r) = "nodepool"
                  /\ r \in Mapped <=> HostedPlacement(r) = "hostedcluster"
BY RuleNames DEF HostedPlacement, PlatformRules

\* The facts of a render for a hosted cluster: what is active there is not
\* excluded there, and no node object is written for the guest.
LEMMA HostedRender ==
    ASSUME IInv, pc = "rendered", ForHosted
    PROVE  /\ "node" \in charts /\ node.enabled => Nodepool
           /\ "node" \in charts => \A r \in active \cap NodeRules : TRUE \in HostedOK[r]
           /\ "platform" \in charts =>
                  /\ platform.output \in {"hostedcluster", "guest"}
                  /\ \A r \in active \cap PlatformRules : TRUE \in HostedOK[r]
<1>1. TypeOK /\ RenderInv
  BY DEF IInv
<1>2. "node" \in charts => node.hypershift = TRUE /\ ~ NodeOutputWrong
  BY <1>1 DEF ForHosted, RenderInv, TypeOK, NodeFile
<1>3. "platform" \in charts => platform.hypershift = TRUE /\ ~ PlatformOutputWrong
  BY <1>1 DEF ForHosted, RenderInv, TypeOK, PlatformFile
<1>4. ~ NotApplicable
  BY <1>1 DEF RenderInv
<1>5. "node" \in charts => \A r \in active \cap NodeRules : TRUE \in HostedOK[r]
  BY <1>2, <1>4 DEF NotApplicable
<1>6. "platform" \in charts => \A r \in active \cap PlatformRules : TRUE \in HostedOK[r]
  BY <1>3, <1>4 DEF NotApplicable
<1>7. "node" \in charts /\ node.enabled => Nodepool
  BY <1>2 DEF NodeOutputWrong
<1>8. "platform" \in charts => platform.output \in {"hostedcluster", "guest"}
  BY <1>1, <1>3 DEF PlatformOutputWrong, TypeOK, PlatformFile
<1>9. QED
  BY <1>5, <1>6, <1>7, <1>8

\* An object of a rule, in a render for a hosted cluster, is in the output its
\* rule is placed in, and that output is one of the render's.
LEMMA ObjectPlaced ==
    ASSUME IInv, pc = "rendered", ForHosted, NEW o \in objects, o.what \in Rules
    PROVE  /\ o.what \in active
           /\ OutputOf(o) = HostedPlacement(o.what)
           /\ HostedPlacement(o.what) \in Outputs
<1>1. TypeOK /\ RenderInv
  BY DEF IInv
<1>2. o.what \in active
  BY <1>1, RuleObject
<1>3. node.extra \in Extras /\ platform.extra \in Extras
  BY <1>1 DEF TypeOK, NodeFile, PlatformFile
<1>4. CASE "node" \in charts /\ o \in NodeOutput
  <2>1. /\ node.enabled /\ o.what \in active \cap NodeRules /\ o.form = FormOf(o.what)
        /\ o.role \in LoopRoles /\ (LimitOf[o.what] = {} \/ o.role \in LimitOf[o.what])
    BY <1>3, <1>4, NodeOutputObjects, ObjectFields, RuleNames
  <2>2. Nodepool /\ TRUE \in HostedOK[o.what] /\ o.role = "worker"
    BY <1>4, <2>1, HostedRender DEF LoopRoles
  <2>3. HostedPlacement(o.what) = "nodepool"
    BY <2>1, <2>2 DEF HostedPlacement
  <2>4. OutputOf(o) = "nodepool"
    BY <2>1, <2>2, FormShape DEF OutputOf
  <2>5. "nodepool" \in Outputs
    BY <1>4, <2>1, <2>2 DEF Outputs, Wraps
  <2>6. QED
    BY <1>2, <2>3, <2>4, <2>5
<1>5. CASE "platform" \in charts /\ o \in PlatformOutput
  <2>1. \/ /\ o.what \in active \cap PlatformRules /\ RendersDirect(o.what)
           /\ o.form = "direct"
        \/ /\ o.what \in active \cap Mapped /\ platform.output = "hostedcluster"
           /\ o.form = "hostedcluster"
    BY <1>3, <1>5, PlatformOutputObjects, ObjectFields, RuleNames
  <2>2. /\ platform.output \in {"hostedcluster", "guest"}
        /\ o.what \in PlatformRules /\ o.what \notin NodeRules /\ TRUE \in HostedOK[o.what]
    BY <1>5, <2>1, HostedRender, RuleNames
  <2>3. platform.output \in Outputs
    BY <1>5, <2>2 DEF Outputs
  <2>4. HostedPlacement(o.what) = IF o.what \in Mapped THEN "hostedcluster" ELSE "guest"
    BY <2>2 DEF HostedPlacement
  <2>5. OutputOf(o) = IF o.form = "hostedcluster" THEN "hostedcluster" ELSE "guest"
    BY <2>1 DEF OutputOf, Wrapped
  <2>6. o.form = "direct" => o.what \notin Mapped /\ platform.output = "guest"
    BY <2>1, <2>2 DEF RendersDirect
  <2>7. QED
    BY <1>2, <2>1, <2>2, <2>3, <2>4, <2>5, <2>6
<1>6. QED
  BY <1>1, <1>4, <1>5 DEF RenderInv

\* And every rule placed in an output of the render has one there.
LEMMA PlacedHasObject ==
    ASSUME IInv, pc = "rendered", ForHosted, NEW r \in active, HostedPlacement(r) \in Outputs
    PROVE  \E o \in objects : o.what = r
<1>1. TypeOK /\ RenderInv /\ r \in Rules
  BY DEF IInv, TypeOK
<1>2. HostedPlacement(r) \in {"nodepool", "hostedcluster", "guest"}
  BY <1>1, OutputsShape
<1>3. CASE HostedPlacement(r) = "nodepool"
  <2>1. Wraps
    BY <1>3, <1>1 DEF Outputs, TypeOK, PlatformFile
  <2>2. r \in active \cap NodeRules /\ (LimitOf[r] = {} \/ "worker" \in LimitOf[r])
    BY <1>1, <1>3, PlacementShape
  <2>3. Object(FormOf(r), r, "worker") \in NodeOutput
    BY <2>1, <2>2, NodeOutputHas DEF Wraps, LoopRoles
  <2>4. QED
    BY <1>1, <2>1, <2>3, ObjectFields DEF RenderInv, Wraps
<1>4. CASE HostedPlacement(r) = "hostedcluster"
  <2>1. "platform" \in charts /\ platform.output = "hostedcluster"
    BY <1>4 DEF Outputs
  <2>2. Object("hostedcluster", r, "none") \in PlatformOutput
    BY <1>1, <1>4, <2>1, PlacementShape, PlatformOutputHas
  <2>3. QED
    BY <1>1, <2>1, <2>2, ObjectFields DEF RenderInv
<1>5. CASE HostedPlacement(r) = "guest"
  <2>1. "platform" \in charts /\ platform.output = "guest"
    BY <1>5 DEF Outputs
  <2>2. r \in PlatformRules \ Mapped
    BY <1>1, <1>5, PlacementShape
  <2>3. Object("direct", r, "none") \in PlatformOutput
    BY <2>1, <2>2, PlatformOutputHas DEF RendersDirect
  <2>4. QED
    BY <1>1, <2>1, <2>3, ObjectFields DEF RenderInv
<1>6. QED
  BY <1>2, <1>3, <1>4, <1>5

LEMMA IInvImpliesPlacement == IInv => PlacementMatches
<1> SUFFICES ASSUME IInv, outcome = "rendered", ForHosted, NEW r \in active, NEW out \in Outputs
             PROVE  (\E o \in objects : o.what = r /\ OutputOf(o) = out) <=> HostedPlacement(r) = out
  BY DEF PlacementMatches
<1>1. pc = "rendered" /\ r \in Rules
  BY DEF IInv, RenderInv, TypeOK
<1>2. ASSUME NEW o \in objects, o.what = r, OutputOf(o) = out
      PROVE  HostedPlacement(r) = out
  BY <1>1, <1>2, ObjectPlaced
<1>3. ASSUME HostedPlacement(r) = out
      PROVE  \E o \in objects : o.what = r /\ OutputOf(o) = out
  BY <1>1, <1>3, PlacedHasObject, ObjectPlaced
<1>4. QED
  BY <1>2, <1>3

-----------------------------------------------------------------------------
(***************************************************************************)
(* What has been applied, over any number of renders.                      *)
(***************************************************************************)
\* A render applied to the hosted cluster's side goes where its rules belong.
LEMMA ClusterOfObject ==
    ASSUME IInv, pc = "rendered", ForHosted, NEW o \in objects, o.what \in Rules
    PROVE  ToManagement <=> HostedPlacement(o.what) # "guest"
<1>1. /\ TypeOK /\ RenderInv /\ HostedPlacement(o.what) \in Outputs
      /\ HostedPlacement(o.what) \in {"nodepool", "hostedcluster", "guest"}
  BY ObjectPlaced, OutputsShape DEF IInv
<1>2. CASE HostedPlacement(o.what) = "guest"
  <2>1. "platform" \in charts /\ platform.output = "guest"
    BY <1>1, <1>2 DEF Outputs
  <2>2. ~ Wraps
    <3>1. ~ HalvesApart
      BY <1>1 DEF RenderInv
    <3>2. charts = {"node", "platform"} \/ charts = {"platform"}
      BY <1>1, <2>1 DEF RenderInv
    <3>3. QED
      BY <2>1, <3>1, <3>2 DEF HalvesApart, Wraps, Umbrella
  <2>3. QED
    BY <1>2, <2>1, <2>2 DEF ToManagement
<1>3. CASE HostedPlacement(o.what) = "nodepool"
  BY <1>1, <1>3 DEF Outputs, ToManagement, TypeOK, PlatformFile
<1>4. CASE HostedPlacement(o.what) = "hostedcluster"
  BY <1>1, <1>4 DEF Outputs, ToManagement
<1>5. QED
  BY <1>1, <1>2, <1>3, <1>4

LEMMA ApplyAppliedInv == IInv /\ Apply => AppliedInv'
<1> SUFFICES ASSUME IInv, Apply, NEW a \in applied'
             PROVE  /\ a.rule \in active
                    /\ HostedPlacement(a.rule) # "not_remediable"
                    /\ a.cluster = IF HostedPlacement(a.rule) = "guest" THEN "guest" ELSE "management"
  BY DEF AppliedInv, Apply
<1>1. CASE a \in applied
  BY <1>1 DEF IInv, AppliedInv
<1>2. CASE a \notin applied
  <2>1. PICK o \in objects : /\ o.what \in Rules
                             /\ a.rule = o.what
                             /\ a.cluster = IF ToManagement THEN "management" ELSE "guest"
    BY <1>2 DEF Apply
  <2>2. pc = "rendered" /\ ForHosted /\ TypeOK
    BY DEF Apply, IInv
  <2>3. /\ o.what \in active /\ HostedPlacement(o.what) \in Outputs
        /\ ToManagement <=> HostedPlacement(o.what) # "guest"
    BY <2>1, <2>2, ObjectPlaced, ClusterOfObject
  <2>4. HostedPlacement(o.what) # "not_remediable"
    BY <2>2, <2>3, OutputsShape
  <2>5. QED
    BY <2>1, <2>3, <2>4
<1>3. QED
  BY <1>1, <1>2

LEMMA ApplyDeliveredInv == IInv /\ Apply => DeliveredInv'
<1> SUFFICES ASSUME IInv, Apply PROVE DeliveredInv'
  OBVIOUS
<1>1. /\ TypeOK /\ RenderInv /\ DeliveredInv /\ pc = "rendered" /\ ForHosted /\ active' = active
      /\ delivered' = delivered \cup Outputs /\ announced' = announced \cup notices
      /\ applied \subseteq applied'
  BY DEF IInv, Apply
<1>2. ASSUME NEW r \in active, HostedPlacement(r) \in delivered'
      PROVE  InEffect(r)'
  <2>1. CASE HostedPlacement(r) \in delivered
    BY <1>1, <2>1 DEF DeliveredInv, InEffect
  <2>2. CASE HostedPlacement(r) \in Outputs
    <3>1. PICK o \in objects : o.what = r
      BY <1>1, <2>2, PlacedHasObject
    <3>2. r \in Rules
      BY <1>1 DEF TypeOK
    <3>3. [cluster |-> IF ToManagement THEN "management" ELSE "guest", rule |-> r] \in applied'
      BY <3>1, <3>2 DEF Apply
    <3>4. QED
      BY <3>3 DEF InEffect
  <2>3. QED
    BY <1>1, <1>2, <2>1, <2>2
<1>3. ASSUME "platform" \in charts
      PROVE  notices = Notices
  BY <1>1, <1>3 DEF RenderInv
<1>4. ASSUME "hostedcluster" \in delivered', NEW r \in active, HostedPlacement(r) = "guest"
      PROVE  "guest" \in announced'
  <2>1. CASE "hostedcluster" \in delivered
    BY <1>1, <1>4, <2>1 DEF DeliveredInv
  <2>2. CASE "hostedcluster" \in Outputs
    <3>1. "platform" \in charts /\ platform.output = "hostedcluster"
      BY <2>2 DEF Outputs
    <3>2. r \in (active \cap PlatformRules) \ Mapped
      BY <1>1, <1>4, PlacementShape DEF TypeOK
    <3>3. QED
      BY <1>1, <1>3, <3>1, <3>2 DEF Notices
  <2>3. QED
    BY <1>1, <1>4, <2>1, <2>2
<1>5. ASSUME "guest" \in delivered', NEW r \in active, HostedPlacement(r) = "hostedcluster"
      PROVE  "hostedcluster" \in announced'
  <2>1. CASE "guest" \in delivered
    BY <1>1, <1>5, <2>1 DEF DeliveredInv
  <2>2. CASE "guest" \in Outputs
    <3>1. "platform" \in charts /\ platform.output = "guest"
      BY <2>2 DEF Outputs
    <3>2. r \in active \cap Mapped
      BY <1>1, <1>5, PlacementShape DEF TypeOK
    <3>3. QED
      BY <1>1, <1>3, <3>1, <3>2 DEF Notices
  <2>3. QED
    BY <1>1, <1>5, <2>1, <2>2
<1>6. QED
  BY <1>1, <1>2, <1>4, <1>5 DEF DeliveredInv

LEMMA NextHistory == IInv /\ [Next]_vars => DeliveredInv' /\ AppliedInv'
<1> SUFFICES ASSUME IInv, [Next]_vars PROVE DeliveredInv' /\ AppliedInv'
  OBVIOUS
<1>1. CASE UNCHANGED <<active, history>>
  BY <1>1 DEF IInv, DeliveredInv, AppliedInv, InEffect, history
<1>2. CASE StartStep
  BY <1>1, <1>2, StartFacts
<1>3. CASE CheckStep
  BY <1>1, <1>3, CheckFacts
<1>4. CASE Emit \/ Discard
  BY <1>1, <1>4 DEF Emit, Discard
<1>5. CASE UNCHANGED vars
  BY <1>1, <1>5 DEF vars
<1>6. QED
  BY <1>2, <1>3, <1>4, <1>5, NextCases, ApplyAppliedInv, ApplyDeliveredInv

LEMMA IInvImpliesHalf == IInv => HalfIsAnnounced
<1> SUFFICES ASSUME IInv, delivered \cap {"hostedcluster", "guest"} # {},
                    NEW r \in active \cap PlatformRules
             PROVE  InEffect(r) \/ HostedPlacement(r) \in announced \cup {"not_remediable"}
  BY DEF HalfIsAnnounced
<1>1. r \in Rules /\ r \notin NodeRules
  BY RuleNames DEF IInv, TypeOK
<1>2. HostedPlacement(r) \in {"not_remediable", "hostedcluster", "guest"}
  BY <1>1, PlacementShape
<1>3. QED
  BY <1>2 DEF IInv, DeliveredInv

\* A rule is on at most one cluster: what is applied determines it.
LEMMA IInvImpliesAllOutputs == IInv => AllOutputsSuffice
<1> SUFFICES ASSUME IInv, delivered = {"nodepool", "hostedcluster", "guest"}, NEW r \in active
             PROVE  Cardinality({a \in applied : a.rule = r})
                        = IF HostedPlacement(r) = "not_remediable" THEN 0 ELSE 1
  BY DEF AllOutputsSuffice
<1>1. r \in Rules /\ applied \in SUBSET [cluster : {"management", "guest"}, rule : Rules]
  BY DEF IInv, TypeOK
<1>2. HostedPlacement(r) \in {"not_remediable", "nodepool", "hostedcluster", "guest"}
  BY <1>1, PlacementShape
<1>3. CASE HostedPlacement(r) = "not_remediable"
  <2>1. {a \in applied : a.rule = r} = {}
    BY <1>3 DEF IInv, AppliedInv
  <2>2. QED
    BY <1>3, <2>1, FS_EmptySet
<1>4. CASE HostedPlacement(r) # "not_remediable"
  <2> DEFINE where == IF HostedPlacement(r) = "guest" THEN "guest" ELSE "management"
             it == [cluster |-> where, rule |-> r]
  <2>1. ASSUME NEW a \in applied, a.rule = r
        PROVE  a = it
    <3>1. a.cluster = where
      BY <2>1 DEF IInv, AppliedInv
    <3>2. QED
      BY <1>1, <2>1, <3>1
  <2>2. \E a \in applied : a.rule = r
    BY <1>2, <1>4 DEF IInv, DeliveredInv, InEffect
  <2>3. {a \in applied : a.rule = r} = {it}
    BY <2>1, <2>2
  <2>4. Cardinality({it}) = 1
    BY FS_Singleton
  <2>5. QED
    BY <1>4, <2>3, <2>4
<1>5. QED
  BY <1>3, <1>4

-----------------------------------------------------------------------------
LEMMA InitIInv == Init => IInv
BY InitTypeOK DEF Init, IInv, RenderInv, DeliveredInv, AppliedInv

LEMMA NextIInv == IInv /\ [Next]_vars => IInv'
BY NextTypeOK, NextRenderInv, NextHistory DEF IInv

\* Every state has passed the preflights before it, and what is applied is
\* where RULES.md places it.
THEOREM IInvCorrect == Spec => []IInv
<1>1. Init => IInv
  BY InitIInv
<1>2. IInv /\ [Next]_vars => IInv'
  BY NextIInv
<1>3. QED
  BY <1>1, <1>2, PTL DEF Spec

\* Values, objects and what is applied keep their shape (emit.py).
THEOREM TypeCorrect == Spec => []TypeOK
<1>1. IInv => TypeOK
  BY DEF IInv
<1>2. QED
  BY <1>1, IInvCorrect, PTL

\* The output preflights leave no render with objects for two clusters, the
\* umbrella with its node half disabled apart.
THEOREM OneClusterCorrect == Spec => []OneRenderOneCluster
<1>1. QED
  BY IInvImpliesOneCluster, IInvCorrect, PTL

\* _hosted_placement says of every rule where the templates render it.
THEOREM PlacementCorrect == Spec => []PlacementMatches
<1>1. QED
  BY IInvImpliesPlacement, IInvCorrect, PTL

\* The comments of hostedcluster_template name the output still to be applied.
THEOREM HalfIsAnnouncedCorrect == Spec => []HalfIsAnnounced
<1>1. QED
  BY IInvImpliesHalf, IInvCorrect, PTL

\* The three outputs together put every remediable rule on exactly one cluster.
THEOREM AllOutputsCorrect == Spec => []AllOutputsSuffice
<1>1. QED
  BY IInvImpliesAllOutputs, IInvCorrect, PTL

=============================================================================
