--------------------------- MODULE ObjectTemplate ---------------------------
(***************************************************************************)
(* One target object of a chart: the generator detects the conflicts of    *)
(* the rules that write it (collisions.py, _detect_conflicts), emits its   *)
(* template (emit.py, object_template), and every later `helm template`    *)
(* runs that template with the values the user has set.                    *)
(*                                                                         *)
(* A document is a rule's fix for this object: the rule, the OpenShift     *)
(* versions its semver gate admits, and its body, which maps each leaf     *)
(* path to a content or to NoContent.  The entries of storage.files are    *)
(* leaves of their own, identified by path: they are the members of Files. *)
(* A platform object is the instance with one member in Roles.             *)
(***************************************************************************)
EXTENDS Naturals, Sequences

CONSTANTS
    Rules,        \* rule ids
    Versions,     \* cluster.ocpVersion values
    Roles,        \* node roles
    Paths,        \* leaf paths below the object root
    Files,        \* those of them that are entries of spec.config.storage.files
    UnionPaths,   \* those of them under a subtree of _UNION_SUBTREES
    Contents,     \* values of a leaf
    NoContent,    \* a leaf that is not written
    Bodies,       \* the bodies a document may have
    Windows,      \* the version windows a document may have
    RuleLimits,   \* each rule's role restriction ({} for none), as upstream may set them
    ValuesFiles,  \* the values files users render with
    Shipped,      \* the values.yaml of the chart, one of them
    MaxDocs       \* bound: documents of the object

Leaves == [Paths -> Contents \cup {NoContent}]

ValuesFile == [active : SUBSET Rules, version : Versions, enabled : BOOLEAN,
               roles : SUBSET Roles, broken : SUBSET Rules]

Docs == [rule : Rules, window : Windows, body : Bodies]

ASSUME ConstantsAssumption ==
    /\ Files \subseteq Paths
    /\ UnionPaths \subseteq Paths
    /\ NoContent \notin Contents
    /\ Bodies \subseteq Leaves
    /\ Windows \subseteq SUBSET Versions
    /\ RuleLimits \subseteq [Rules -> SUBSET Roles]
    /\ ValuesFiles \subseteq ValuesFile
    /\ Shipped \in ValuesFiles
    /\ MaxDocs \in Nat

VARIABLES
    docs,        \* group.docs, in the order build_groups appended them
    limits,      \* appl[rule].roles
    family,      \* is the object one of classify.CONSOLIDATED_NAMES?
    leafByRule,  \* leaf_by_rule: what each rule writes, over all its documents
    conflicts,   \* the rule sets of group.conflicts()
    values,      \* the values file of the current render
    pc, next,    \* where the generator or the render is, and its loop index
    merged,      \* $merged
    fileAcc,     \* $fileAcc
    outcome,     \* how the last render ended
    emitted      \* the roles the last render wrote an object for

groupVars  == <<docs, limits, family>>
renderVars == <<values, merged, fileAcc, outcome, emitted>>
vars == <<groupVars, leafByRule, conflicts, renderVars, pc, next>>

-----------------------------------------------------------------------------
(***************************************************************************)
(* Bodies.                                                                 *)
(***************************************************************************)
Nothing == [p \in Paths |-> NoContent]

\* Fault: assigning instead of updating drops the paths the new one lacks.
Assign(old, new) == [p \in {q \in Paths : new[q] # NoContent} |-> new[p]]

\* dict.update and mustMergeOverwrite on scalar leaves: the later one wins.
Overwrite(old, new) == [p \in Paths |-> IF new[p] # NoContent THEN new[p] ELSE old[p]]

FilesOf(body) == [p \in Paths |-> IF p \in Files THEN body[p] ELSE NoContent]

\* mustMergeOverwrite as a whole: a list in the fragment replaces the list.
MergeOverwrite(old, new) ==
    [p \in Paths |-> IF p \in Files /\ FilesOf(new) # Nothing
                     THEN new[p] ELSE Overwrite(old, new)[p]]

\* mergeable_shape: the leaves outside the lists merged by identity.
Shape(body) == [p \in Paths |-> IF p \in Files THEN NoContent ELSE body[p]]

HasBody(d) == d.body # Nothing

MoreThanOne(S) == \E x, y \in S : x # y

RulesOf(seq) == {seq[i].rule : i \in DOMAIN seq}

\* build_groups walks rule by rule, so a rule's documents are consecutive.
RuleByRule(seq) ==
    \A i, j, k \in DOMAIN seq :
        i < j /\ j < k /\ seq[i].rule = seq[k].rule => seq[j].rule = seq[i].rule

-----------------------------------------------------------------------------
(***************************************************************************)
(* Generation.                                                             *)
(***************************************************************************)
Writers(P) == {r \in Rules : \E p \in P : leafByRule[r][p] # NoContent}

\* The values the rules that write p give it.
ValuesAt(p) == {leafByRule[r][p] : r \in Writers({p})}

\* Faults: only one of the two kinds of conflict is detected.
OnlyUnionConflicts == {W \in {Writers(UnionPaths)} : MoreThanOne(W)}
OnlyLeafConflicts == {Writers({p}) : p \in {q \in Paths : MoreThanOne(ValuesAt(q))}}

\* Fault: any two rules that write one leaf are alternatives.
AnySharedLeaf == {Writers({p}) : p \in {q \in Paths : MoreThanOne(Writers({q}))}}
                     \cup {W \in {Writers(UnionPaths)} : MoreThanOne(W)}

DetectedConflicts ==
    {Writers({p}) : p \in {q \in Paths : MoreThanOne(ValuesAt(q))}}
        \cup {W \in {Writers(UnionPaths)} : MoreThanOne(W)}

BodyDocs == {docs[i] : i \in {j \in DOMAIN docs : HasBody(docs[j])}}

\* Fault: a consolidated family is not checked for mixed shapes.
ShapesUnchecked == FALSE

\* The two ValueErrors of object_template: a consolidated family whose members
\* differ outside the files, and rules with different role restrictions.
MixedShapes == family /\ MoreThanOne({Shape(d.body) : d \in BodyDocs})
MixedRoles  == MoreThanOne({limits[d.rule] : d \in BodyDocs})

Init ==
    /\ docs \in UNION {[1..n -> Docs] : n \in 1..MaxDocs}
    /\ RuleByRule(docs)
    /\ limits \in RuleLimits
    /\ family \in BOOLEAN
    /\ leafByRule = [r \in Rules |-> Nothing]
    /\ conflicts = {}
    /\ values = Shipped
    /\ pc = "flatten"
    /\ next = 1
    /\ merged = Nothing
    /\ fileAcc = Nothing
    /\ outcome = "none"
    /\ emitted = {}

\* leaf_by_rule.setdefault(d.rule_id, {}).update(_leaf_paths(d.yaml))
FlattenDoc ==
    /\ pc = "flatten"
    /\ next <= Len(docs)
    /\ leafByRule' = [leafByRule EXCEPT ![docs[next].rule] = Overwrite(@, docs[next].body)]
    /\ next' = next + 1
    /\ UNCHANGED <<groupVars, conflicts, renderVars, pc>>

EmitTemplate ==
    /\ pc = "flatten"
    /\ next > Len(docs)
    /\ conflicts' = DetectedConflicts
    /\ pc' = IF MixedShapes \/ MixedRoles THEN "rejected" ELSE "ready"
    /\ UNCHANGED <<groupVars, leafByRule, renderVars, next>>

-----------------------------------------------------------------------------
(***************************************************************************)
(* Rendering.                                                              *)
(***************************************************************************)
\* Fault: the semver gate of a version variant is lost.
SelectedAtAnyVersion(d) == HasBody(d) /\ d.rule \in values.active

Selected(d) == /\ HasBody(d)
               /\ d.rule \in values.active
               /\ values.version \in d.window

\* A render is over: it emitted objects, nothing, or failed.
Finish(how, roles) == /\ outcome' = how
                      /\ emitted' = roles
                      /\ pc' = "ready"

\* The gate on cr.anyActive, and the conflict guards behind it.
StartRender(v) ==
    /\ pc = "ready"
    /\ values' = v
    /\ merged' = Nothing
    /\ fileAcc' = Nothing
    /\ next' = 1
    /\ \/ /\ ~ (v.enabled /\ RulesOf(docs) \cap v.active # {})
          /\ Finish("absent", {})
       \/ /\ v.enabled /\ RulesOf(docs) \cap v.active # {}
          /\ \E c \in conflicts : MoreThanOne(c \cap v.active)
          /\ Finish("conflict", {})
       \/ /\ v.enabled /\ RulesOf(docs) \cap v.active # {}
          /\ ~ \E c \in conflicts : MoreThanOne(c \cap v.active)
          /\ outcome' = "none" /\ emitted' = {} /\ pc' = "merge"
    /\ UNCHANGED <<groupVars, leafByRule, conflicts>>

AtFragment == pc = "merge" /\ next <= Len(docs)

SkipFragment ==
    /\ AtFragment
    /\ ~ Selected(docs[next])
    /\ next' = next + 1
    /\ UNCHANGED <<groupVars, leafByRule, conflicts, renderVars, pc>>

\* fromYaml gave {"Error": ...}: a variable's value broke the fragment.
RefuseInvalidYaml ==
    /\ AtFragment
    /\ Selected(docs[next])
    /\ docs[next].rule \in values.broken
    /\ Finish("invalidYaml", {})
    /\ UNCHANGED <<groupVars, leafByRule, conflicts, values, merged, fileAcc, next>>

\* Fault: any second writer of a file clashes, even with the same content.
SecondWriter(body) == \E f \in Files : body[f] # NoContent /\ fileAcc[f] # NoContent

\* A file of the fragment that an earlier fragment wrote with another content.
Clash(body) == \E f \in Files : /\ body[f] # NoContent
                                /\ fileAcc[f] # NoContent
                                /\ fileAcc[f] # body[f]

RefuseFile ==
    /\ AtFragment
    /\ Selected(docs[next])
    /\ docs[next].rule \notin values.broken
    /\ Clash(docs[next].body)
    /\ Finish("fileConflict", {})
    /\ UNCHANGED <<groupVars, leafByRule, conflicts, values, merged, fileAcc, next>>

MergeFragment ==
    /\ AtFragment
    /\ Selected(docs[next])
    /\ docs[next].rule \notin values.broken
    /\ ~ Clash(docs[next].body)
    /\ fileAcc' = Overwrite(fileAcc, FilesOf(docs[next].body))
    /\ merged' = MergeOverwrite(merged, docs[next].body)
    /\ next' = next + 1
    /\ UNCHANGED <<groupVars, leafByRule, conflicts, values, outcome, emitted, pc>>

\* Fault: the files stay as the last mustMergeOverwrite left them.
NoWriteBack(body) == body

\* $fileAcc, ordered by path, replaces whatever list the merge left.
WriteBack(body) == IF fileAcc = Nothing THEN body ELSE MergeOverwrite(body, fileAcc)

\* The restriction all rules of the group share.
RoleLimit == UNION {limits[d.rule] : d \in BodyDocs}

\* Fault: the role loop is not restricted.
EveryRole == values.roles

RolesToRender == {r \in values.roles : RoleLimit = {} \/ r \in RoleLimit}

AfterMerge == pc = "merge" /\ next > Len(docs)

RefuseEmpty ==
    /\ AfterMerge
    /\ WriteBack(merged) = Nothing
    /\ Finish("noVariant", {})
    /\ UNCHANGED <<groupVars, leafByRule, conflicts, values, merged, fileAcc, next>>

EmitObject ==
    /\ AfterMerge
    /\ WriteBack(merged) # Nothing
    /\ merged' = WriteBack(merged)
    /\ Finish("rendered", RolesToRender)
    /\ UNCHANGED <<groupVars, leafByRule, conflicts, values, fileAcc, next>>

Next ==
    \/ FlattenDoc
    \/ EmitTemplate
    \/ \E v \in ValuesFiles : StartRender(v)
    \/ SkipFragment
    \/ RefuseInvalidYaml
    \/ RefuseFile
    \/ MergeFragment
    \/ RefuseEmpty
    \/ EmitObject

Spec == Init /\ [][Next]_vars

-----------------------------------------------------------------------------
(***************************************************************************)
(* Properties.                                                             *)
(***************************************************************************)
\* The state has the shape the generator and the template give it.
TypeOK ==
    /\ docs \in Seq(Docs)
    /\ limits \in [Rules -> SUBSET Roles]
    /\ family \in BOOLEAN
    /\ leafByRule \in [Rules -> Leaves]
    /\ conflicts \in SUBSET (SUBSET Rules)
    /\ values \in ValuesFile
    /\ pc \in {"flatten", "rejected", "ready", "merge"}
    /\ next \in 1..(Len(docs) + 1)
    /\ merged \in Leaves
    /\ fileAcc \in Leaves
    /\ outcome \in {"none", "absent", "conflict", "invalidYaml", "fileConflict",
                    "noVariant", "rendered"}
    /\ emitted \in SUBSET Roles

\* The documents whose rule is active, at a version they are meant for.
SelectedDocs == {docs[i] : i \in {j \in DOMAIN docs : docs[j].rule \in values.active
                                                    /\ values.version \in docs[j].window}}

Rendered == outcome = "rendered"

\* Every document the values select keeps what it writes at the paths P.
Kept(P) == \A d \in SelectedDocs, p \in P : d.body[p] # NoContent => merged[p] = d.body[p]

\* storage.files accumulates by path: in a rendered object no active fix has
\* lost a file to another fix that replaced the list (emit.py 1324-1360).
NoFileLost == Rendered => Kept(Files)

\* A rule's own documents never give one leaf two values.
VariantsAgree ==
    \A i, j \in DOMAIN docs : docs[i].rule = docs[j].rule =>
        \A p \in Paths \ Files :
            docs[i].body[p] = NoContent \/ docs[j].body[p] = NoContent
                \/ docs[i].body[p] = docs[j].body[p]

\* mustMergeOverwrite lets the last writer of a leaf win; the conflict guards
\* are what keeps a rendered object from having silently lost an active fix's
\* leaf.  They do so for every object whose rules agree with themselves.
NoLeafLost == Rendered /\ VariantsAgree => Kept(Paths)

\* In a consolidated family nothing is lost even where variants differ: the
\* shape check at generation leaves only files to merge (emit.py 1379-1392).
FamilyLosesNothing == Rendered /\ family => Kept(Paths)

\* A rendered object holds nothing but what an active fix, in its version
\* window, writes: no inactive rule and no other variant leaks in.
NothingInvented ==
    Rendered => \A p \in Paths : merged[p] # NoContent =>
                    \E d \in SelectedDocs : d.body[p] = merged[p]

\* A type-discriminated union is never assembled from two rules.
UnionFromOneRule ==
    Rendered => ~ MoreThanOne({d.rule : d \in {e \in SelectedDocs :
                        \E p \in UnionPaths : e.body[p] # NoContent}})

\* The object exists for exactly the roles each of its active rules is meant
\* for: one merged body serves the whole role loop, so this needs the
\* generator to have refused mixed restrictions (emit.py 1394-1417).
RolesExact ==
    Rendered => \A d \in SelectedDocs : HasBody(d) =>
        emitted = {r \in values.roles : limits[d.rule] = {} \/ r \in limits[d.rule]}

\* The render refuses a file only when two active fixes, both in their version
\* window, really disagree about it: sshd's pre-4.13 and later variants of one
\* file do not meet.
FileRefusalJustified ==
    outcome = "fileConflict" =>
        \E d, e \in SelectedDocs, f \in Files :
            /\ d.body[f] # NoContent /\ e.body[f] # NoContent
            /\ d.body[f] # e.body[f]

-----------------------------------------------------------------------------
(***************************************************************************)
(* The inductive invariant behind the properties.                          *)
(***************************************************************************)
\* The control state and the outcome agree, and a template exists only for a
\* group the generator did not reject, with the conflicts of its rules.
ControlInv ==
    /\ outcome # "none" => pc = "ready"
    /\ pc # "flatten" => conflicts = DetectedConflicts
    /\ pc \in {"ready", "merge"} => ~ MixedShapes /\ ~ MixedRoles

Flattened(i) == i \in DOMAIN docs /\ (pc = "flatten" => i < next)

\* leaf_by_rule misses no path, and holds the one value of a path on which the
\* documents of its rule agree.
LeafInv ==
    \A i \in DOMAIN docs, p \in Paths :
        Flattened(i) /\ docs[i].body[p] # NoContent =>
            /\ leafByRule[docs[i].rule][p] # NoContent
            /\ VariantsAgree /\ p \notin Files =>
                   leafByRule[docs[i].rule][p] = docs[i].body[p]

\* leaf_by_rule holds nothing a document of the rule does not write.
LeafSourced ==
    \A r \in Rules, p \in Paths : leafByRule[r][p] # NoContent =>
        \E i \in DOMAIN docs : docs[i].rule = r /\ docs[i].body[p] = leafByRule[r][p]

GuardsPassed == ~ \E k \in conflicts : MoreThanOne(k \cap values.active)

\* The documents merged so far.
InMerge(i) == i \in 1..(next - 1) /\ i \in DOMAIN docs /\ Selected(docs[i])

\* What acc holds was written by a document merged so far.
Sourced(acc, P) ==
    \A p \in P : acc[p] # NoContent => \E i \in DOMAIN docs : InMerge(i) /\ docs[i].body[p] = acc[p]

MergeInv ==
    pc = "merge" =>
        /\ GuardsPassed
        /\ \A p \in Paths \ Files : fileAcc[p] = NoContent
        /\ Sourced(merged, Paths)
        /\ Sourced(fileAcc, Files)
        /\ \A i \in DOMAIN docs : InMerge(i) =>
               /\ \A f \in Files : docs[i].body[f] # NoContent => fileAcc[f] = docs[i].body[f]
               /\ \A p \in Paths \ Files : docs[i].body[p] # NoContent => merged[p] # NoContent

RenderedInv ==
    Rendered =>
        /\ GuardsPassed
        /\ NothingInvented
        /\ NoFileLost
        /\ \A d \in SelectedDocs, p \in Paths \ Files : d.body[p] # NoContent => merged[p] # NoContent
        /\ emitted = RolesToRender

IInv == TypeOK /\ ControlInv /\ LeafInv /\ LeafSourced /\ MergeInv /\ RenderedInv
            /\ FileRefusalJustified

-----------------------------------------------------------------------------
(***************************************************************************)
(* The fragments, the guards and the accumulator implement HardenedObject. *)
(***************************************************************************)
Status == IF pc = "merge" THEN "working"
          ELSE IF outcome \in {"none", "absent", "rendered"} THEN outcome ELSE "refused"

Hardening == INSTANCE HardenedObject WITH
    status <- Status,
    object <- IF Rendered THEN merged ELSE Nothing

\* Merging fragment by fragment, with guards computed at generation from other
\* documents than those selected now, amounts to rendering all selected fixes
\* at once: a render that is neither complete nor refused for a reason in the
\* fixes and the values does not exist, and no render depends on an earlier one.
ImplementsHardening == Hardening!Spec

-----------------------------------------------------------------------------
(***************************************************************************)
(* What the repository says of the template and the code does not do.      *)
(***************************************************************************)
\* emit.py 1362-1366: "an active rule that cannot be rendered is an error, not
\* something to paper over", so a rendered object contains a fix of every
\* active rule that has one for it.
ActiveRuleRendered ==
    Rendered => \A d \in BodyDocs : d.rule \in values.active =>
                    \E e \in SelectedDocs : e.rule = d.rule

=============================================================================
