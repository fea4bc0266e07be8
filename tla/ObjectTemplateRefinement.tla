---------------------- MODULE ObjectTemplateRefinement ----------------------
(***************************************************************************)
(* ObjectTemplate implements HardenedObject: the generator's conflicts,    *)
(* the guards, the fragment loop and the file accumulator amount to one    *)
(* step that renders all the selected fixes, or refuses for a reason that  *)
(* lies in them.  The argument uses the inductive invariant IInv.          *)
(***************************************************************************)
EXTENDS ObjectTemplateProofs

-----------------------------------------------------------------------------
(***************************************************************************)
(* The vocabulary of the two specifications.                               *)
(***************************************************************************)
LEMMA SameNothing == Hardening!Nothing = Nothing
BY DEF Hardening!Nothing, Nothing

\* A body is not empty when it writes a path.
LEMMA SameHasBody ==
    ASSUME NEW d, d.body \in Leaves
    PROVE  Hardening!HasBody(d) <=> HasBody(d)
<1>1. d.body = [p \in Paths |-> d.body[p]]
  BY DEF Leaves
<1>2. (\A p \in Paths : d.body[p] = NoContent) => d.body = Nothing
  BY <1>1 DEF Nothing
<1>3. d.body = Nothing => \A p \in Paths : d.body[p] = NoContent
  BY DEF Nothing
<1>4. QED
  BY <1>2, <1>3 DEF Hardening!HasBody, Hardening!Writes, HasBody

LEMMA DocumentsType ==
    ASSUME TypeOK, NEW d \in Hardening!Documents
    PROVE  d.rule \in Rules /\ d.body \in Leaves
BY DocType DEF Hardening!Documents

\* The documents the abstract render selects are those the loop selects.
LEMMA SameSelected ==
    ASSUME TypeOK, NEW d
    PROVE  d \in Hardening!Selected(values) <=> d \in SelectedDocs /\ HasBody(d)
<1>1. \A i \in DOMAIN docs : Hardening!HasBody(docs[i]) <=> HasBody(docs[i])
  BY SameHasBody, DocType
<1>2. QED
  BY <1>1 DEF Hardening!Selected, Hardening!Active, Hardening!Documents, SelectedDocs

LEMMA SelectedIsSelected ==
    ASSUME TypeOK, NEW i \in DOMAIN docs, Selected(docs[i])
    PROVE  docs[i] \in Hardening!Selected(values)
<1>1. HasBody(docs[i]) /\ docs[i] \in SelectedDocs
  BY SelectedDocsMember DEF Selected
<1>2. QED
  BY <1>1, SameSelected

\* The gate of the template is the abstract one.
LEMMA SameGate ==
    ASSUME NEW v
    PROVE  Hardening!Unwanted(v) <=> ~ (v.enabled /\ RulesOf(docs) \cap v.active # {})
BY DEF Hardening!Unwanted, Hardening!Active, Hardening!Documents, RulesOf

-----------------------------------------------------------------------------
(***************************************************************************)
(* The conflicts computed at generation are rivals among the documents.    *)
(***************************************************************************)
\* What leaf_by_rule holds goes back to a document.
LEMMA WriterHasDocument ==
    ASSUME LeafSourced, NEW r \in Rules, NEW p \in Paths, leafByRule[r][p] # NoContent
    PROVE  \E d \in Hardening!Documents :
               d.rule = r /\ Hardening!Writes(d, p) /\ d.body[p] = leafByRule[r][p]
<1>1. PICK i \in DOMAIN docs : docs[i].rule = r /\ docs[i].body[p] = leafByRule[r][p]
  BY DEF LeafSourced
<1>2. docs[i] \in Hardening!Documents
  BY DEF Hardening!Documents
<1>3. QED
  BY <1>1, <1>2 DEF Hardening!Writes

\* Two values at a path come from two rules, whose documents contest the path.
LEMMA ManyValuesContested ==
    ASSUME LeafSourced, NEW p \in Paths, MoreThanOne(ValuesAt(p))
    PROVE  Hardening!Contested(p)
<1>1. PICK r, s \in Writers({p}) : leafByRule[r][p] # leafByRule[s][p]
  BY DEF MoreThanOne, ValuesAt
<1>2. /\ r \in Rules /\ leafByRule[r][p] # NoContent
      /\ s \in Rules /\ leafByRule[s][p] # NoContent
  BY <1>1 DEF Writers
<1>3. PICK d \in Hardening!Documents :
          d.rule = r /\ Hardening!Writes(d, p) /\ d.body[p] = leafByRule[r][p]
  BY <1>2, WriterHasDocument
<1>4. PICK e \in Hardening!Documents :
          e.rule = s /\ Hardening!Writes(e, p) /\ e.body[p] = leafByRule[s][p]
  BY <1>2, WriterHasDocument
<1>5. QED
  BY <1>1, <1>3, <1>4 DEF Hardening!Contested

\* Two active rules of one detected conflict are rivals.
LEMMA ConflictsAreRivals ==
    ASSUME TypeOK, LeafSourced, NEW v,
           NEW W \in DetectedConflicts, MoreThanOne(W \cap v.active)
    PROVE  Hardening!Rivals(v)
<1>1. PICK r, s \in W : r # s /\ r \in v.active /\ s \in v.active
  BY DEF MoreThanOne
<1>2. \A d \in Hardening!Documents : d.rule \in v.active => d \in Hardening!Active(v)
  BY DEF Hardening!Active
<1>3. ASSUME NEW p \in Paths, W = Writers({p}), MoreThanOne(ValuesAt(p))
      PROVE  Hardening!Rivals(v)
  <2>1. /\ r \in Rules /\ leafByRule[r][p] # NoContent
        /\ s \in Rules /\ leafByRule[s][p] # NoContent
    BY <1>1, <1>3 DEF Writers
  <2>2. PICK d \in Hardening!Documents : d.rule = r /\ Hardening!Writes(d, p)
    BY <2>1, WriterHasDocument
  <2>3. PICK e \in Hardening!Documents : e.rule = s /\ Hardening!Writes(e, p)
    BY <2>1, WriterHasDocument
  <2>4. Hardening!Contested(p)
    BY <1>3, ManyValuesContested
  <2>5. QED
    BY <1>1, <1>2, <2>2, <2>3, <2>4 DEF Hardening!Rivals
<1>4. ASSUME W = Writers(UnionPaths)
      PROVE  Hardening!Rivals(v)
  <2>1. PICK p \in UnionPaths : leafByRule[r][p] # NoContent
    BY <1>1, <1>4 DEF Writers
  <2>2. PICK q \in UnionPaths : leafByRule[s][q] # NoContent
    BY <1>1, <1>4 DEF Writers
  <2>3. r \in Rules /\ s \in Rules /\ p \in Paths /\ q \in Paths
    BY <1>1, <1>4, ConstantsAssumption DEF Writers
  <2>4. PICK d \in Hardening!Documents : d.rule = r /\ Hardening!Writes(d, p)
    BY <2>1, <2>3, WriterHasDocument
  <2>5. PICK e \in Hardening!Documents : e.rule = s /\ Hardening!Writes(e, q)
    BY <2>2, <2>3, WriterHasDocument
  <2>6. QED
    BY <1>1, <1>2, <2>4, <2>5 DEF Hardening!Rivals
<1>5. QED
  BY <1>3, <1>4 DEF DetectedConflicts

-----------------------------------------------------------------------------
(***************************************************************************)
(* Every step maps to an abstract one.                                     *)
(***************************************************************************)
LEMMA InitMapped == Init => Hardening!Init
BY SameNothing DEF Init, Hardening!Init, Status, Rendered

\* Steps of the generator and inside the loop are invisible.
LEMMA LoopInvisible ==
    ASSUME ControlInv, FlattenDoc \/ EmitTemplate \/ SkipFragment \/ MergeFragment
    PROVE  UNCHANGED Hardening!vars
<1>1. UNCHANGED <<docs, limits, values, outcome, emitted>>
  BY DEF FlattenDoc, EmitTemplate, SkipFragment, MergeFragment, groupVars, renderVars
<1>2. pc = "merge" <=> pc' = "merge"
  BY DEF FlattenDoc, EmitTemplate, SkipFragment, MergeFragment, AtFragment
<1>3. ~ Rendered /\ ~ Rendered'
  BY <1>1 DEF ControlInv, Rendered, FlattenDoc, EmitTemplate, SkipFragment,
     MergeFragment, AtFragment
<1>4. QED
  BY <1>1, <1>2, <1>3 DEF Hardening!vars, Status

LEMMA StartRenderMapped ==
    ASSUME IInv, NEW v \in ValuesFiles, StartRender(v)
    PROVE  Hardening!Ask(v)
<1>1. /\ UNCHANGED <<docs, limits>> /\ values' = v /\ pc = "ready"
  BY DEF StartRender, groupVars
<1>2. Status # "working"
  BY <1>1 DEF Status
<1>3. CASE outcome' = "absent"
  <2>1. Hardening!Unwanted(v) /\ emitted' = {} /\ pc' = "ready"
    BY <1>3, SameGate DEF StartRender, Finish
  <2>2. QED
    BY <1>1, <1>2, <1>3, <2>1, SameNothing DEF Hardening!Ask, Status, Rendered
<1>4. CASE outcome' = "none"
  <2>1. ~ Hardening!Unwanted(v) /\ emitted' = {} /\ pc' = "merge"
    BY <1>4, SameGate DEF StartRender, Finish
  <2>2. QED
    BY <1>1, <1>2, <1>4, <2>1, SameNothing DEF Hardening!Ask, Status, Rendered
<1>5. CASE outcome' = "conflict"
  <2>1. /\ ~ Hardening!Unwanted(v) /\ emitted' = {} /\ pc' = "ready"
        /\ \E k \in conflicts : MoreThanOne(k \cap v.active)
    BY <1>5, SameGate DEF StartRender, Finish
  <2>2. conflicts = DetectedConflicts
    BY <1>1 DEF IInv, ControlInv
  <2>3. Hardening!Rivals(v)
    BY <2>1, <2>2, ConflictsAreRivals DEF IInv
  <2>4. QED
    BY <1>1, <1>2, <1>5, <2>1, <2>3, SameNothing
       DEF Hardening!Ask, Hardening!Excused, Hardening!Refused, Status, Rendered
<1>6. QED
  BY <1>3, <1>4, <1>5 DEF StartRender, Finish

\* What a step that refuses must show.
LEMMA RefusalMapped ==
    ASSUME pc = "merge", UNCHANGED <<docs, limits, values>>,
           Hardening!Excused(values),
           pc' = "ready", emitted' = {},
           outcome' \in {"invalidYaml", "fileConflict", "noVariant"}
    PROVE  Hardening!Refuse
BY SameNothing DEF Hardening!Refuse, Hardening!Refused, Status, Rendered

LEMMA RefuseInvalidYamlMapped ==
    ASSUME IInv, RefuseInvalidYaml
    PROVE  Hardening!Refuse
<1>1. /\ pc = "merge" /\ UNCHANGED <<docs, limits, values>>
      /\ pc' = "ready" /\ emitted' = {} /\ outcome' = "invalidYaml"
      /\ next \in DOMAIN docs /\ Selected(docs[next]) /\ docs[next].rule \in values.broken
  BY DEF RefuseInvalidYaml, AtFragment, Finish, groupVars, IInv, TypeOK
<1>2. Hardening!Unreadable(values)
  BY <1>1, SelectedIsSelected DEF IInv, Hardening!Unreadable
<1>3. QED
  BY <1>1, <1>2, RefusalMapped DEF Hardening!Excused

LEMMA RefuseFileMapped ==
    ASSUME IInv, RefuseFile
    PROVE  Hardening!Refuse
<1>1. /\ pc = "merge" /\ UNCHANGED <<docs, limits, values>>
      /\ pc' = "ready" /\ emitted' = {} /\ outcome' = "fileConflict"
  BY DEF RefuseFile, AtFragment, Finish, groupVars
<1>2. SelectedDocs' = SelectedDocs
  BY <1>1 DEF SelectedDocs
<1>3. PICK d, e \in SelectedDocs, f \in Files :
          d.body[f] # NoContent /\ e.body[f] # NoContent /\ d.body[f] # e.body[f]
  BY <1>1, <1>2, RefuseFileIsJustified DEF IInv, FileRefusalJustified
<1>4. HasBody(d) /\ HasBody(e)
  BY <1>3, ConstantsAssumption DEF HasBody, Nothing
<1>5. Hardening!Clashing(values)
  BY <1>3, <1>4, SameSelected DEF IInv, Hardening!Clashing, Hardening!Writes
<1>6. QED
  BY <1>1, <1>5, RefusalMapped DEF Hardening!Excused

\* An empty object: every selected document would have left something in it.
LEMMA RefuseEmptyMapped ==
    ASSUME IInv, RefuseEmpty
    PROVE  Hardening!Refuse
<1>1. /\ pc = "merge" /\ next > Len(docs) /\ UNCHANGED <<docs, limits, values>>
      /\ pc' = "ready" /\ emitted' = {} /\ outcome' = "noVariant"
      /\ WriteBack(merged) = Nothing
  BY DEF RefuseEmpty, AfterMerge, Finish, groupVars
<1>2. TypeOK /\ MergeInv /\ merged \in Leaves /\ fileAcc \in Leaves
  BY DEF IInv, TypeOK
<1>3. \A p \in Paths : /\ fileAcc[p] = NoContent
                       /\ p \notin Files => merged[p] = NoContent
  BY <1>1, <1>2, WriteBackLeaf DEF MergeInv, Nothing
<1>4. ASSUME NEW i \in DOMAIN docs, Selected(docs[i])
      PROVE  FALSE
  <2>1. InMerge(i)
    BY <1>1, <1>2, <1>4, DocType DEF InMerge, TypeOK
  <2>2. docs[i].body \in Leaves
    BY <1>2, DocType
  <2>3. PICK p \in Paths : docs[i].body[p] # NoContent
    BY <1>4, <2>2, SameHasBody DEF Selected, Hardening!HasBody, Hardening!Writes
  <2>4. QED
    BY <1>1, <1>2, <1>3, <2>1, <2>3 DEF MergeInv
<1>5. Hardening!Selected(values) = {}
  <2>1. \A d \in Hardening!Selected(values) : d \in SelectedDocs /\ HasBody(d)
    BY <1>2, SameSelected
  <2>2. QED
    BY <1>4, <2>1 DEF SelectedDocs, Selected
<1>6. QED
  BY <1>1, <1>5, RefusalMapped DEF Hardening!Excused

\* What HardenedObject promises of a rendered object, from the invariant.
LEMMA RenderedIsFaithful ==
    IInv /\ Rendered /\ merged # Nothing => Hardening!Faithful(values, merged, emitted)
<1> SUFFICES ASSUME IInv, Rendered, merged # Nothing
             PROVE  Hardening!Faithful(values, merged, emitted)
  OBVIOUS
<1>1. /\ TypeOK /\ NothingInvented /\ NoFileLost /\ NoLeafLost /\ RolesExact
      /\ \A d \in SelectedDocs, p \in Paths \ Files : d.body[p] # NoContent => merged[p] # NoContent
  BY LeavesKept, RolesKept DEF IInv, RenderedInv
<1>2. (\A q \in Paths \ Files : Hardening!Consistent(q)) => VariantsAgree
  BY DEF Hardening!Consistent, Hardening!Documents, Hardening!Writes, VariantsAgree
<1>3. \A d \in Hardening!Selected(values) : d \in SelectedDocs /\ HasBody(d)
  BY <1>1, SameSelected
<1>4. ASSUME NEW p \in Paths
      PROVE  /\ merged[p] # NoContent => \E d \in Hardening!Selected(values) : d.body[p] = merged[p]
             /\ \A d \in Hardening!Selected(values) : Hardening!Writes(d, p) => merged[p] # NoContent
             /\ p \in Files \/ (\A q \in Paths \ Files : Hardening!Consistent(q)) =>
                    \A d \in Hardening!Selected(values) :
                        Hardening!Writes(d, p) => merged[p] = d.body[p]
  <2>1. ASSUME merged[p] # NoContent
        PROVE  \E d \in Hardening!Selected(values) : d.body[p] = merged[p]
    <3>1. PICK d \in SelectedDocs : d.body[p] = merged[p]
      BY <1>1, <2>1 DEF NothingInvented
    <3>2. HasBody(d)
      BY <2>1, <3>1 DEF HasBody, Nothing
    <3>3. QED
      BY <1>1, <3>1, <3>2, SameSelected
  <2>2. p \in Files \/ VariantsAgree =>
            \A d \in SelectedDocs : d.body[p] # NoContent => merged[p] = d.body[p]
    BY <1>1 DEF NoFileLost, NoLeafLost, Kept
  <2>3. QED
    BY <1>1, <1>2, <1>3, <2>1, <2>2 DEF Hardening!Writes
<1>5. \A d \in Hardening!Selected(values) :
          emitted = {r \in values.roles : limits[d.rule] = {} \/ r \in limits[d.rule]}
  BY <1>1, <1>3 DEF RolesExact
<1>6. QED
  BY <1>4, <1>5, SameNothing DEF Hardening!Faithful

LEMMA EmitObjectMapped ==
    ASSUME IInv, IInv', EmitObject
    PROVE  Hardening!Render
<1>1. /\ UNCHANGED <<docs, limits, values>> /\ pc = "merge" /\ pc' = "ready"
      /\ merged' # Nothing /\ outcome' = "rendered"
  BY DEF EmitObject, AfterMerge, Finish, groupVars
<1>2. Nothing' = Nothing
  BY DEF Nothing
<1>3. (IInv /\ Rendered /\ merged # Nothing => Hardening!Faithful(values, merged, emitted))'
  BY RenderedIsFaithful, PTL
<1>4. Hardening!Faithful(values, merged, emitted)'
  BY <1>1, <1>2, <1>3 DEF Rendered
<1>5. Hardening!Selected(values)' = Hardening!Selected(values)
  BY <1>1 DEF Hardening!Selected, Hardening!Active, Hardening!Documents, Hardening!HasBody,
     Hardening!Writes
<1>6. \A q : Hardening!Consistent(q)' <=> Hardening!Consistent(q)
  BY <1>1 DEF Hardening!Consistent, Hardening!Documents, Hardening!Writes
<1>7. Hardening!Faithful(values, merged', emitted')
  BY <1>1, <1>4, <1>5, <1>6 DEF Hardening!Faithful, Hardening!Writes, Hardening!Nothing
<1>8. QED
  BY <1>1, <1>7 DEF Hardening!Render, Status, Rendered

LEMMA StepMapped ==
    IInv /\ IInv' /\ [Next]_vars => [Hardening!Next]_(Hardening!vars)
<1> SUFFICES ASSUME IInv, IInv', [Next]_vars
             PROVE  [Hardening!Next]_(Hardening!vars)
  OBVIOUS
<1>1. CASE FlattenDoc \/ EmitTemplate \/ SkipFragment \/ MergeFragment
  BY <1>1, LoopInvisible DEF IInv
<1>2. ASSUME NEW v \in ValuesFiles, StartRender(v)
      PROVE  Hardening!Next
  BY <1>2, StartRenderMapped DEF Hardening!Next
<1>3. CASE RefuseInvalidYaml \/ RefuseFile \/ RefuseEmpty
  BY <1>3, RefuseInvalidYamlMapped, RefuseFileMapped, RefuseEmptyMapped DEF Hardening!Next
<1>4. CASE EmitObject
  BY <1>4, EmitObjectMapped DEF Hardening!Next
<1>5. CASE UNCHANGED vars
  BY <1>5 DEF vars, groupVars, renderVars, Hardening!vars, Status, Rendered
<1>6. QED
  BY <1>1, <1>2, <1>3, <1>4, <1>5 DEF Next

\* Each render of the template is absent, refused for a reason in the fixes and
\* the values, or all that is selected: no order of fragments, earlier render
\* or conflict table shows through.
THEOREM TemplateImplementsPromise == Spec => ImplementsHardening
<1>1. Spec => []IInv
  BY IInvCorrect
<1>2. QED
  BY <1>1, InitMapped, StepMapped, PTL DEF Spec, ImplementsHardening, Hardening!Spec

=============================================================================
