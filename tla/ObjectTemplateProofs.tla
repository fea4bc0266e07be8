------------------------ MODULE ObjectTemplateProofs ------------------------
(***************************************************************************)
(* The properties of ObjectTemplate, for every set of rules, paths, bodies,*)
(* windows and values files.  They follow from IInv, which every step      *)
(* preserves.                                                              *)
(***************************************************************************)
EXTENDS ObjectTemplate, TLAPS, SequenceTheorems

-----------------------------------------------------------------------------
(***************************************************************************)
(* Bodies.                                                                 *)
(***************************************************************************)
LEMMA NothingType == Nothing \in Leaves
BY DEF Nothing, Leaves

LEMMA OverwriteType ==
    ASSUME NEW x \in Leaves, NEW y \in Leaves
    PROVE  Overwrite(x, y) \in Leaves
BY DEF Overwrite, Leaves

LEMMA FilesOfType ==
    ASSUME NEW x \in Leaves
    PROVE  FilesOf(x) \in Leaves
BY DEF FilesOf, Leaves

LEMMA MergeOverwriteType ==
    ASSUME NEW x \in Leaves, NEW y \in Leaves
    PROVE  MergeOverwrite(x, y) \in Leaves
<1>1. Overwrite(x, y) \in Leaves
  BY OverwriteType
<1>2. QED
  BY <1>1 DEF MergeOverwrite, Leaves

LEMMA WriteBackType ==
    ASSUME NEW x \in Leaves, fileAcc \in Leaves
    PROVE  WriteBack(x) \in Leaves
BY MergeOverwriteType DEF WriteBack

\* A leaf of a merge is the fragment's where the fragment writes it; it never
\* disappears from the rest; and it comes from one of the two.
LEMMA MergeOverwriteLeaf ==
    ASSUME NEW x \in Leaves, NEW y \in Leaves, NEW p \in Paths
    PROVE  /\ y[p] # NoContent => MergeOverwrite(x, y)[p] = y[p]
           /\ p \notin Files /\ y[p] = NoContent => MergeOverwrite(x, y)[p] = x[p]
           /\ MergeOverwrite(x, y)[p] \in {x[p], y[p]}
<1>1. CASE p \in Files /\ FilesOf(y) # Nothing
  BY <1>1 DEF MergeOverwrite
<1>2. CASE ~ (p \in Files /\ FilesOf(y) # Nothing)
  <2>1. MergeOverwrite(x, y)[p] = IF y[p] # NoContent THEN y[p] ELSE x[p]
    BY <1>2 DEF MergeOverwrite, Overwrite
  <2>2. QED
    BY <2>1
<1>3. QED
  BY <1>1, <1>2

\* The write-back gives every accumulated file its accumulated content and
\* leaves the other leaves alone.
LEMMA WriteBackLeaf ==
    ASSUME NEW x \in Leaves, fileAcc \in Leaves,
           \A q \in Paths \ Files : fileAcc[q] = NoContent,
           NEW p \in Paths
    PROVE  /\ fileAcc[p] # NoContent => WriteBack(x)[p] = fileAcc[p]
           /\ p \notin Files => WriteBack(x)[p] = x[p]
           /\ WriteBack(x)[p] \in {x[p], fileAcc[p]}
<1>1. CASE fileAcc = Nothing
  BY <1>1 DEF WriteBack, Nothing
<1>2. CASE fileAcc # Nothing
  BY <1>2, MergeOverwriteLeaf DEF WriteBack
<1>3. QED
  BY <1>1, <1>2

-----------------------------------------------------------------------------
(***************************************************************************)
(* Types.                                                                  *)
(***************************************************************************)
LEMMA DocsAreASequence ==
    ASSUME NEW n \in Nat, NEW s \in [1..n -> Docs]
    PROVE  s \in Seq(Docs) /\ Len(s) = n
BY IsASeq

LEMMA DocType ==
    ASSUME TypeOK, NEW i \in DOMAIN docs
    PROVE  /\ docs[i] \in Docs
           /\ docs[i].rule \in Rules
           /\ docs[i].body \in Leaves
           /\ i \in 1..Len(docs)
<1>1. docs \in Seq(Docs)
  BY DEF TypeOK
<1>2. i \in 1..Len(docs) /\ docs[i] \in Docs
  BY <1>1
<1>3. docs[i].rule \in Rules /\ docs[i].body \in Bodies
  BY <1>2 DEF Docs
<1>4. QED
  BY <1>2, <1>3, ConstantsAssumption

LEMMA InitTypeOK == Init => TypeOK
<1> SUFFICES ASSUME Init PROVE TypeOK
  OBVIOUS
<1>1. docs \in Seq(Docs) /\ Len(docs) \in Nat
  BY DocsAreASequence, ConstantsAssumption DEF Init
<1>2. next \in 1..(Len(docs) + 1)
  BY <1>1 DEF Init
<1>3. leafByRule \in [Rules -> Leaves] /\ merged \in Leaves /\ fileAcc \in Leaves
  BY NothingType DEF Init
<1>4. QED
  BY <1>1, <1>2, <1>3, ConstantsAssumption DEF Init, TypeOK

LEMMA DetectedConflictsType == DetectedConflicts \in SUBSET (SUBSET Rules)
BY DEF DetectedConflicts, Writers

LEMMA NextTypeOK == TypeOK /\ [Next]_vars => TypeOK'
<1> SUFFICES ASSUME TypeOK, [Next]_vars PROVE TypeOK'
  OBVIOUS
<1> USE DEF TypeOK, groupVars, renderVars
<1>1. CASE FlattenDoc
  <2>1. next \in DOMAIN docs
    BY <1>1 DEF FlattenDoc
  <2>2. leafByRule' \in [Rules -> Leaves]
    BY <1>1, <2>1, DocType, OverwriteType DEF FlattenDoc
  <2>3. next' \in 1..(Len(docs) + 1)
    BY <1>1 DEF FlattenDoc
  <2>4. QED
    BY <1>1, <2>2, <2>3 DEF FlattenDoc
<1>2. CASE EmitTemplate
  BY <1>2, DetectedConflictsType DEF EmitTemplate
<1>3. ASSUME NEW v \in ValuesFiles, StartRender(v)
      PROVE  TypeOK'
  <2>1. /\ UNCHANGED <<groupVars, leafByRule, conflicts>>
        /\ values' \in ValuesFile
        /\ merged' = Nothing /\ fileAcc' = Nothing /\ next' = 1
        /\ pc' \in {"ready", "merge"}
        /\ outcome' \in {"absent", "conflict", "none"}
        /\ emitted' = {}
    BY <1>3, ConstantsAssumption DEF StartRender, Finish
  <2>2. next' \in 1..(Len(docs) + 1)
    BY <2>1
  <2>3. QED
    BY <2>1, <2>2, NothingType
<1>4. CASE SkipFragment
  BY <1>4 DEF SkipFragment, AtFragment
<1>5. CASE RefuseInvalidYaml
  BY <1>5 DEF RefuseInvalidYaml, Finish
<1>6. CASE RefuseFile
  BY <1>6 DEF RefuseFile, Finish
<1>7. CASE MergeFragment
  <2>1. docs[next].body \in Leaves
    BY <1>7, DocType DEF MergeFragment, AtFragment
  <2>2. fileAcc' \in Leaves /\ merged' \in Leaves
    BY <1>7, <2>1, OverwriteType, FilesOfType, MergeOverwriteType DEF MergeFragment
  <2>3. next' \in 1..(Len(docs) + 1)
    BY <1>7 DEF MergeFragment, AtFragment
  <2>4. QED
    BY <1>7, <2>2, <2>3 DEF MergeFragment
<1>8. CASE RefuseEmpty
  BY <1>8 DEF RefuseEmpty, Finish
<1>9. CASE EmitObject
  <2>1. RolesToRender \in SUBSET Roles
    BY DEF RolesToRender, ValuesFile
  <2>2. merged' \in Leaves
    BY <1>9, WriteBackType DEF EmitObject
  <2>3. QED
    BY <1>9, <2>1, <2>2 DEF EmitObject, Finish
<1>10. CASE UNCHANGED vars
  BY <1>10 DEF vars
<1>11. QED
  BY <1>1, <1>2, <1>3, <1>4, <1>5, <1>6, <1>7, <1>8, <1>9, <1>10 DEF Next

\* The state always has the shape the generator and the template give it.
THEOREM TypeCorrect == Spec => []TypeOK
<1>1. QED
  BY InitTypeOK, NextTypeOK, PTL DEF Spec

-----------------------------------------------------------------------------
(***************************************************************************)
(* Control and generation.                                                 *)
(***************************************************************************)
\* What is derived from the group does not change while the group does not.
LEMMA GroupFrame ==
    ASSUME UNCHANGED <<docs, limits, family, leafByRule>>
    PROVE  /\ DetectedConflicts' = DetectedConflicts
           /\ MixedShapes' <=> MixedShapes
           /\ MixedRoles' <=> MixedRoles
           /\ VariantsAgree' <=> VariantsAgree
BY DEF DetectedConflicts, Writers, ValuesAt, MoreThanOne, MixedShapes, MixedRoles,
       BodyDocs, HasBody, VariantsAgree

\* The steps of a render leave the group, its template and the values alone.
RenderStep == SkipFragment \/ RefuseInvalidYaml \/ RefuseFile \/ MergeFragment
              \/ RefuseEmpty \/ EmitObject

LEMMA RenderStepFrame ==
    ASSUME RenderStep
    PROVE  /\ UNCHANGED <<docs, limits, family, leafByRule, conflicts, values>>
           /\ pc = "merge"
           /\ pc' \in {"merge", "ready"}
BY DEF RenderStep, SkipFragment, RefuseInvalidYaml, RefuseFile, MergeFragment,
       RefuseEmpty, EmitObject, AtFragment, AfterMerge, Finish, groupVars, renderVars

LEMMA StartRenderFrame ==
    ASSUME NEW v \in ValuesFiles, StartRender(v)
    PROVE  /\ UNCHANGED <<docs, limits, family, leafByRule, conflicts>>
           /\ values' = v
           /\ pc = "ready"
           /\ next' = 1 /\ merged' = Nothing /\ fileAcc' = Nothing
           /\ \/ pc' = "ready" /\ outcome' \in {"absent", "conflict"}
              \/ /\ pc' = "merge" /\ outcome' = "none"
                 /\ ~ \E k \in conflicts : MoreThanOne(k \cap v.active)
BY DEF StartRender, Finish, groupVars

LEMMA NextCases ==
    [Next]_vars <=> \/ FlattenDoc
                    \/ EmitTemplate
                    \/ \E v \in ValuesFiles : StartRender(v)
                    \/ RenderStep
                    \/ UNCHANGED vars
BY DEF Next, RenderStep

LEMMA ControlStep == TypeOK /\ ControlInv /\ [Next]_vars => ControlInv'
<1> SUFFICES ASSUME TypeOK, ControlInv, [Next]_vars PROVE ControlInv'
  OBVIOUS
<1>1. CASE FlattenDoc
  BY <1>1 DEF FlattenDoc, ControlInv, renderVars
<1>2. CASE EmitTemplate
  <2>1. UNCHANGED <<docs, limits, family, leafByRule, outcome>> /\ pc = "flatten"
    BY <1>2 DEF EmitTemplate, groupVars, renderVars
  <2>2. outcome' = "none"
    BY <2>1 DEF ControlInv
  <2>3. conflicts' = DetectedConflicts'
    BY <1>2, <2>1, GroupFrame DEF EmitTemplate
  <2>4. pc' \in {"ready", "merge"} => ~ MixedShapes' /\ ~ MixedRoles'
    BY <1>2, <2>1, GroupFrame DEF EmitTemplate
  <2>5. QED
    BY <2>2, <2>3, <2>4 DEF ControlInv
<1>3. ASSUME NEW v \in ValuesFiles, StartRender(v)
      PROVE  ControlInv'
  BY <1>3, StartRenderFrame, GroupFrame DEF ControlInv
<1>4. CASE RenderStep
  <2>1. outcome' # "none" => pc' = "ready"
    <3>1. outcome = "none"
      BY <1>4, RenderStepFrame DEF ControlInv
    <3>2. QED
      BY <1>4, <3>1 DEF RenderStep, SkipFragment, RefuseInvalidYaml, RefuseFile,
         MergeFragment, RefuseEmpty, EmitObject, Finish, renderVars
  <2>2. QED
    BY <1>4, <2>1, RenderStepFrame, GroupFrame DEF ControlInv
<1>5. CASE UNCHANGED vars
  BY <1>5, GroupFrame DEF vars, groupVars, renderVars, ControlInv
<1>6. QED
  BY <1>1, <1>2, <1>3, <1>4, <1>5, NextCases

LEMMA LeafStep == TypeOK /\ LeafInv /\ [Next]_vars => LeafInv'
<1> SUFFICES ASSUME TypeOK, LeafInv, [Next]_vars,
                    NEW i \in DOMAIN docs', NEW p \in Paths,
                    Flattened(i)', docs'[i].body[p] # NoContent
             PROVE  /\ leafByRule'[docs'[i].rule][p] # NoContent
                    /\ VariantsAgree' /\ p \notin Files =>
                          leafByRule'[docs'[i].rule][p] = docs'[i].body[p]
  BY DEF LeafInv
<1>1. CASE FlattenDoc
  <2>1. /\ docs' = docs /\ pc = "flatten" /\ pc' = "flatten"
        /\ next' = next + 1
        /\ leafByRule' = [leafByRule EXCEPT ![docs[next].rule] = Overwrite(@, docs[next].body)]
        /\ next \in DOMAIN docs
    BY <1>1 DEF FlattenDoc, groupVars, TypeOK
  <2>2. VariantsAgree' <=> VariantsAgree
    BY <2>1 DEF VariantsAgree
  <2>3. i \in DOMAIN docs /\ i \in Nat /\ next \in Nat /\ i < next + 1
    BY <2>1, DocType DEF Flattened, TypeOK
  <2>4. docs[i].rule \in Rules /\ docs[next].rule \in Rules
    BY <2>1, <2>3, DocType
  <2>5. CASE i = next
    BY <2>1, <2>4, <2>5 DEF Overwrite, TypeOK
  <2>6. CASE i # next
    <3>1. Flattened(i)
      BY <2>3, <2>6 DEF Flattened
    <3>2. /\ leafByRule[docs[i].rule][p] # NoContent
          /\ VariantsAgree /\ p \notin Files =>
                leafByRule[docs[i].rule][p] = docs[i].body[p]
      BY <2>1, <2>3, <3>1 DEF LeafInv
    <3>3. CASE docs[i].rule # docs[next].rule
      BY <2>1, <2>2, <2>4, <3>2, <3>3 DEF TypeOK
    <3>4. CASE docs[i].rule = docs[next].rule
      <4>1. leafByRule'[docs[i].rule][p] =
              IF docs[next].body[p] # NoContent THEN docs[next].body[p]
              ELSE leafByRule[docs[i].rule][p]
        BY <2>1, <2>4, <3>4 DEF Overwrite, TypeOK
      <4>2. VariantsAgree /\ p \notin Files /\ docs[next].body[p] # NoContent =>
              docs[next].body[p] = docs[i].body[p]
        BY <2>1, <2>3, <3>4 DEF VariantsAgree
      <4>3. QED
        BY <2>1, <2>2, <3>2, <4>1, <4>2
    <3>5. QED
      BY <3>3, <3>4
  <2>7. QED
    BY <2>5, <2>6
<1>2. CASE EmitTemplate
  <2>1. UNCHANGED <<docs, limits, family, leafByRule>> /\ next > Len(docs)
    BY <1>2 DEF EmitTemplate, groupVars
  <2>2. Flattened(i)
    BY <2>1, DocType DEF Flattened, TypeOK
  <2>3. QED
    BY <2>1, <2>2, GroupFrame DEF LeafInv
<1>3. ASSUME NEW v \in ValuesFiles, StartRender(v)
      PROVE  /\ leafByRule'[docs'[i].rule][p] # NoContent
             /\ VariantsAgree' /\ p \notin Files =>
                   leafByRule'[docs'[i].rule][p] = docs'[i].body[p]
  <2>1. UNCHANGED <<docs, limits, family, leafByRule>> /\ pc = "ready"
    BY <1>3, StartRenderFrame
  <2>2. Flattened(i)
    BY <2>1 DEF Flattened
  <2>3. QED
    BY <2>1, <2>2, GroupFrame DEF LeafInv
<1>4. CASE RenderStep
  <2>1. UNCHANGED <<docs, limits, family, leafByRule>> /\ pc = "merge"
    BY <1>4, RenderStepFrame
  <2>2. Flattened(i)
    BY <2>1 DEF Flattened
  <2>3. QED
    BY <2>1, <2>2, GroupFrame DEF LeafInv
<1>5. CASE UNCHANGED vars
  <2>1. UNCHANGED <<docs, limits, family, leafByRule, pc, next>>
    BY <1>5 DEF vars, groupVars
  <2>2. Flattened(i)
    BY <2>1 DEF Flattened
  <2>3. QED
    BY <2>1, <2>2, GroupFrame DEF LeafInv
<1>6. QED
  BY <1>1, <1>2, <1>3, <1>4, <1>5, NextCases

LEMMA LeafSourcedStep == TypeOK /\ LeafSourced /\ [Next]_vars => LeafSourced'
<1> SUFFICES ASSUME TypeOK, LeafSourced, [Next]_vars PROVE LeafSourced'
  OBVIOUS
<1>1. CASE FlattenDoc
  <2>1. /\ docs' = docs /\ next \in DOMAIN docs
        /\ leafByRule' = [leafByRule EXCEPT ![docs[next].rule] = Overwrite(@, docs[next].body)]
    BY <1>1 DEF FlattenDoc, groupVars, TypeOK
  <2> SUFFICES ASSUME NEW r \in Rules, NEW p \in Paths, leafByRule'[r][p] # NoContent
               PROVE  \E i \in DOMAIN docs : docs[i].rule = r /\ docs[i].body[p] = leafByRule'[r][p]
    BY <2>1 DEF LeafSourced
  <2>2. docs[next].rule \in Rules
    BY <2>1, DocType
  <2>3. CASE r = docs[next].rule /\ docs[next].body[p] # NoContent
    BY <2>1, <2>2, <2>3 DEF Overwrite, TypeOK
  <2>4. CASE ~ (r = docs[next].rule /\ docs[next].body[p] # NoContent)
    <3>1. leafByRule'[r][p] = leafByRule[r][p]
      BY <2>1, <2>2, <2>4 DEF Overwrite, TypeOK
    <3>2. QED
      BY <3>1 DEF LeafSourced
  <2>5. QED
    BY <2>3, <2>4
<1>2. CASE ~ FlattenDoc
  <2>1. UNCHANGED <<docs, leafByRule>>
    BY <1>2, NextCases, RenderStepFrame, StartRenderFrame DEF EmitTemplate, vars, groupVars
  <2>2. QED
    BY <2>1 DEF LeafSourced
<1>3. QED
  BY <1>1, <1>2

-----------------------------------------------------------------------------
(***************************************************************************)
(* The merge loop.                                                         *)
(***************************************************************************)
LEMMA MergeFragmentKeepsMergeInv ==
    TypeOK /\ MergeInv /\ MergeFragment => MergeInv'
<1> SUFFICES ASSUME TypeOK, MergeInv, MergeFragment PROVE MergeInv'
  OBVIOUS
<1> DEFINE body == docs[next].body
<1>1. /\ UNCHANGED <<docs, limits, family, leafByRule, conflicts, values, pc>>
      /\ pc = "merge" /\ next' = next + 1 /\ next \in Nat
      /\ next \in DOMAIN docs /\ Selected(docs[next])
      /\ fileAcc' = Overwrite(fileAcc, FilesOf(body))
      /\ merged' = MergeOverwrite(merged, body)
      /\ ~ Clash(body)
  BY DEF MergeFragment, AtFragment, groupVars, TypeOK
<1>2. body \in Leaves /\ merged \in Leaves /\ fileAcc \in Leaves
  BY <1>1, DocType DEF TypeOK
<1>3. \A i \in DOMAIN docs : InMerge(i)' <=> InMerge(i) \/ i = next
  BY <1>1, DocType DEF InMerge, Selected, HasBody
<1>4. \A p \in Paths : fileAcc'[p] =
        IF p \in Files /\ body[p] # NoContent THEN body[p] ELSE fileAcc[p]
  BY <1>1, <1>2 DEF Overwrite, FilesOf
<1>5. GuardsPassed'
  BY <1>1 DEF MergeInv, GuardsPassed, MoreThanOne
<1>6. \A p \in Paths \ Files : fileAcc'[p] = NoContent
  BY <1>1, <1>4 DEF MergeInv
<1>7. Sourced(merged, Paths)'
  <2> SUFFICES ASSUME NEW p \in Paths, merged'[p] # NoContent
               PROVE  \E i \in DOMAIN docs' : InMerge(i)' /\ docs'[i].body[p] = merged'[p]
    BY DEF Sourced
  <2>1. merged'[p] \in {merged[p], body[p]}
    BY <1>1, <1>2, MergeOverwriteLeaf
  <2>2. CASE merged'[p] = body[p]
    BY <1>1, <1>3, <2>2
  <2>3. CASE merged'[p] = merged[p]
    BY <1>1, <1>3, <2>3 DEF MergeInv, Sourced
  <2>4. QED
    BY <2>1, <2>2, <2>3
<1>8. Sourced(fileAcc, Files)'
  <2> SUFFICES ASSUME NEW p \in Files, fileAcc'[p] # NoContent
               PROVE  \E i \in DOMAIN docs' : InMerge(i)' /\ docs'[i].body[p] = fileAcc'[p]
    BY DEF Sourced
  <2>1. p \in Paths
    BY ConstantsAssumption
  <2>2. CASE fileAcc'[p] = body[p]
    BY <1>1, <1>3, <2>2
  <2>3. CASE fileAcc'[p] = fileAcc[p]
    BY <1>1, <1>3, <2>3 DEF MergeInv, Sourced
  <2>4. QED
    BY <1>4, <2>1, <2>2, <2>3
<1>9. ASSUME NEW i \in DOMAIN docs, InMerge(i)'
      PROVE  /\ \A f \in Files : docs[i].body[f] # NoContent => fileAcc'[f] = docs[i].body[f]
             /\ \A p \in Paths \ Files : docs[i].body[p] # NoContent => merged'[p] # NoContent
  <2>1. CASE i = next
    BY <1>1, <1>2, <1>4, <2>1, MergeOverwriteLeaf, ConstantsAssumption
  <2>2. CASE InMerge(i)
    <3>1. /\ \A f \in Files : docs[i].body[f] # NoContent => fileAcc[f] = docs[i].body[f]
          /\ \A p \in Paths \ Files : docs[i].body[p] # NoContent => merged[p] # NoContent
      BY <1>1, <2>2 DEF MergeInv
    <3>2. \A f \in Files : fileAcc[f] # NoContent => fileAcc'[f] = fileAcc[f]
      BY <1>1, <1>4, ConstantsAssumption DEF Clash
    <3>3. \A p \in Paths \ Files : merged[p] # NoContent => merged'[p] # NoContent
      BY <1>1, <1>2, MergeOverwriteLeaf
    <3>4. QED
      BY <3>1, <3>2, <3>3
  <2>3. QED
    BY <1>3, <1>9, <2>1, <2>2
<1>10. QED
  BY <1>1, <1>5, <1>6, <1>7, <1>8, <1>9 DEF MergeInv

LEMMA SkipFragmentKeepsMergeInv ==
    TypeOK /\ MergeInv /\ SkipFragment => MergeInv'
<1> SUFFICES ASSUME TypeOK, MergeInv, SkipFragment PROVE MergeInv'
  OBVIOUS
<1>1. /\ UNCHANGED <<docs, conflicts, values, pc, merged, fileAcc>>
      /\ next' = next + 1 /\ next \in Nat /\ pc = "merge"
      /\ ~ Selected(docs[next])
  BY DEF SkipFragment, AtFragment, groupVars, renderVars, TypeOK
<1>2. \A i \in DOMAIN docs : InMerge(i)' <=> InMerge(i)
  BY <1>1, DocType DEF InMerge, Selected, HasBody
<1>3. GuardsPassed'
  BY <1>1 DEF MergeInv, GuardsPassed, MoreThanOne
<1>4. Sourced(merged, Paths)' /\ Sourced(fileAcc, Files)'
  BY <1>1, <1>2 DEF MergeInv, Sourced
<1>5. QED
  BY <1>1, <1>2, <1>3, <1>4 DEF MergeInv

LEMMA MergeStep ==
    TypeOK /\ ControlInv /\ MergeInv /\ [Next]_vars => MergeInv'
<1> SUFFICES ASSUME TypeOK, ControlInv, MergeInv, [Next]_vars PROVE MergeInv'
  OBVIOUS
<1>1. CASE FlattenDoc \/ EmitTemplate
  BY <1>1 DEF FlattenDoc, EmitTemplate, MergeInv
<1>2. ASSUME NEW v \in ValuesFiles, StartRender(v), pc' = "merge"
      PROVE  MergeInv'
  <2>1. /\ UNCHANGED conflicts /\ values' = v /\ next' = 1
        /\ merged' = Nothing /\ fileAcc' = Nothing
        /\ ~ \E k \in conflicts : MoreThanOne(k \cap v.active)
    BY <1>2, StartRenderFrame
  <2>2. GuardsPassed'
    BY <2>1 DEF GuardsPassed, MoreThanOne
  <2>3. \A i \in DOMAIN docs' : ~ InMerge(i)'
    BY <2>1 DEF InMerge
  <2>4. \A p \in Paths : merged'[p] = NoContent /\ fileAcc'[p] = NoContent
    BY <2>1 DEF Nothing
  <2>5. Sourced(merged, Paths)' /\ Sourced(fileAcc, Files)'
    BY <2>4, ConstantsAssumption DEF Sourced
  <2>6. QED
    BY <2>2, <2>3, <2>4, <2>5 DEF MergeInv
<1>3. CASE RenderStep /\ pc' = "merge"
  <2>1. SkipFragment \/ MergeFragment
    BY <1>3 DEF RenderStep, RefuseInvalidYaml, RefuseFile, RefuseEmpty, EmitObject, Finish
  <2>2. QED
    BY <2>1, SkipFragmentKeepsMergeInv, MergeFragmentKeepsMergeInv
<1>4. CASE UNCHANGED vars
  BY <1>4 DEF vars, groupVars, renderVars, MergeInv, GuardsPassed, MoreThanOne, Sourced,
     InMerge, Selected, HasBody
<1>5. CASE pc' # "merge"
  BY <1>5 DEF MergeInv
<1>6. QED
  BY <1>1, <1>2, <1>3, <1>4, <1>5, NextCases

-----------------------------------------------------------------------------
(***************************************************************************)
(* The rendered object.                                                    *)
(***************************************************************************)
\* The documents the template selects are those selected by the values that
\* have something to contribute.
LEMMA SelectedDocsMember ==
    ASSUME NEW d
    PROVE  /\ (\E i \in DOMAIN docs : Selected(docs[i]) /\ d = docs[i]) => d \in SelectedDocs
           /\ d \in SelectedDocs /\ (\E p \in Paths : d.body[p] # NoContent) =>
                 \E i \in DOMAIN docs : Selected(docs[i]) /\ d = docs[i]
BY DEF SelectedDocs, Selected, HasBody, Nothing

LEMMA EmitObjectRenders ==
    TypeOK /\ ControlInv /\ MergeInv /\ EmitObject => RenderedInv'
<1> SUFFICES ASSUME TypeOK, ControlInv, MergeInv, EmitObject PROVE RenderedInv'
  OBVIOUS
<1>1. /\ UNCHANGED <<docs, limits, conflicts, values, fileAcc>>
      /\ pc = "merge" /\ next > Len(docs)
      /\ merged' = WriteBack(merged)
      /\ emitted' = RolesToRender
  BY DEF EmitObject, AfterMerge, Finish, groupVars
<1>2. merged \in Leaves /\ fileAcc \in Leaves
  BY DEF TypeOK
<1>3. \A p \in Paths :
        /\ fileAcc[p] # NoContent => merged'[p] = fileAcc[p]
        /\ p \notin Files => merged'[p] = merged[p]
        /\ merged'[p] \in {merged[p], fileAcc[p]}
  BY <1>1, <1>2, WriteBackLeaf DEF MergeInv
<1>4. SelectedDocs' = SelectedDocs
  BY <1>1 DEF SelectedDocs, Selected, HasBody
<1>5. \A i \in DOMAIN docs : InMerge(i) <=> Selected(docs[i])
  BY <1>1, DocType DEF InMerge, TypeOK
<1>6. GuardsPassed'
  BY <1>1 DEF MergeInv, GuardsPassed, MoreThanOne
<1>7. NothingInvented'
  <2> SUFFICES ASSUME NEW p \in Paths, merged'[p] # NoContent
               PROVE  \E d \in SelectedDocs : d.body[p] = merged'[p]
    BY <1>4 DEF NothingInvented
  <2>1. \E i \in DOMAIN docs : InMerge(i) /\ docs[i].body[p] = merged'[p]
    <3>1. CASE merged'[p] = merged[p]
      BY <1>1, <3>1 DEF MergeInv, Sourced
    <3>2. CASE merged'[p] = fileAcc[p]
      BY <1>1, <3>2 DEF MergeInv, Sourced
    <3>3. QED
      BY <1>3, <3>1, <3>2
  <2>2. QED
    BY <1>5, <2>1, SelectedDocsMember
<1>8. NoFileLost'
  <2> SUFFICES ASSUME NEW d \in SelectedDocs, NEW f \in Files, d.body[f] # NoContent
               PROVE  merged'[f] = d.body[f]
    BY <1>4 DEF NoFileLost, Kept
  <2>1. PICK i \in DOMAIN docs : Selected(docs[i]) /\ d = docs[i]
    BY SelectedDocsMember, ConstantsAssumption
  <2>2. fileAcc[f] = d.body[f]
    BY <1>1, <1>5, <2>1 DEF MergeInv
  <2>3. QED
    BY <1>3, <2>2, ConstantsAssumption
<1>9. \A d \in SelectedDocs, p \in Paths \ Files : d.body[p] # NoContent => merged'[p] # NoContent
  BY <1>1, <1>3, <1>5, SelectedDocsMember DEF MergeInv
<1>10. emitted' = RolesToRender'
  BY <1>1 DEF RolesToRender, RoleLimit, BodyDocs, HasBody
<1>11. QED
  BY <1>4, <1>6, <1>7, <1>8, <1>9, <1>10 DEF RenderedInv

LEMMA RenderedStep ==
    TypeOK /\ ControlInv /\ MergeInv /\ RenderedInv /\ [Next]_vars => RenderedInv'
<1> SUFFICES ASSUME TypeOK, ControlInv, MergeInv, RenderedInv, [Next]_vars
             PROVE  RenderedInv'
  OBVIOUS
<1>1. CASE FlattenDoc \/ EmitTemplate
  <2>1. outcome' = outcome /\ pc = "flatten"
    BY <1>1 DEF FlattenDoc, EmitTemplate, renderVars
  <2>2. outcome' # "rendered"
    BY <2>1 DEF ControlInv
  <2>3. QED
    BY <2>2 DEF RenderedInv, Rendered
<1>2. ASSUME NEW v \in ValuesFiles, StartRender(v)
      PROVE  RenderedInv'
  <2>1. outcome' # "rendered"
    BY <1>2, StartRenderFrame
  <2>2. QED
    BY <2>1 DEF RenderedInv, Rendered
<1>3. CASE RenderStep /\ ~ EmitObject
  <2>1. outcome = "none"
    BY <1>3, RenderStepFrame DEF ControlInv
  <2>2. outcome' # "rendered"
    BY <1>3, <2>1 DEF RenderStep, SkipFragment, RefuseInvalidYaml, RefuseFile,
       MergeFragment, RefuseEmpty, Finish, renderVars
  <2>3. QED
    BY <2>2 DEF RenderedInv, Rendered
<1>4. CASE EmitObject
  BY <1>4, EmitObjectRenders
<1>5. CASE UNCHANGED vars
  <2>1. UNCHANGED <<docs, limits, family, conflicts, values, merged, outcome, emitted>>
    BY <1>5 DEF vars, groupVars, renderVars
  <2>2. SelectedDocs' = SelectedDocs /\ RolesToRender' = RolesToRender
    BY <2>1 DEF SelectedDocs, Selected, HasBody, RolesToRender, RoleLimit, BodyDocs
  <2>3. QED
    BY <2>1, <2>2 DEF RenderedInv, Rendered, GuardsPassed, MoreThanOne, NothingInvented,
       NoFileLost, Kept
<1>6. QED
  BY <1>1, <1>2, <1>3, <1>4, <1>5, NextCases

\* A file clash goes back to a document merged before: $fileAcc has no other
\* content.
LEMMA RefuseFileIsJustified ==
    TypeOK /\ MergeInv /\ RefuseFile => FileRefusalJustified'
<1> SUFFICES ASSUME TypeOK, MergeInv, RefuseFile PROVE FileRefusalJustified'
  OBVIOUS
<1>1. /\ UNCHANGED <<docs, values>> /\ pc = "merge" /\ next \in DOMAIN docs
      /\ Selected(docs[next]) /\ Clash(docs[next].body)
  BY DEF RefuseFile, AtFragment, groupVars, TypeOK
<1>2. PICK f \in Files : /\ docs[next].body[f] # NoContent /\ fileAcc[f] # NoContent
                         /\ fileAcc[f] # docs[next].body[f]
  BY <1>1 DEF Clash
<1>3. PICK i \in DOMAIN docs : InMerge(i) /\ docs[i].body[f] = fileAcc[f]
  BY <1>1, <1>2 DEF MergeInv, Sourced
<1>4. docs[i] \in SelectedDocs /\ docs[next] \in SelectedDocs
  BY <1>1, <1>3, SelectedDocsMember DEF InMerge
<1>5. SelectedDocs' = SelectedDocs
  BY <1>1 DEF SelectedDocs
<1>6. QED
  BY <1>2, <1>3, <1>4, <1>5 DEF FileRefusalJustified

LEMMA FileRefusalStep ==
    TypeOK /\ ControlInv /\ MergeInv /\ FileRefusalJustified /\ [Next]_vars => FileRefusalJustified'
<1> SUFFICES ASSUME TypeOK, ControlInv, MergeInv, FileRefusalJustified, [Next]_vars
             PROVE  FileRefusalJustified'
  OBVIOUS
<1>1. CASE FlattenDoc \/ EmitTemplate \/ UNCHANGED vars
  <2>1. UNCHANGED <<docs, values, outcome>>
    BY <1>1 DEF FlattenDoc, EmitTemplate, vars, groupVars, renderVars
  <2>2. SelectedDocs' = SelectedDocs
    BY <2>1 DEF SelectedDocs
  <2>3. QED
    BY <2>1, <2>2 DEF FileRefusalJustified
<1>2. ASSUME NEW v \in ValuesFiles, StartRender(v)
      PROVE  FileRefusalJustified'
  BY <1>2, StartRenderFrame DEF FileRefusalJustified
<1>3. CASE RenderStep /\ ~ RefuseFile
  <2>1. outcome = "none"
    BY <1>3, RenderStepFrame DEF ControlInv
  <2>2. outcome' # "fileConflict"
    BY <1>3, <2>1 DEF RenderStep, SkipFragment, RefuseInvalidYaml, MergeFragment,
       RefuseEmpty, EmitObject, Finish, renderVars
  <2>3. QED
    BY <2>2 DEF FileRefusalJustified
<1>4. CASE RefuseFile
  BY <1>4, RefuseFileIsJustified
<1>5. QED
  BY <1>1, <1>2, <1>3, <1>4, NextCases

LEMMA InitIInv == Init => IInv
<1> SUFFICES ASSUME Init PROVE IInv
  OBVIOUS
<1>1. TypeOK
  BY InitTypeOK
<1>2. pc = "flatten" /\ next = 1 /\ outcome = "none"
  BY DEF Init
<1>3. LeafInv
  BY <1>1, <1>2, DocType DEF LeafInv, Flattened
<1>4. LeafSourced
  BY DEF Init, LeafSourced, Nothing
<1>5. QED
  BY <1>1, <1>2, <1>3, <1>4 DEF IInv, ControlInv, MergeInv, RenderedInv, Rendered,
     FileRefusalJustified

LEMMA NextIInv == IInv /\ [Next]_vars => IInv'
BY NextTypeOK, ControlStep, LeafStep, LeafSourcedStep, MergeStep, RenderedStep,
   FileRefusalStep DEF IInv

LEMMA IInvCorrect == Spec => []IInv
BY InitIInv, NextIInv, PTL DEF Spec

-----------------------------------------------------------------------------
(***************************************************************************)
(* What the invariant says of a rendered object.                           *)
(***************************************************************************)
\* Two rules of one detected conflict are never both active in a rendered
\* object.
LEMMA ConflictExcludes ==
    ASSUME IInv, Rendered, NEW W \in DetectedConflicts,
           NEW r \in W, NEW s \in W, r \in values.active, s \in values.active
    PROVE  r = s
<1>1. conflicts = DetectedConflicts
  BY DEF IInv, ControlInv, Rendered
<1>2. ~ MoreThanOne(W \cap values.active)
  BY <1>1 DEF IInv, RenderedInv, GuardsPassed
<1>3. QED
  BY <1>2 DEF MoreThanOne

LEMMA SelectedDocFacts ==
    ASSUME IInv, Rendered, NEW d \in SelectedDocs, \E p \in Paths : d.body[p] # NoContent
    PROVE  /\ d \in BodyDocs
           /\ d.rule \in Rules /\ d.rule \in values.active
           /\ \A p \in Paths : d.body[p] # NoContent =>
                /\ leafByRule[d.rule][p] # NoContent
                /\ VariantsAgree /\ p \notin Files => leafByRule[d.rule][p] = d.body[p]
<1>1. PICK i \in DOMAIN docs : Selected(docs[i]) /\ d = docs[i]
  BY SelectedDocsMember
<1>2. Flattened(i)
  BY <1>1 DEF IInv, ControlInv, Rendered, Flattened
<1>3. TypeOK /\ LeafInv
  BY DEF IInv
<1>4. d.rule \in Rules
  BY <1>1, <1>3, DocType
<1>5. QED
  BY <1>1, <1>2, <1>3, <1>4 DEF LeafInv, BodyDocs, Selected

LEMMA LeavesKept == IInv => NoLeafLost
<1> SUFFICES ASSUME IInv, Rendered, VariantsAgree,
                    NEW d \in SelectedDocs, NEW p \in Paths, d.body[p] # NoContent
             PROVE  merged[p] = d.body[p]
  BY DEF NoLeafLost, Kept
<1>1. CASE p \in Files
  BY <1>1 DEF IInv, RenderedInv, NoFileLost, Kept
<1>2. CASE p \notin Files
  <2>1. merged[p] # NoContent
    BY <1>2 DEF IInv, RenderedInv
  <2>2. PICK e \in SelectedDocs : e.body[p] = merged[p]
    BY <2>1 DEF IInv, RenderedInv, NothingInvented
  <2>3. /\ leafByRule[d.rule][p] = d.body[p] /\ leafByRule[e.rule][p] = e.body[p]
        /\ d.rule \in values.active /\ e.rule \in values.active
        /\ d.rule \in Rules /\ e.rule \in Rules
    BY <1>2, <2>1, <2>2, SelectedDocFacts
  <2>4. d.rule \in Writers({p}) /\ e.rule \in Writers({p})
    BY <2>1, <2>2, <2>3 DEF Writers
  <2>5. CASE d.body[p] # e.body[p]
    <3>1. d.body[p] \in ValuesAt(p) /\ e.body[p] \in ValuesAt(p)
      BY <2>3, <2>4 DEF ValuesAt
    <3>2. MoreThanOne(ValuesAt(p))
      BY <2>5, <3>1 DEF MoreThanOne
    <3>3. Writers({p}) \in DetectedConflicts
      BY <3>2 DEF DetectedConflicts
    <3>4. d.rule = e.rule
      BY <2>3, <2>4, <3>3, ConflictExcludes
    <3>5. QED
      BY <2>3, <2>5, <3>4
  <2>6. QED
    BY <2>2, <2>5
<1>3. QED
  BY <1>1, <1>2

LEMMA FamilyKept == IInv => FamilyLosesNothing
<1> SUFFICES ASSUME IInv, Rendered, family,
                    NEW d \in SelectedDocs, NEW p \in Paths, d.body[p] # NoContent
             PROVE  merged[p] = d.body[p]
  BY DEF FamilyLosesNothing, Kept
<1>1. CASE p \in Files
  BY <1>1 DEF IInv, RenderedInv, NoFileLost, Kept
<1>2. CASE p \notin Files
  <2>1. merged[p] # NoContent
    BY <1>2 DEF IInv, RenderedInv
  <2>2. PICK e \in SelectedDocs : e.body[p] = merged[p]
    BY <2>1 DEF IInv, RenderedInv, NothingInvented
  <2>3. d \in BodyDocs /\ e \in BodyDocs
    BY <2>1, <2>2, SelectedDocFacts
  <2>4. Shape(d.body) = Shape(e.body)
    BY <2>3 DEF IInv, ControlInv, Rendered, MixedShapes, MoreThanOne
  <2>5. Shape(d.body)[p] = d.body[p] /\ Shape(e.body)[p] = e.body[p]
    BY <1>2 DEF Shape
  <2>6. QED
    BY <2>2, <2>4, <2>5
<1>3. QED
  BY <1>1, <1>2

LEMMA UnionKept == IInv => UnionFromOneRule
<1> SUFFICES ASSUME IInv, Rendered,
                    NEW d \in SelectedDocs, NEW p \in UnionPaths, d.body[p] # NoContent,
                    NEW e \in SelectedDocs, NEW q \in UnionPaths, e.body[q] # NoContent
             PROVE  d.rule = e.rule
  BY DEF UnionFromOneRule, MoreThanOne
<1>1. /\ leafByRule[d.rule][p] # NoContent /\ leafByRule[e.rule][q] # NoContent
      /\ d.rule \in Rules /\ e.rule \in Rules
      /\ d.rule \in values.active /\ e.rule \in values.active
  BY SelectedDocFacts, ConstantsAssumption
<1>2. d.rule \in Writers(UnionPaths) /\ e.rule \in Writers(UnionPaths)
  BY <1>1 DEF Writers
<1>3. CASE d.rule # e.rule
  <2>1. Writers(UnionPaths) \in DetectedConflicts
    BY <1>2, <1>3 DEF DetectedConflicts, MoreThanOne
  <2>2. QED
    BY <1>1, <1>2, <2>1, ConflictExcludes
<1>4. QED
  BY <1>3

LEMMA RolesKept == IInv => RolesExact
<1> SUFFICES ASSUME IInv, Rendered, NEW d \in SelectedDocs, HasBody(d)
             PROVE  emitted = {r \in values.roles : limits[d.rule] = {} \/ r \in limits[d.rule]}
  BY DEF RolesExact
<1>1. d \in BodyDocs
  BY DEF BodyDocs, SelectedDocs
<1>2. \A e \in BodyDocs : limits[e.rule] = limits[d.rule]
  BY <1>1 DEF IInv, ControlInv, Rendered, MixedRoles, MoreThanOne
<1>3. RoleLimit = limits[d.rule]
  BY <1>1, <1>2 DEF RoleLimit
<1>4. QED
  BY <1>3 DEF IInv, RenderedInv, RolesToRender

-----------------------------------------------------------------------------
\* No active fix loses a file to another one, whatever the fixes write.
THEOREM FilesSurvive == Spec => []NoFileLost
<1>1. IInv => NoFileLost
  BY DEF IInv, RenderedInv, NoFileLost
<1>2. QED
  BY <1>1, IInvCorrect, PTL

\* The conflict guards are enough for every object whose rules' variants agree.
THEOREM LeavesSurvive == Spec => []NoLeafLost
BY LeavesKept, IInvCorrect, PTL

\* A consolidated family needs no assumption on its variants.
THEOREM FamilySurvives == Spec => []FamilyLosesNothing
BY FamilyKept, IInvCorrect, PTL

\* A rendered object contains only what its selected fixes write.
THEOREM NothingLeaksIn == Spec => []NothingInvented
<1>1. IInv => NothingInvented
  BY DEF IInv, RenderedInv, NothingInvented
<1>2. QED
  BY <1>1, IInvCorrect, PTL

\* A union subtree always comes from a single rule.
THEOREM UnionIsExclusive == Spec => []UnionFromOneRule
BY UnionKept, IInvCorrect, PTL

\* The role loop writes the object for exactly the roles of each active rule.
THEOREM RolesAreExact == Spec => []RolesExact
BY RolesKept, IInvCorrect, PTL

\* A render refuses a file only for two selected fixes that disagree about it.
THEOREM RefusalsAreJustified == Spec => []FileRefusalJustified
<1>1. IInv => FileRefusalJustified
  BY DEF IInv
<1>2. QED
  BY <1>1, IInvCorrect, PTL

=============================================================================
