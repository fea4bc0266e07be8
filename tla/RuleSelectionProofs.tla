------------------------- MODULE RuleSelectionProofs -------------------------
(***************************************************************************)
(* What a chart applies, for every content release, values file and order  *)
(* of the files on the command line.  The properties follow from IInv,     *)
(* which every step of the generator, of Helm and of the preflight         *)
(* preserves.                                                              *)
(***************************************************************************)
EXTENDS RuleSelection, TLAPS

-----------------------------------------------------------------------------
(***************************************************************************)
(* The sets the generator computes.                                        *)
(***************************************************************************)
LEMMA ContentShape ==
    ASSUME content \in Contents
    PROVE  /\ \A p \in Profiles : content.selects[p] \subseteq Rules
           /\ \A C \in content.alternatives : C \subseteq Rules
           /\ content.never \subseteq Rules /\ content.optIn \subseteq Rules
           /\ content.broken \subseteq Rules
           /\ \A f \in content.fragments : f.rule \in Rules
<1>1. content \in Content
  BY SelectionAssumption
<1>2. QED
  BY <1>1 DEF Content, Fragment

LEMMA DisabledShape ==
    ASSUME content \in Contents
    PROVE  /\ Losers \subseteq Rules /\ DefaultDisabled \subseteq Rules
           /\ DisabledWithCategory = DefaultDisabled
<1>1. Losers \subseteq Rules
  BY DEF Losers
<1>2. QED
  BY <1>1, ContentShape DEF DefaultDisabled, DisabledWithCategory

LEMMA OverlayShape == OverlayFiles \in [Overlays -> SUBSET Rules]
BY DEF OverlayFiles, ExcludedOnHypershift, ExcludedForArch

LEMMA PathShape == CrossObjectPaths \in SUBSET {w.path : w \in content.writes}
BY DEF CrossObjectPaths

\* All the rules of an alternative but one ship disabled.
LEMMA OneWinner ==
    ASSUME content \in Contents, NEW C \in content.alternatives, NEW r \in C, NEW s \in C, r # s
    PROVE  r \in DefaultDisabled \/ s \in DefaultDisabled
<1>1. r \in Rules /\ s \in Rules
  BY ContentShape
<1>2. r # Winner(C) \/ s # Winner(C)
  OBVIOUS
<1>3. QED
  BY <1>1, <1>2 DEF Losers, DefaultDisabled

\* What the overlay of an architecture, or of hosted clusters, leaves active.
LEMMA OverlayOf ==
    /\ \A a \in Archs : OverlayFiles[a] = ExcludedForArch(a)
    /\ OverlayFiles["hypershift"] = ExcludedOnHypershift
    /\ Archs \subseteq Overlays /\ "hypershift" \in Overlays
BY SelectionAssumption DEF OverlayFiles, Overlays

-----------------------------------------------------------------------------
(***************************************************************************)
(* Helm's merge.                                                           *)
(***************************************************************************)
Values == [profiles : SUBSET Profiles, rules : [Rules -> Setting],
           arch : Spellings, hosted : {"true", "false"}, enabled : {"true", "false"}]

LEMMA FileShape ==
    ASSUME TypeOK, NEW f \in Overlays \cup {"user"}
    PROVE  /\ FileOf(f).profiles \in SUBSET Profiles
           /\ FileOf(f).rules \in [Rules -> Setting]
           /\ FileOf(f).arch \in Spellings \cup {"unset"}
           /\ FileOf(f).hosted \in Flag
           /\ FileOf(f).enabled \in Flag
<1>1. CASE f = "user"
  BY <1>1 DEF FileOf, TypeOK, UserFile, ValuesFile
<1>2. CASE f # "user"
  BY <1>2, SelectionAssumption DEF FileOf, SwitchedOff, Setting, Flag
<1>3. QED
  BY <1>1, <1>2

LEMMA MergeShape ==
    ASSUME TypeOK, NEW f \in Overlays \cup {"user"}
    PROVE  Merge(values, FileOf(f)) \in Values
<1> DEFINE m == Merge(values, FileOf(f))
<1>1. values \in Values
  BY DEF TypeOK, Values
<1>2. m.profiles \in SUBSET Profiles
  BY <1>1, FileShape DEF Merge, Values
<1>3. [r \in Rules |-> Coalesce(values.rules[r], FileOf(f).rules[r])] \in [Rules -> Setting]
  BY <1>1, FileShape DEF Coalesce, Values
<1>4. Coalesce(values.arch, FileOf(f).arch) \in Spellings
  BY <1>1, FileShape DEF Coalesce, Values
<1>5. Coalesce(values.hosted, FileOf(f).hosted) \in {"true", "false"}
  BY <1>1, FileShape DEF Coalesce, Values, Flag
<1>6. Coalesce(values.enabled, FileOf(f).enabled) \in {"true", "false"}
  BY <1>1, FileShape DEF Coalesce, Values, Flag
<1>7. QED
  BY <1>2, <1>3, <1>4, <1>5, <1>6 DEF Merge, Values

LEMMA MergedRule ==
    ASSUME NEW v, NEW f, NEW r \in Rules
    PROVE  Merge(v, f).rules[r] = IF f.rules[r] = "unset" THEN v.rules[r] ELSE f.rules[r]
BY DEF Merge, Coalesce

\* The next file of the command line.
LEMMA NextFile ==
    ASSUME TypeOK, LoadFile
    PROVE  /\ loaded \in Nat /\ loaded' = loaded + 1 /\ loaded' \in 0..Len(command)
           /\ loaded + 1 \in DOMAIN command
           /\ command[loaded + 1] \in Overlays \cup {"user"}
           /\ values' = Merge(values, FileOf(command[loaded + 1]))
BY DEF TypeOK, LoadFile

-----------------------------------------------------------------------------
(***************************************************************************)
(* Steps that leave the chart and the merged values alone.                 *)
(***************************************************************************)
CheckStep == \/ ApplicabilityPreflight \/ DependencyPreflight \/ BrokenPreflight
             \/ FilePreflight \/ ObjectGuards \/ Emit

LEMMA NextCases ==
    [Next]_vars <=>
        \/ Generate \/ (\E u \in UserFiles, args \in Commands : StartRender(u, args))
        \/ LoadFile \/ FilesLoaded \/ CheckStep \/ Exit \/ UNCHANGED vars
BY DEF Next, CheckStep

\* A check goes on to the next one, refuses, or renders.
LEMMA CheckFacts ==
    ASSUME CheckStep
    PROVE  /\ pc \in Checks /\ pc' \in {"dependencies", "broken", "files", "objects", "done"}
           /\ UNCHANGED <<chart, render>>
           /\ pc' # "done" => UNCHANGED <<outcome, hint, result>>
BY DEF CheckStep, ApplicabilityPreflight, DependencyPreflight, BrokenPreflight, FilePreflight,
       ObjectGuards, Emit, Refuse, Proceed, Checks

\* What a check that goes on has established.
LEMMA CheckPassed ==
    ASSUME CheckStep, pc' # "done"
    PROVE  \/ pc = "applicability" /\ pc' = "dependencies" /\ NotApplicable = {}
           \/ pc = "dependencies" /\ pc' = "broken" /\ DependencyUnmet = {}
           \/ pc = "broken" /\ pc' = "files" /\ Active \cap content.broken = {}
           \/ pc = "files" /\ pc' = "objects"
BY DEF CheckStep, ApplicabilityPreflight, DependencyPreflight, BrokenPreflight, FilePreflight,
       ObjectGuards, Emit, Refuse, Proceed

\* How a render can end, and what that says.
LEMMA CheckEnded ==
    ASSUME CheckStep, pc' = "done"
    PROVE  \/ pc = "applicability" /\ outcome' = "notApplicable" /\ hint' = Hint
           \/ outcome' = "dependency" /\ hint' = hint
           \/ outcome' = "broken" /\ hint' = hint /\ Active \cap content.broken # {}
           \/ outcome' = "files" /\ hint' = hint /\ \E path \in guards : GuardFires(path)
           \/ outcome' = "alternatives" /\ hint' = hint /\ AlternativesMeet
           \/ outcome' = "noVariant" /\ hint' = hint
           \/ outcome' = "rendered" /\ hint' = hint /\ Emit
BY DEF CheckStep, ApplicabilityPreflight, DependencyPreflight, BrokenPreflight, FilePreflight,
       ObjectGuards, Emit, Refuse, Proceed

\* The same chart and values have the same active rules, and the same checks.
LEMMA SameRender ==
    ASSUME UNCHANGED <<chart, render>>
    PROVE  /\ content' = content /\ shipped' = shipped /\ overlays' = overlays /\ guards' = guards
           /\ user' = user /\ command' = command /\ loaded' = loaded /\ values' = values
           /\ Active' = Active /\ OnHypershift' = OnHypershift /\ ObjectsOn' = ObjectsOn
           /\ NotApplicable' = NotApplicable /\ DependencyUnmet' = DependencyUnmet
           /\ Untouched' = Untouched
           /\ DefaultDisabled' = DefaultDisabled /\ OverlayFiles' = OverlayFiles
           /\ CrossObjectPaths' = CrossObjectPaths
<1>1. /\ content' = content /\ shipped' = shipped /\ overlays' = overlays /\ guards' = guards
      /\ user' = user /\ command' = command /\ loaded' = loaded /\ values' = values
  BY DEF chart, render
<1>2. Active' = Active /\ OnHypershift' = OnHypershift /\ ObjectsOn' = ObjectsOn
  BY <1>1 DEF Active, RuleActive, OnHypershift, ObjectsOn
<1>3. NotApplicable' = NotApplicable
  BY <1>1, <1>2 DEF NotApplicable, Reason
<1>4. DependencyUnmet' = DependencyUnmet
  BY <1>1, <1>2 DEF DependencyUnmet
<1>5. Untouched' = Untouched
  BY <1>1 DEF Untouched, NoSetting
<1>6. DefaultDisabled' = DefaultDisabled
  BY <1>1 DEF DefaultDisabled, Losers, Winner, RanksBefore, Selections
<1>7. OverlayFiles' = OverlayFiles
  BY <1>1 DEF OverlayFiles, ExcludedOnHypershift, ExcludedForArch
<1>8. CrossObjectPaths' = CrossObjectPaths
  BY <1>1 DEF CrossObjectPaths, WritesTo
<1>9. QED
  BY <1>1, <1>2, <1>3, <1>4, <1>5, <1>6, <1>7, <1>8

-----------------------------------------------------------------------------
(***************************************************************************)
(* Types, the chart, and what is switched off.                             *)
(***************************************************************************)
LEMMA NoFileShape == NoValues \in Values /\ NoUser \in UserFile
<1>1. NoValues \in Values
  BY SelectionAssumption DEF NoValues, Values, Setting
<1>2. NoUser \in UserFile
  BY SelectionAssumption DEF NoUser, UserFile, ValuesFile, Setting, Flag
<1>3. QED
  BY <1>1, <1>2

LEMMA InitTypeOK == Init => TypeOK
<1> SUFFICES ASSUME Init PROVE TypeOK
  OBVIOUS
<1>1. command \in Seq(Overlays \cup {"user"}) /\ Len(command) = 0
  BY DEF Init
<1>2. values \in Values /\ user \in UserFile
  BY NoFileShape DEF Init
<1>3. QED
  BY <1>1, <1>2 DEF Init, TypeOK, Values

LEMMA StartTypeOK ==
    ASSUME TypeOK, NEW u \in UserFiles, NEW args \in Commands, StartRender(u, args)
    PROVE  TypeOK'
<1>1. u \in UserFile /\ args \in Seq(Overlays \cup {"user"}) /\ 0 \in 0..Len(args)
  BY SelectionAssumption
<1>2. [NoValues EXCEPT !.rules = SwitchedOff(shipped)] \in Values
  BY NoFileShape DEF Values, SwitchedOff, Setting
<1>3. QED
  BY <1>1, <1>2 DEF StartRender, TypeOK, Values, chart, result

\* A render applies active rules only, and among them those a variant of which is
\* for this version, unless the objects are off.
LEMMA EmitApplies ==
    ASSUME Emit
    PROVE  /\ applied' \subseteq Active
           /\ \A r \in Active : r \in applied' <=> ObjectsOn /\ HasVariant(r)
           /\ applied' # {} => ObjectsOn
BY DEF Emit, Merged, HasVariant

LEMMA CheckTypeOK == TypeOK /\ CheckStep => TypeOK'
<1> SUFFICES ASSUME TypeOK, CheckStep PROVE TypeOK'
  OBVIOUS
<1>1. UNCHANGED <<chart, render>> /\ pc' \in Checks \cup {"done"}
  BY CheckFacts DEF Checks
<1>2. hint' \in {"none", "arch", "hypershift"}
  BY DEF TypeOK, CheckStep, ApplicabilityPreflight, DependencyPreflight, BrokenPreflight,
         FilePreflight, ObjectGuards, Emit, Refuse, Proceed, Hint
<1>3. /\ outcome' \in {"none", "notApplicable", "dependency", "broken", "files",
                       "alternatives", "noVariant", "rendered"}
  BY DEF TypeOK, CheckStep, ApplicabilityPreflight, DependencyPreflight, BrokenPreflight,
         FilePreflight, ObjectGuards, Emit, Refuse, Proceed
<1>4. UNCHANGED result \/ (applied' \subseteq Active /\ scanned' \in SUBSET Rules)
  <2>1. \A p \in values.profiles : content.selects[p] \subseteq Rules
    BY ContentShape DEF TypeOK
  <2>2. CASE Emit
    BY <2>1, <2>2, EmitApplies DEF Emit
  <2>3. CASE ~ Emit
    BY <2>3 DEF CheckStep, ApplicabilityPreflight, DependencyPreflight, BrokenPreflight,
       FilePreflight, ObjectGuards, Refuse, Proceed
  <2>4. QED
    BY <2>2, <2>3
<1>5. applied' \in SUBSET Rules /\ scanned' \in SUBSET Rules
  BY <1>4 DEF TypeOK, result, Active
<1>6. QED
  BY <1>1, <1>2, <1>3, <1>5 DEF TypeOK, chart, render

LEMMA NextTypeOK == TypeOK /\ [Next]_vars => TypeOK'
<1> SUFFICES ASSUME TypeOK, [Next]_vars PROVE TypeOK'
  OBVIOUS
<1>1. CASE Generate
  BY <1>1, DisabledShape, OverlayShape, PathShape DEF Generate, TypeOK, render, result
<1>2. CASE LoadFile
  <2>1. values' \in Values
    BY <1>2, NextFile, MergeShape
  <2>2. QED
    BY <1>2, <2>1, NextFile DEF LoadFile, TypeOK, Values, chart, result
<1>3. CASE FilesLoaded
  BY <1>3 DEF FilesLoaded, TypeOK, chart, render, result, Checks
<1>4. CASE Exit
  <2>1. values' \in Values /\ user' \in UserFile
    BY <1>4, NoFileShape DEF Exit
  <2>2. command' \in Seq(Overlays \cup {"user"}) /\ loaded' \in 0..Len(command')
    BY <1>4 DEF Exit
  <2>3. QED
    BY <1>4, <2>1, <2>2 DEF Exit, TypeOK, Values, chart
<1>5. CASE UNCHANGED vars
  BY <1>5 DEF vars, chart, render, result, TypeOK
<1>6. QED
  BY <1>1, <1>2, <1>3, <1>4, <1>5, NextCases, StartTypeOK, CheckTypeOK

\* The chart stays what the generator made of the content.
LEMMA NextChartInv == TypeOK /\ ChartInv /\ [Next]_vars => ChartInv'
<1> SUFFICES ASSUME TypeOK, ChartInv, [Next]_vars PROVE ChartInv'
  OBVIOUS
<1>1. content' = content => /\ DefaultDisabled' = DefaultDisabled
                            /\ OverlayFiles' = OverlayFiles
                            /\ CrossObjectPaths' = CrossObjectPaths
  BY DEF DefaultDisabled, Losers, Winner, RanksBefore, Selections, OverlayFiles,
         ExcludedOnHypershift, ExcludedForArch, CrossObjectPaths, WritesTo
<1>2. CASE Generate
  BY <1>1, <1>2 DEF Generate, ChartInv
<1>3. CASE UNCHANGED chart /\ (pc = "generate" => pc' = "generate")
  BY <1>1, <1>3 DEF ChartInv, chart
<1>4. CASE CheckStep
  BY <1>3, <1>4, CheckFacts DEF Checks
<1>5. CASE \E u \in UserFiles, args \in Commands : StartRender(u, args)
  BY <1>3, <1>5 DEF StartRender
<1>6. CASE LoadFile \/ FilesLoaded \/ Exit
  BY <1>3, <1>6 DEF LoadFile, FilesLoaded, Exit
<1>7. CASE UNCHANGED vars
  BY <1>3, <1>7 DEF vars
<1>8. QED
  BY <1>2, <1>4, <1>5, <1>6, <1>7, NextCases

\* A merged file switches on only what the user's does.
LEMMA MergedSettings ==
    ASSUME TypeOK, NEW f \in Overlays \cup {"user"}, NoSetting("on"), NEW r \in Rules
    PROVE  /\ FileOf(f).rules[r] # "on"
           /\ f # "user" /\ r \in overlays[f] => FileOf(f).rules[r] = "off"
<1>1. CASE f = "user"
  BY <1>1 DEF FileOf, NoSetting
<1>2. CASE f # "user"
  BY <1>2 DEF FileOf, SwitchedOff
<1>3. QED
  BY <1>1, <1>2

LEMMA LoadOffInv == TypeOK /\ OffInv /\ LoadFile => OffInv'
<1> SUFFICES ASSUME TypeOK, OffInv, LoadFile PROVE OffInv'
  OBVIOUS
<1>0. NoSetting("on")' <=> NoSetting("on")
  BY DEF LoadFile, NoSetting
<1> SUFFICES ASSUME NoSetting("on") PROVE OffInv'
  BY <1>0 DEF OffInv
<1> DEFINE f == command[loaded + 1]
<1>1. /\ pc = "load" /\ Rendering /\ f \in Overlays \cup {"user"}
      /\ loaded \in Nat /\ loaded' = loaded + 1 /\ values' = Merge(values, FileOf(f))
      /\ shipped' = shipped /\ overlays' = overlays /\ command' = command
  BY NextFile DEF LoadFile, Rendering, chart
<1>2. values.rules \in [Rules -> Setting] /\ shipped \subseteq Rules
  BY DEF TypeOK
<1>3. ASSUME NEW r \in Rules
      PROVE  /\ values'.rules[r] # "on"
             /\ values.rules[r] = "off" => values'.rules[r] = "off"
             /\ f # "user" /\ r \in overlays[f] => values'.rules[r] = "off"
  <2>1. FileOf(f).rules[r] \in Setting \ {"on"}
    BY <1>1, MergedSettings, FileShape
  <2>2. values.rules[r] # "on"
    BY <1>1 DEF OffInv
  <2>3. QED
    BY <1>1, <2>1, <2>2, MergedRule, MergedSettings DEF Setting
<1>4. \A i \in 1..loaded' : command[i] # "user" =>
          \A r \in overlays[command[i]] : values'.rules[r] = "off"
  <2>1. SUFFICES ASSUME NEW i \in 1..loaded', command[i] # "user", NEW r \in overlays[command[i]]
                 PROVE  values'.rules[r] = "off"
    OBVIOUS
  <2>2. i \in 1..loaded \/ i = loaded + 1
    BY <1>1
  <2>3. command[i] \in Overlays
    BY <2>1, NextFile DEF TypeOK
  <2>4. r \in Rules
    BY <2>1, <2>3 DEF TypeOK
  <2>5. CASE i \in 1..loaded
    BY <1>1, <1>3, <2>1, <2>4, <2>5 DEF OffInv
  <2>6. CASE i = loaded + 1
    BY <1>3, <2>1, <2>4, <2>6
  <2>7. QED
    BY <2>2, <2>5, <2>6
<1>5. \A r \in shipped : values'.rules[r] = "off"
  BY <1>1, <1>2, <1>3 DEF OffInv
<1>6. QED
  BY <1>1, <1>3, <1>4, <1>5 DEF OffInv

LEMMA NextOffInv == TypeOK /\ OffInv /\ [Next]_vars => OffInv'
<1> SUFFICES ASSUME TypeOK, OffInv, [Next]_vars PROVE OffInv'
  OBVIOUS
<1>1. CASE Generate
  BY <1>1 DEF Generate, OffInv, Rendering, Checks
<1>2. ASSUME NEW u \in UserFiles, NEW args \in Commands, StartRender(u, args)
      PROVE  OffInv'
  <2>1. /\ values' = [NoValues EXCEPT !.rules = SwitchedOff(shipped)]
        /\ shipped' = shipped /\ loaded' = 0
    BY <1>2 DEF StartRender, chart
  <2>2. \A r \in Rules : values'.rules[r] = IF r \in shipped THEN "off" ELSE "unset"
    BY <2>1 DEF NoValues, SwitchedOff
  <2>3. shipped \subseteq Rules
    BY DEF TypeOK
  <2>4. QED
    BY <2>1, <2>2, <2>3 DEF OffInv
<1>3. CASE UNCHANGED <<chart, render>> /\ (Rendering' => Rendering)
  <2>1. /\ shipped' = shipped /\ overlays' = overlays /\ user' = user
        /\ command' = command /\ loaded' = loaded /\ values' = values
    BY <1>3, SameRender
  <2>2. QED
    BY <1>3, <2>1 DEF OffInv, NoSetting
<1>4. CASE FilesLoaded
  BY <1>3, <1>4 DEF FilesLoaded, Rendering
<1>5. CASE CheckStep
  BY <1>3, <1>5, CheckFacts DEF Rendering
<1>6. CASE Exit
  BY <1>6 DEF Exit, OffInv, Rendering, Checks
<1>7. CASE UNCHANGED vars
  BY <1>3, <1>7 DEF vars, Rendering
<1>8. QED
  BY <1>1, <1>2, <1>4, <1>5, <1>6, <1>7, NextCases, LoadOffInv

LEMMA NextOnlyShippedInv == TypeOK /\ OnlyShippedInv /\ [Next]_vars => OnlyShippedInv'
<1> SUFFICES ASSUME TypeOK, OnlyShippedInv, [Next]_vars PROVE OnlyShippedInv'
  OBVIOUS
<1>1. CASE Generate
  BY <1>1 DEF Generate, OnlyShippedInv, Rendering, Checks
<1>2. ASSUME NEW u \in UserFiles, NEW args \in Commands, StartRender(u, args)
      PROVE  OnlyShippedInv'
  BY <1>2 DEF StartRender, OnlyShippedInv, NoValues, SwitchedOff, chart
<1>3. CASE LoadFile
  <2>1. /\ Rendering /\ user' = user /\ command' = command /\ shipped' = shipped
        /\ values' = Merge(values, FileOf(command[loaded + 1]))
    BY <1>3 DEF LoadFile, Rendering, chart
  <2>2. SUFFICES ASSUME Untouched, command = <<"user">>
                 PROVE  values'.rules = SwitchedOff(shipped)
    BY <2>1 DEF OnlyShippedInv, Untouched, NoSetting, SwitchedOff
  <2>3. values.rules = SwitchedOff(shipped)
    BY <2>1, <2>2 DEF OnlyShippedInv
  <2>4. command[loaded + 1] = "user"
    BY <1>3, <2>2, NextFile
  <2>5. FileOf("user") = user.file
    BY DEF FileOf
  <2>6. \A r \in Rules : user.file.rules[r] = "unset"
    BY <2>2 DEF TypeOK, UserFile, ValuesFile, Setting, Untouched, NoSetting
  <2>7. values'.rules = [r \in Rules |-> values.rules[r]]
    BY <2>1, <2>4, <2>5, <2>6 DEF Merge, Coalesce
  <2>8. QED
    BY <2>3, <2>7 DEF SwitchedOff
<1>4. CASE UNCHANGED <<chart, render>> /\ (Rendering' => Rendering)
  <2>1. shipped' = shipped /\ command' = command /\ values' = values /\ Untouched' = Untouched
    BY <1>4, SameRender
  <2>2. QED
    BY <1>4, <2>1 DEF OnlyShippedInv, SwitchedOff
<1>5. CASE FilesLoaded
  BY <1>4, <1>5 DEF FilesLoaded, Rendering
<1>6. CASE CheckStep
  BY <1>4, <1>6, CheckFacts DEF Rendering
<1>7. CASE Exit
  BY <1>7 DEF Exit, OnlyShippedInv, Rendering, Checks
<1>8. CASE UNCHANGED vars
  BY <1>4, <1>8 DEF vars, Rendering
<1>9. QED
  BY <1>1, <1>2, <1>3, <1>5, <1>6, <1>7, <1>8, NextCases

LEMMA NextPassedInv == TypeOK /\ PassedInv /\ [Next]_vars => PassedInv'
<1> SUFFICES ASSUME TypeOK, PassedInv, [Next]_vars PROVE PassedInv'
  OBVIOUS
<1>1. CASE CheckStep
  <2>1. /\ command' = command /\ loaded' = loaded /\ NotApplicable' = NotApplicable
        /\ DependencyUnmet' = DependencyUnmet /\ Active' = Active /\ content' = content
        /\ pc \in Checks /\ pc # "done" /\ pc \notin {"generate", "ready", "load"}
    BY <1>1, CheckFacts, SameRender DEF Checks
  <2>2. CASE pc' = "done"
    BY <2>2 DEF PassedInv, Checks
  <2>3. CASE pc' # "done"
    <3>1. outcome' = "none" /\ hint' = "none"
      BY <1>1, <2>1, <2>3, CheckFacts DEF PassedInv
    <3>2. QED
      BY <1>1, <2>1, <2>3, <3>1, CheckPassed DEF PassedInv, Checks
  <2>4. QED
    BY <2>2, <2>3
<1>2. CASE FilesLoaded
  BY <1>2 DEF FilesLoaded, render, PassedInv, Checks
<1>3. CASE Generate \/ LoadFile \/ Exit
             \/ \E u \in UserFiles, args \in Commands : StartRender(u, args)
  BY <1>3 DEF Generate, LoadFile, Exit, StartRender, PassedInv, Checks
<1>4. CASE UNCHANGED vars
  <2>1. /\ UNCHANGED <<chart, render>> /\ pc' = pc /\ outcome' = outcome /\ hint' = hint
    BY <1>4 DEF vars
  <2>2. QED
    BY <2>1, SameRender DEF PassedInv
<1>5. QED
  BY <1>1, <1>2, <1>3, <1>4, NextCases

-----------------------------------------------------------------------------
(***************************************************************************)
(* What the merged values say of the active rules.                         *)
(***************************************************************************)
LEMMA ActiveIsOn ==
    ASSUME TypeOK, NEW r \in Rules
    PROVE  /\ values.rules[r] = "off" => r \notin Active
           /\ values.rules[r] = "unset" =>
                  (r \in Active <=> \E p \in values.profiles : r \in content.selects[p])
           /\ values.rules[r] = "on" => r \in Active
           /\ values.rules[r] \in {"on", "off", "unset"}
BY DEF TypeOK, Setting, Active, RuleActive

LEMMA ShippedInactive ==
    ASSUME TypeOK, OffInv, Rendering, NoSetting("on")
    PROVE  Active \cap shipped = {}
<1>1. \A r \in shipped : r \in Rules /\ values.rules[r] = "off"
  BY DEF TypeOK, OffInv
<1>2. QED
  BY <1>1, ActiveIsOn

\* Without a rule switched on, no broken, never applicable or opt-in rule is
\* active, and of each set of alternatives at most one rule.
LEMMA SafeSelection ==
    ASSUME TypeOK, ChartInv, OffInv, Rendering, NoSetting("on")
    PROVE  /\ Active \cap content.broken = {}
           /\ Active \cap (content.never \cup content.optIn) = {}
           /\ ~ AlternativesMeet
<1>1. Active \cap DefaultDisabled = {}
  BY ShippedInactive DEF ChartInv, Rendering, Checks
<1>2. ~ AlternativesMeet
  <2>1. SUFFICES ASSUME NEW C \in content.alternatives, NEW r \in C \cap Active,
                        NEW s \in C \cap Active, r # s
                 PROVE  FALSE
    BY DEF AlternativesMeet
  <2>2. r \in DefaultDisabled \/ s \in DefaultDisabled
    BY <2>1, OneWinner DEF TypeOK
  <2>3. QED
    BY <1>1, <2>2
<1>3. QED
  BY <1>1, <1>2 DEF DefaultDisabled

LEMMA NeverActive ==
    TypeOK /\ ChartInv /\ OffInv /\ Untouched /\ pc \in Checks
        => Active \cap (content.never \cup content.optIn) = {}
BY SafeSelection DEF Rendering, Untouched

\* A rule the preflight refuses for its architecture is in that overlay, and
\* one it refuses on a hosted cluster in the other.
LEMMA RefusedIsExcluded ==
    ASSUME TypeOK, ChartInv, pc # "generate", NEW r \in Active
    PROVE  /\ Reason(r) = "arch" => r \in overlays[Canonical[values.arch]]
           /\ Reason(r) = "hosted" /\ OnHypershift => r \in overlays["hypershift"]
<1>1. r \in Rules /\ Canonical[values.arch] \in Archs
  BY SelectionAssumption DEF Active, TypeOK
<1>2. /\ overlays[Canonical[values.arch]] = ExcludedForArch(Canonical[values.arch])
      /\ overlays["hypershift"] = ExcludedOnHypershift
  BY <1>1, OverlayOf DEF ChartInv
<1>3. Reason(r) = "arch" => r \notin content.never /\ Canonical[values.arch] \notin content.archs[r]
  BY DEF Reason
<1>4. ASSUME Reason(r) = "hosted", OnHypershift
      PROVE  r \notin content.never /\ TRUE \notin content.hosted[r]
  <2>1. r \notin content.never /\ OnHypershift \notin content.hosted[r]
    BY <1>4 DEF Reason
  <2>2. OnHypershift = TRUE
    BY <1>4 DEF OnHypershift
  <2>3. QED
    BY <2>1, <2>2
<1>5. QED
  BY <1>1, <1>2, <1>3, <1>4 DEF ExcludedForArch, ExcludedOnHypershift

-----------------------------------------------------------------------------
(***************************************************************************)
(* The properties.                                                         *)
(***************************************************************************)
LEMMA NextShippedIsSafe ==
    TypeOK /\ ChartInv /\ OffInv /\ PassedInv /\ ShippedIsSafe /\ [Next]_vars
        /\ (TypeOK /\ ChartInv /\ OffInv)' => ShippedIsSafe'
<1> SUFFICES ASSUME TypeOK, ChartInv, OffInv, PassedInv, ShippedIsSafe, [Next]_vars,
                    (TypeOK /\ ChartInv /\ OffInv)', (Untouched /\ pc # "generate")'
             PROVE  /\ outcome' \notin {"broken", "alternatives"}
                    /\ (pc \in Checks => Active \cap (content.never \cup content.optIn) = {})'
  BY DEF ShippedIsSafe
<1>1. (pc \in Checks => Active \cap (content.never \cup content.optIn) = {})'
  <2>1. (TypeOK /\ ChartInv /\ OffInv /\ Untouched /\ pc \in Checks
            => Active \cap (content.never \cup content.optIn) = {})'
    BY NeverActive, PTL
  <2>2. QED
    BY <2>1
<1>2. CASE CheckStep
  <2>1. Untouched /\ Rendering
    BY <1>2, CheckFacts, SameRender DEF Rendering
  <2>2. Active \cap content.broken = {} /\ ~ AlternativesMeet
    BY <2>1, SafeSelection DEF Untouched
  <2>3. outcome' \notin {"broken", "alternatives"}
    <3>1. CASE pc' = "done"
      BY <1>2, <2>2, <3>1, CheckEnded
    <3>2. CASE pc' # "done"
      BY <1>2, <3>2, CheckFacts DEF PassedInv, Checks
    <3>3. QED
      BY <3>1, <3>2
  <2>4. QED
    BY <1>1, <2>3
<1>3. CASE UNCHANGED vars
  <2>1. UNCHANGED <<chart, render>> /\ pc' = pc /\ outcome' = outcome
    BY <1>3 DEF vars
  <2>2. Untouched /\ pc # "generate"
    BY <2>1, SameRender
  <2>3. QED
    BY <1>1, <2>1, <2>2 DEF ShippedIsSafe
<1>4. CASE ~ CheckStep /\ ~ UNCHANGED vars
  <2>1. outcome' = "none"
    BY <1>4, NextCases DEF Generate, StartRender, LoadFile, FilesLoaded, Exit, PassedInv
  <2>2. QED
    BY <1>1, <2>1
<1>5. QED
  BY <1>2, <1>3, <1>4

\* Only a check ends a render.
LEMMA OtherwiseOpen ==
    ASSUME PassedInv, [Next]_vars, ~ CheckStep, ~ UNCHANGED vars
    PROVE  outcome' = "none" /\ hint' = "none"
BY NextCases DEF Generate, StartRender, LoadFile, FilesLoaded, Exit, PassedInv

LEMMA EmitSound ==
    ASSUME TypeOK, PassedInv, Emit
    PROVE  /\ Active \cap (content.never \cup content.broken) = {}
           /\ \A r \in Active : /\ Canonical[values.arch] \in content.archs[r]
                                /\ OnHypershift \in content.hosted[r]
                                /\ content.depends[r] \subseteq Active
           /\ ObjectsOn => \A C \in content.alternatives : \A r, s \in C \cap Active : r = s
<1>1. /\ NotApplicable = {} /\ DependencyUnmet = {} /\ Active \cap content.broken = {}
      /\ ObjectsOn => ~ AlternativesMeet
  BY DEF Emit, PassedInv, Checks
<1>2. \A r \in Active : Reason(r) = "none"
  BY <1>1 DEF NotApplicable
<1>3. \A r \in Active : /\ r \notin content.never
                        /\ Canonical[values.arch] \in content.archs[r]
                        /\ OnHypershift \in content.hosted[r]
  BY <1>2 DEF Reason
<1>4. \A r \in Active : content.depends[r] \subseteq Active
  BY <1>1 DEF DependencyUnmet
<1>5. ObjectsOn => \A C \in content.alternatives : \A r, s \in C \cap Active : r = s
  BY <1>1 DEF AlternativesMeet
<1>6. QED
  BY <1>1, <1>3, <1>4, <1>5

LEMMA NextRenderedIsSound ==
    TypeOK /\ PassedInv /\ RenderedIsSound /\ [Next]_vars => RenderedIsSound'
<1> SUFFICES ASSUME TypeOK, PassedInv, RenderedIsSound, [Next]_vars PROVE RenderedIsSound'
  OBVIOUS
<1>1. CASE Emit
  <2>1. /\ content' = content /\ values' = values /\ Active' = Active
        /\ OnHypershift' = OnHypershift
    BY <1>1, SameRender DEF Emit
  <2>2. applied' \subseteq Active /\ (applied' # {} => ObjectsOn)
    BY <1>1, EmitApplies
  <2>3. \A C \in content.alternatives : \A r, s \in C \cap applied' : r = s
    BY <1>1, <2>2, EmitSound
  <2>4. QED
    BY <1>1, <2>1, <2>2, <2>3, EmitSound DEF RenderedIsSound
<1>2. CASE CheckStep /\ ~ Emit
  <2>1. outcome' # "rendered"
    <3>1. CASE pc' = "done"
      BY <1>2, <3>1, CheckEnded
    <3>2. CASE pc' # "done"
      BY <1>2, <3>2, CheckFacts DEF PassedInv, Checks
    <3>3. QED
      BY <3>1, <3>2
  <2>2. QED
    BY <2>1 DEF RenderedIsSound
<1>3. CASE UNCHANGED vars
  <2>1. UNCHANGED <<chart, render>> /\ outcome' = outcome /\ applied' = applied
    BY <1>3 DEF vars, result
  <2>2. QED
    BY <2>1, SameRender DEF RenderedIsSound
<1>4. QED
  BY <1>1, <1>2, <1>3, OtherwiseOpen DEF RenderedIsSound

LEMMA NextHintedOverlay ==
    TypeOK /\ ChartInv /\ PassedInv /\ HintedOverlayExists /\ [Next]_vars => HintedOverlayExists'
<1> SUFFICES ASSUME TypeOK, ChartInv, PassedInv, HintedOverlayExists, [Next]_vars
             PROVE  HintedOverlayExists'
  OBVIOUS
<1>1. CASE CheckStep
  <2>1. overlays' = overlays /\ values' = values /\ pc # "generate"
    BY <1>1, CheckFacts, SameRender DEF Checks
  <2>2. CASE hint' = hint
    BY <2>1, <2>2 DEF HintedOverlayExists
  <2>3. CASE hint' = Hint
    <3>1. Hint = "arch" => \E r \in Active : Reason(r) = "arch"
      BY DEF Hint
    <3>2. Hint = "hypershift" => OnHypershift /\ \E r \in Active : Reason(r) = "hosted"
      BY DEF Hint
    <3>3. QED
      BY <2>1, <2>3, <3>1, <3>2, RefusedIsExcluded DEF HintedOverlayExists
  <2>4. QED
    BY <1>1, <2>2, <2>3, CheckEnded, CheckFacts
<1>2. CASE UNCHANGED vars
  BY <1>2 DEF vars, chart, render, HintedOverlayExists
<1>3. QED
  BY <1>1, <1>2, OtherwiseOpen DEF HintedOverlayExists

\* A guard that fires names a path on which two active rules disagree.
LEMMA FiringGuard ==
    ASSUME ChartInv, pc # "generate", NEW path \in guards, GuardFires(path)
    PROVE  \E v, w \in content.writes :
               /\ v.path = w.path /\ v.source # w.source
               /\ {v.rule, w.rule} \subseteq Active
               /\ user.version \in v.window \cap w.window
<1>1. PICK x \in WritesTo(path), y \in WritesTo(path) : x.source # y.source
  BY DEF ChartInv, CrossObjectPaths
<1>2. PICK v \in WritesTo(path) : v.source = x.source /\ v.rule \in Active
  BY <1>1 DEF GuardFires
<1>3. PICK w \in WritesTo(path) : w.source = y.source /\ w.rule \in Active
  BY <1>1 DEF GuardFires
<1>4. user.version \in v.window \cap w.window
  BY DEF GuardFires, WindowsOpen
<1>5. v \in content.writes /\ w \in content.writes /\ v.path = w.path
  BY DEF WritesTo
<1>6. QED
  BY <1>1, <1>2, <1>3, <1>4, <1>5

LEMMA NextFileGuard ==
    TypeOK /\ ChartInv /\ PassedInv /\ FileGuardJustified /\ [Next]_vars => FileGuardJustified'
<1> SUFFICES ASSUME TypeOK, ChartInv, PassedInv, FileGuardJustified, [Next]_vars
             PROVE  FileGuardJustified'
  OBVIOUS
<1>1. CASE CheckStep
  <2>1. /\ content' = content /\ user' = user /\ Active' = Active
        /\ pc # "generate" /\ pc # "done"
    BY <1>1, CheckFacts, SameRender DEF Checks
  <2>2. outcome' = "files" => \E path \in guards : GuardFires(path)
    <3>1. CASE pc' = "done"
      BY <1>1, <3>1, CheckEnded
    <3>2. CASE pc' # "done"
      BY <1>1, <2>1, <3>2, CheckFacts DEF PassedInv
    <3>3. QED
      BY <3>1, <3>2
  <2>3. QED
    BY <2>1, <2>2, FiringGuard DEF FileGuardJustified
<1>2. CASE UNCHANGED vars
  <2>1. UNCHANGED <<chart, render>> /\ outcome' = outcome
    BY <1>2 DEF vars
  <2>2. QED
    BY <2>1, SameRender DEF FileGuardJustified
<1>3. QED
  BY <1>1, <1>2, OtherwiseOpen DEF FileGuardJustified

LEMMA EmitScans ==
    ASSUME TypeOK, Emit, NEW p \in values.profiles, NEW r \in content.selects[p]
    PROVE  r \in applied' <=> r \in scanned' /\ ObjectsOn /\ HasVariant(r)
<1>1. r \in Rules
  BY ContentShape DEF TypeOK
<1>2. r \in scanned' => \E q \in values.profiles : r \in content.selects[q] /\ values.rules[r] # "off"
  BY DEF Emit, DisableRules
<1>3. r \in scanned' <=> values.rules[r] # "off"
  BY <1>2 DEF Emit, DisableRules
<1>4. r \in Active <=> values.rules[r] # "off"
  BY <1>1, ActiveIsOn
<1>5. QED
  BY <1>3, <1>4, EmitApplies

LEMMA NextScanFollows ==
    TypeOK /\ PassedInv /\ ScanFollowsSelection /\ [Next]_vars => ScanFollowsSelection'
<1> SUFFICES ASSUME TypeOK, PassedInv, ScanFollowsSelection, [Next]_vars
             PROVE  ScanFollowsSelection'
  OBVIOUS
<1>1. CASE Emit
  <2>1. /\ content' = content /\ values' = values /\ user' = user /\ ObjectsOn' = ObjectsOn
    BY <1>1, SameRender DEF Emit
  <2>2. QED
    BY <1>1, <2>1, EmitScans DEF ScanFollowsSelection, HasVariant
<1>2. CASE CheckStep /\ ~ Emit
  <2>1. outcome' # "rendered"
    <3>1. CASE pc' = "done"
      BY <1>2, <3>1, CheckEnded
    <3>2. CASE pc' # "done"
      BY <1>2, <3>2, CheckFacts DEF PassedInv, Checks
    <3>3. QED
      BY <3>1, <3>2
  <2>2. QED
    BY <2>1 DEF ScanFollowsSelection
<1>3. CASE UNCHANGED vars
  <2>1. /\ UNCHANGED <<chart, render>> /\ outcome' = outcome
        /\ applied' = applied /\ scanned' = scanned
    BY <1>3 DEF vars, result
  <2>2. QED
    BY <2>1, SameRender DEF ScanFollowsSelection, HasVariant
<1>4. QED
  BY <1>1, <1>2, <1>3, OtherwiseOpen DEF ScanFollowsSelection

\* An overlay on the command line has switched off what it excludes.
LEMMA IInvImpliesOverlaySuffices == IInv => OverlaySuffices
<1> SUFFICES ASSUME IInv, NoSetting("on"), pc \in Checks, NEW r \in Active
             PROVE  /\ InCommand(Canonical[values.arch]) => Reason(r) # "arch"
                    /\ InCommand("hypershift") /\ OnHypershift => Reason(r) # "hosted"
  BY DEF OverlaySuffices
<1>1. TypeOK /\ ChartInv /\ OffInv /\ Rendering /\ loaded = Len(command) /\ pc # "generate"
  BY DEF IInv, PassedInv, Rendering, Checks
<1>2. ASSUME NEW f \in Overlays \ {"user"}, InCommand(f)
      PROVE  r \notin overlays[f]
  <2>1. PICK i \in DOMAIN command : command[i] = f
    BY <1>2 DEF InCommand
  <2>2. i \in 1..loaded /\ command[i] # "user"
    BY <1>1, <1>2, <2>1 DEF TypeOK
  <2>3. \A q \in overlays[f] : values.rules[q] = "off"
    BY <1>1, <2>1, <2>2 DEF OffInv
  <2>4. r \in Rules
    BY DEF Active
  <2>5. QED
    BY <1>1, <2>3, <2>4, ActiveIsOn
<1>3. Canonical[values.arch] \in Overlays \ {"user"} /\ "hypershift" \in Overlays \ {"user"}
  BY <1>1, SelectionAssumption DEF TypeOK, Overlays
<1>4. QED
  BY <1>1, <1>2, <1>3, RefusedIsExcluded

\* Two rules that RULES.md calls alternatives exclude each other: a path counts
\* when each of its contents has one rule, so other rules write it differently.
LEMMA AlternativesStandIn ==
    ASSUME NEW r, NEW s \in Alternatives(r)
    PROVE  StandsIn(s, r)
<1>1. s # r
  BY DEF Alternatives
<1>2. CASE \E C \in content.alternatives : r \in C /\ s \in C
  BY <1>1, <1>2 DEF StandsIn
<1>3. CASE \E path \in PairwisePaths : /\ \E w \in WritesTo(path) : w.rule = r
                                       /\ \E w \in WritesTo(path) : w.rule = s
  <2>1. PICK path \in PairwisePaths : /\ \E w \in WritesTo(path) : w.rule = r
                                      /\ \E w \in WritesTo(path) : w.rule = s
    BY <1>3
  <2>2. PICK v \in WritesTo(path), w \in WritesTo(path) : v.rule = r /\ w.rule = s
    BY <2>1
  <2>3. v.source # w.source
    BY <1>1, <2>2 DEF PairwisePaths
  <2>4. v \in content.writes /\ w \in content.writes /\ v.path = w.path
    BY DEF WritesTo
  <2>5. QED
    BY <1>1, <2>2, <2>3, <2>4 DEF StandsIn
<1>4. \/ s \in UNION {C \in content.alternatives : r \in C}
      \/ s \in UNION {{w.rule : w \in WritesTo(path)} :
                         path \in {q \in PairwisePaths : \E w \in WritesTo(q) : w.rule = r}}
  BY DEF Alternatives
<1>5. QED
  BY <1>2, <1>3, <1>4

\* A rule neither applied nor counted as open is excluded for good, or has an
\* alternative among the active rules.
LEMMA IInvImpliesCoverageAgrees == IInv => CoverageAgrees
<1> SUFFICES ASSUME IInv, Untouched, pc \in Checks, command = <<"user">>,
                    NEW p \in Profiles, values.profiles = {p}
             PROVE  /\ Active = Remediated(p)
                    /\ \A r \in content.selects[p] \ (Active \cup OpenRules(p)) :
                           r \in content.never \/ \E s \in Active : StandsIn(s, r)
  BY DEF CoverageAgrees
<1>1. TypeOK /\ values.rules = SwitchedOff(shipped) /\ shipped = DefaultDisabled
  BY DEF IInv, ChartInv, OnlyShippedInv, Rendering, Checks
<1>2. content.selects[p] \subseteq Rules /\ DisabledWithCategory = DefaultDisabled
  BY <1>1, ContentShape, DisabledShape DEF TypeOK
<1>3. \A r \in Rules : values.rules[r] = IF r \in DefaultDisabled THEN "off" ELSE "unset"
  BY <1>1 DEF SwitchedOff
<1>4. Active = Remediated(p)
  <2>1. \A r \in Rules : r \in Active <=> r \in content.selects[p] /\ r \notin DefaultDisabled
    BY <1>1, <1>3, ActiveIsOn
  <2>2. QED
    BY <1>2, <2>1 DEF Remediated, Active
<1>5. ASSUME NEW r \in content.selects[p] \ (Active \cup OpenRules(p)), r \notin content.never
      PROVE  \E s \in Active : StandsIn(s, r)
  <2>1. r \in DisabledWithCategory /\ r \notin NotApplicableCategory
    BY <1>4, <1>5 DEF Remediated, NotApplicableCategory
  <2>2. PICK s \in Alternatives(r) : s \in Remediated(p)
    BY <1>5, <2>1 DEF OpenRules
  <2>3. QED
    BY <1>4, <2>2, AlternativesStandIn
<1>6. QED
  BY <1>4, <1>5

-----------------------------------------------------------------------------
LEMMA InitIInv == Init => IInv
BY InitTypeOK DEF Init, IInv, ChartInv, OffInv, OnlyShippedInv, PassedInv, ShippedIsSafe,
   RenderedIsSound, HintedOverlayExists, FileGuardJustified, ScanFollowsSelection,
   Rendering, Checks

LEMMA NextIInv == IInv /\ [Next]_vars => IInv'
<1> SUFFICES ASSUME IInv, [Next]_vars PROVE IInv'
  OBVIOUS
<1>1. TypeOK' /\ ChartInv' /\ OffInv' /\ OnlyShippedInv' /\ PassedInv'
  BY NextTypeOK, NextChartInv, NextOffInv, NextOnlyShippedInv, NextPassedInv DEF IInv
<1>2. ShippedIsSafe'
  BY <1>1, NextShippedIsSafe DEF IInv
<1>3. RenderedIsSound' /\ HintedOverlayExists' /\ FileGuardJustified' /\ ScanFollowsSelection'
  BY NextRenderedIsSound, NextHintedOverlay, NextFileGuard, NextScanFollows DEF IInv
<1>4. QED
  BY <1>1, <1>2, <1>3 DEF IInv

\* The chart stays what the generator wrote, what a file switches off stays off,
\* and a check is reached past the earlier ones.
THEOREM IInvCorrect == Spec => []IInv
<1>1. Init => IInv
  BY InitIInv
<1>2. IInv /\ [Next]_vars => IInv'
  BY NextIInv
<1>3. QED
  BY <1>1, <1>2, PTL DEF Spec

\* Chart, merged values and verdict keep their shape (emit.py, preflight.yaml).
THEOREM TypeCorrect == Spec => []TypeOK
<1>1. IInv => TypeOK
  BY DEF IInv
<1>2. QED
  BY <1>1, IInvCorrect, PTL

\* values.yaml switches off all that the preflight would refuse for its own
\* sake (default_disabled_rules): whatever the profiles, the facts and the
\* overlays, a selection without overrides never fails on it.
THEOREM ShippedIsSafeCorrect == Spec => []ShippedIsSafe
<1>1. IInv => ShippedIsSafe
  BY DEF IInv
<1>2. QED
  BY <1>1, IInvCorrect, PTL

\* What passes the preflight and the guards may stand on the cluster together.
THEOREM RenderedIsSoundCorrect == Spec => []RenderedIsSound
<1>1. IInv => RenderedIsSound
  BY DEF IInv
<1>2. QED
  BY <1>1, IInvCorrect, PTL

\* An overlay does its work wherever it stands among the values files.
THEOREM OverlaySufficesCorrect == Spec => []OverlaySuffices
<1>1. QED
  BY IInvImpliesOverlaySuffices, IInvCorrect, PTL

\* The overlay the applicability preflight names was generated.
THEOREM HintedOverlayCorrect == Spec => []HintedOverlayExists
<1>1. IInv => HintedOverlayExists
  BY DEF IInv
<1>2. QED
  BY <1>1, IInvCorrect, PTL

\* cross_object_file_conflicts, guarded by windows, refuses real conflicts only.
THEOREM FileGuardCorrect == Spec => []FileGuardJustified
<1>1. IInv => FileGuardJustified
  BY DEF IInv
<1>2. QED
  BY <1>1, IInvCorrect, PTL

\* Of what the enabled profiles select, the TailoredProfiles scan all that is
\* applied, and besides only what node.enabled or the version keeps out.
THEOREM ScanFollowsCorrect == Spec => []ScanFollowsSelection
<1>1. IInv => ScanFollowsSelection
  BY DEF IInv
<1>2. QED
  BY <1>1, IInvCorrect, PTL

\* The coverage RULES.md reports conceals no rule that a profile enabled alone
\* leaves undone without a reason.
THEOREM CoverageCorrect == Spec => []CoverageAgrees
<1>1. QED
  BY IInvImpliesCoverageAgrees, IInvCorrect, PTL

=============================================================================
