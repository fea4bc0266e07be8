------------------------- MODULE RegenerationProofs -------------------------
(***************************************************************************)
(* What Regeneration's runs leave behind, for every set of releases, charts*)
(* and files, and however often runs are killed or fail.  The properties   *)
(* follow from IInv, which every step preserves.                           *)
(***************************************************************************)
EXTENDS Regeneration, TLAPS

-----------------------------------------------------------------------------
(***************************************************************************)
(* Charts and their files.                                                 *)
(***************************************************************************)
LEMMA ReleasesAreFiles ==
    /\ Releases \subseteq Artifacts
    /\ Unexpected \notin Releases /\ Absent \notin Releases /\ Torn \notin Releases
    /\ Absent # Unexpected /\ Torn # Unexpected /\ Absent # Torn
BY RegenerationAssumption DEF Artifacts

LEMMA FilesOfRelease ==
    ASSUME NEW a \in Artifacts, NEW c \in Charts
    PROVE  /\ TemplatesOf[a][c] \subseteq Templates
           /\ OverlaysOf[a][c] \subseteq Overlays
BY RegenerationAssumption

LEMMA ChartsOfType ==
    ASSUME NEW a \in Artifacts
    PROVE  ChartsOf(a) \in [Charts -> [Names -> {a, Absent}]]
BY DEF ChartsOf

LEMMA ChartsOfFile ==
    ASSUME NEW a, NEW c \in Charts, NEW n \in Names
    PROVE  ChartsOf(a)[c][n] = IF n \in TemplatesOf[a][c] \cup OverlaysOf[a][c] \cup {"values"}
                               THEN a ELSE Absent
BY DEF ChartsOf

\* Every chart has a values.yaml, which tells the release.
LEMMA ChartsOfInjective ==
    ASSUME NEW a, NEW b, ChartsOf(a) = ChartsOf(b)
    PROVE  a = b
<1>1. Umbrella \in Charts /\ "values" \in Names
  BY RegenerationAssumption DEF Names
<1>2. ChartsOf(a)[Umbrella]["values"] = a /\ ChartsOf(b)[Umbrella]["values"] = b
  BY <1>1, ChartsOfFile
<1>3. QED
  BY <1>2

\* The umbrella has values and perhaps overlays, but no template.
LEMMA UmbrellaHasNoTemplate ==
    ASSUME NEW a \in Artifacts, NEW n \in Templates
    PROVE  ChartsOf(a)[Umbrella][n] = Absent
<1>1. n \in Names /\ n \notin Overlays /\ n # "values" /\ Umbrella \in Charts
  BY RegenerationAssumption DEF Names
<1>2. n \notin TemplatesOf[a][Umbrella] \cup OverlaysOf[a][Umbrella] \cup {"values"}
  BY <1>1, FilesOfRelease, RegenerationAssumption
<1>3. QED
  BY <1>1, <1>2, ChartsOfFile

LEMMA CurrentIsAChart == TypeOK => Current \in Charts
BY DEF TypeOK, Current, Charts

LEMMA ChartIndex ==
    ASSUME TypeOK
    PROVE  /\ chart \in 1..Len(ChartOrder) /\ Len(ChartOrder) \in Nat
           /\ DOMAIN ChartOrder = 1..Len(ChartOrder)
BY RegenerationAssumption DEF TypeOK

\* Two trees of the same shape are equal when their files are.
LEMMA SameCharts ==
    ASSUME NEW S, NEW x \in [Names -> S], NEW T, NEW y \in [Names -> T],
           \A n \in Names : x[n] = y[n]
    PROVE  x = y
OBVIOUS

-----------------------------------------------------------------------------
(***************************************************************************)
(* Types.                                                                  *)
(***************************************************************************)
LEMMA InitTypeOK == Init => TypeOK
<1> SUFFICES ASSUME Init PROVE TypeOK
  OBVIOUS
<1>1. Initial \in Releases /\ Initial \in Artifacts
  BY ReleasesAreFiles, RegenerationAssumption
<1>2. tree \in [Charts -> [Names -> FileContents]] /\ head = tree
  BY <1>1, ChartsOfType DEF Init, FileContents
<1>3. chart \in DOMAIN ChartOrder
  BY RegenerationAssumption DEF Init
<1>4. bumps \in 0..MaxBumps /\ crashes \in 0..MaxCrashes
  BY RegenerationAssumption DEF Init
<1>5. QED
  BY <1>1, <1>2, <1>3, <1>4 DEF Init, TypeOK, NoRun, FileContents

\* A process that ends, or goes on, is in one of its states.
LEMMA EndType ==
    ASSUME NEW how, End(how)
    PROVE  pc' = "idle" /\ result' = how /\ chart' = 1 /\ todo' = {}
BY DEF End

\* The steps that touch neither the tree nor what is built.
FetchStep == FetchSha \/ WriteSha \/ UseCached \/ (\E a \in {run.version, Unexpected} : Download(a))
             \/ DownloadFails \/ VerifySha \/ (\E d \in Datastreams : ExtractDatastream(d))
             \/ ExtractEnd \/ Parse

BuildStep == CleanTemplates \/ WriteValues \/ (\E n \in Overlays : WriteOverlay(n))
             \/ OverlaysDone \/ (\E n \in Templates : WriteTemplate(n)) \/ ChartDone \/ WriteRules

\* What people, and a new process, do.
OutsideStep == (\E fetchOnly \in BOOLEAN : StartRun(fetchOnly)) \/ StartRefresh
               \/ (\E v \in Releases : BumpVersion(v)) \/ RepairPin \/ Commit \/ Restore

LEMMA NextCases ==
    [Next]_vars <=> FetchStep \/ BuildStep \/ OutsideStep \/ Crash \/ UNCHANGED vars
BY DEF Next, NetworkStep, LocalStep, FetchStep, BuildStep, OutsideStep

LEMMA FetchTypeOK == TypeOK /\ FetchStep => TypeOK'
<1> SUFFICES ASSUME TypeOK, FetchStep PROVE TypeOK'
  OBVIOUS
<1> USE DEF TypeOK, bounds, disk
<1>0. 1 \in DOMAIN ChartOrder
  BY RegenerationAssumption
<1>1. CASE FetchSha
  BY <1>0, <1>1 DEF FetchSha, Stay, Goto, End
<1>10. CASE WriteSha
  BY <1>0, <1>10 DEF WriteSha, End
<1>2. CASE UseCached
  BY <1>2 DEF UseCached, Stay, Goto
<1>3. ASSUME NEW a \in {run.version, Unexpected}, Download(a)
      PROVE  TypeOK'
  <2>1. a \in Artifacts
    BY <1>3 DEF Artifacts
  <2>2. QED
    BY <1>3, <2>1 DEF Download, Stay, Goto
<1>4. CASE DownloadFails
  BY <1>0, <1>4 DEF DownloadFails, LeftInCache, End
<1>5. CASE VerifySha
  BY <1>0, <1>5 DEF VerifySha, Goto, End
<1>6. ASSUME NEW d \in Datastreams, ExtractDatastream(d)
      PROVE  TypeOK'
  BY <1>6 DEF ExtractDatastream, Extracted, Goto, FileContents
<1>7. CASE ExtractEnd
  BY <1>0, <1>7 DEF ExtractEnd, Stay, Goto, End
<1>8. CASE Parse
  <2>1. CASE \E a \in Artifacts \ Malformed : \A d \in Datastreams : xml[d] = a
    <3>1. (CHOOSE a \in Artifacts : \A d \in Datastreams : xml[d] = a) \in Artifacts
      BY <2>1
    <3>2. QED
      BY <1>8, <2>1, <3>1 DEF Parse, Stay, Goto
  <2>2. CASE ~ (\E a \in Artifacts \ Malformed : \A d \in Datastreams : xml[d] = a)
    BY <1>0, <1>8, <2>2 DEF Parse, End
  <2>3. QED
    BY <2>1, <2>2
<1>9. QED
  BY <1>1, <1>2, <1>3, <1>4, <1>5, <1>6, <1>7, <1>8, <1>10 DEF FetchStep

LEMMA BuildTypeOK == TypeOK /\ TrustInv /\ BuildStep => TypeOK'
<1> SUFFICES ASSUME TypeOK, TrustInv, BuildStep PROVE TypeOK'
  OBVIOUS
<1> USE DEF TypeOK, bounds, disk
<1>0. 1 \in DOMAIN ChartOrder /\ Current \in Charts
  BY CurrentIsAChart, RegenerationAssumption
<1>1. run.parsed \in Artifacts
  BY ReleasesAreFiles DEF BuildStep, TrustInv, Building, CleanTemplates, WriteValues,
     WriteOverlay, OverlaysDone, WriteTemplate, ChartDone, WriteRules
<1>2. CASE CleanTemplates
  <2>1. EmptyTemplates \in [Names -> FileContents]
    BY <1>0 DEF EmptyTemplates, FileContents
  <2>2. QED
    BY <1>0, <1>2, <2>1 DEF CleanTemplates, Goto, Names
<1>3. CASE WriteValues
  BY <1>0, <1>1, <1>3 DEF WriteValues, SetFile, Goto, FileContents, Names
<1>4. ASSUME NEW n \in Overlays, WriteOverlay(n)
      PROVE  TypeOK'
  <2>1. OverlayContent(n) \in FileContents
    BY <1>1 DEF OverlayContent, FileContents
  <2>2. QED
    BY <1>0, <1>4, <2>1 DEF WriteOverlay, SetFile, Goto
<1>5. CASE OverlaysDone
  <2>1. TemplatesOf[run.parsed][Current] \subseteq Names
    BY <1>0, <1>1, FilesOfRelease DEF Names
  <2>2. QED
    BY <1>5, <2>1 DEF OverlaysDone, Goto
<1>6. ASSUME NEW n \in Templates, WriteTemplate(n)
      PROVE  TypeOK'
  <2>1. /\ chart' \in DOMAIN ChartOrder /\ todo' \in SUBSET (Datastreams \cup Names)
        /\ pc' \in {"idle", "templates"} /\ result' \in {"partial", result}
    BY <1>0, <1>6 DEF WriteTemplate, Goto, End
  <2>2. tree' = tree \/ tree' = [tree EXCEPT ![Current][n] = run.parsed]
    BY <1>6 DEF WriteTemplate, SetFile
  <2>3. tree' \in [Charts -> [Names -> FileContents]]
    <3>1. run.parsed \in FileContents /\ tree \in [Charts -> [Names -> FileContents]]
      BY <1>1 DEF FileContents
    <3>2. CASE tree' = [tree EXCEPT ![Current][n] = run.parsed]
      BY <3>1, <3>2
    <3>3. QED
      BY <3>1, <3>2, <2>2
  <2>4. QED
    BY <1>6, <2>1, <2>3 DEF WriteTemplate
<1>7. CASE ChartDone
  BY <1>7, ChartIndex DEF ChartDone, Goto, Stay
<1>8. CASE WriteRules
  BY <1>0, <1>1, <1>8 DEF WriteRules, End, FileContents
<1>9. QED
  BY <1>2, <1>3, <1>4, <1>5, <1>6, <1>7, <1>8 DEF BuildStep

\* The part of a crash that concerns the disk.
LEMMA CrashFacts ==
    ASSUME TypeOK, Crash
    PROVE  /\ ~ Idle /\ pc' = "idle" /\ result' = "killed" /\ chart' = 1 /\ todo' = {}
           /\ UNCHANGED <<head, run, bumps, cache>>
           /\ xml' \in [Datastreams -> FileContents]
           /\ tree' \in [Charts -> [Names -> FileContents]]
           /\ rulesMd' \in {rulesMd, Torn}
           /\ \A c \in Charts, n \in Names :
                 \/ tree'[c][n] = tree[c][n]
                 \/ c = Current /\ tree'[c][n] = Absent
                 \/ c = Current /\ n \in todo /\ pc \in {"values", "overlays", "templates"}
                        /\ tree'[c][n] = Torn
           /\ ~ Building => UNCHANGED <<tree, rulesMd>>
<1> USE DEF TypeOK
<1>1. /\ ~ Idle /\ pc' = "idle" /\ result' = "killed" /\ chart' = 1 /\ todo' = {}
      /\ UNCHANGED <<head, run, bumps, cache>>
  BY DEF Crash, End, LeftInCache
<1>2. Current \in Charts
  BY CurrentIsAChart
<1>3. CASE UNCHANGED <<xml, tree, rulesMd>>
  BY <1>1, <1>3
<1>4. ASSUME pc = "extract", NEW d \in Extractable, xml' = [xml EXCEPT ![d] = Torn],
             UNCHANGED <<tree, rulesMd>>
      PROVE  xml' \in [Datastreams -> FileContents]
  BY <1>4 DEF FileContents
<1>5. ASSUME pc = "clean", NEW gone \in SUBSET Templates,
             tree' = [tree EXCEPT ![Current] =
                         [n \in Names |-> IF n \in gone THEN EmptyTemplates[n] ELSE tree[Current][n]]]
      PROVE  /\ tree' \in [Charts -> [Names -> FileContents]]
             /\ \A c \in Charts, n \in Names :
                   \/ tree'[c][n] = tree[c][n]
                   \/ c = Current /\ tree'[c][n] = Absent
  <2>1. \A n \in Names : EmptyTemplates[n] \in {tree[Current][n], Absent}
    BY <1>2 DEF EmptyTemplates
  <2>2. \A n \in Names : tree[Current][n] \in FileContents /\ Absent \in FileContents
    BY <1>2 DEF FileContents
  <2>3. QED
    BY <1>2, <1>5, <2>1, <2>2
<1>6. ASSUME NEW n \in todo, SetFile(n, Torn)
      PROVE  /\ tree' \in [Charts -> [Names -> FileContents]]
             /\ \A c \in Charts, m \in Names :
                   \/ tree'[c][m] = tree[c][m]
                   \/ c = Current /\ m \in todo /\ tree'[c][m] = Torn
  BY <1>2, <1>6 DEF SetFile, FileContents
<1>7. QED
  BY <1>1, <1>3, <1>4, <1>5, <1>6 DEF Crash, Building

\* A crash may tear the pin, but leaves the release it asks for.
LEMMA CrashPin ==
    ASSUME TypeOK, Crash
    PROVE  /\ pin' \in [version : Releases, sha : Releases, torn : BOOLEAN]
           /\ pin'.version = pin.version
<1>1. pin' = pin \/ pin' = [pin EXCEPT !.torn = TRUE]
  BY DEF Crash
<1>2. QED
  BY <1>1 DEF TypeOK

LEMMA CrashTypeOK == TypeOK /\ Crash => TypeOK'
<1> SUFFICES ASSUME TypeOK, Crash PROVE TypeOK'
  OBVIOUS
<1>1. crashes' \in 0..MaxCrashes /\ 1 \in DOMAIN ChartOrder
  BY RegenerationAssumption DEF Crash, TypeOK
<1>2. /\ cache' = cache /\ head' = head /\ run' = run /\ bumps' = bumps
      /\ pc' = "idle" /\ result' = "killed" /\ chart' = 1 /\ todo' = {}
      /\ xml' \in [Datastreams -> FileContents]
      /\ tree' \in [Charts -> [Names -> FileContents]]
      /\ rulesMd' \in {rulesMd, Torn} /\ Torn \in FileContents
  BY CrashFacts DEF FileContents
<1>3. pin' \in [version : Releases, sha : Releases, torn : BOOLEAN]
  BY CrashPin
<1>4. QED
  BY <1>1, <1>2, <1>3 DEF TypeOK

LEMMA OutsideTypeOK == TypeOK /\ OutsideStep => TypeOK'
<1> SUFFICES ASSUME TypeOK, OutsideStep PROVE TypeOK'
  OBVIOUS
<1> USE DEF TypeOK, bounds, disk, process
<1>0. 1 \in DOMAIN ChartOrder
  BY RegenerationAssumption
<1>1. ASSUME NEW fetchOnly \in BOOLEAN, StartRun(fetchOnly)
      PROVE  TypeOK'
  BY <1>0, <1>1 DEF StartRun, Load, Stay, Goto, End
<1>2. CASE StartRefresh
  <2>1. ASSUME NEW fetchOnly \in BOOLEAN, Idle, Load(fetchOnly, "refresh"), UNCHANGED <<disk, bounds>>
        PROVE  TypeOK'
    BY <1>0, <2>1 DEF Load, Stay, Goto, End
  <2>2. QED
    BY <1>2, <2>1 DEF StartRefresh
<1>3. ASSUME NEW v \in Releases, BumpVersion(v)
      PROVE  TypeOK'
  <2>1. bumps' \in 0..MaxBumps
    BY <1>3, RegenerationAssumption DEF BumpVersion
  <2>2. QED
    BY <1>3, <2>1 DEF BumpVersion
<1>4. CASE Commit
  BY <1>4 DEF Commit
<1>5. CASE Restore
  BY <1>5 DEF Restore
<1>6. CASE RepairPin
  BY <1>6 DEF RepairPin
<1>7. QED
  BY <1>1, <1>2, <1>3, <1>4, <1>5, <1>6 DEF OutsideStep

LEMMA NextTypeOK == TypeOK /\ TrustInv /\ [Next]_vars => TypeOK'
<1> SUFFICES ASSUME TypeOK, TrustInv, [Next]_vars PROVE TypeOK'
  OBVIOUS
<1>1. CASE UNCHANGED vars
  BY <1>1 DEF vars, disk, process, bounds, TypeOK
<1>2. QED
  BY <1>1, NextCases, FetchTypeOK, BuildTypeOK, CrashTypeOK, OutsideTypeOK

-----------------------------------------------------------------------------
(***************************************************************************)
(* What a run may trust.                                                   *)
(***************************************************************************)
\* What the later phases of a run keep of the earlier ones.
LEMMA BuildFacts ==
    ASSUME TypeOK, TrustInv, BuildStep
    PROVE  /\ Building /\ ~ Idle
           /\ run.parsed = run.version /\ run.sha = run.version /\ run.version \in Releases
           /\ UNCHANGED <<pin, cache, xml, head, run, bumps, crashes>>
           /\ pc' = "idle" \/ Building'
<1> USE DEF Building, Idle, TrustInv, TypeOK, bounds, disk
<1>1. CASE CleanTemplates
  BY <1>1 DEF CleanTemplates, Goto
<1>2. CASE WriteValues
  BY <1>2 DEF WriteValues, Goto
<1>3. ASSUME NEW n \in Overlays, WriteOverlay(n)
      PROVE  /\ pc = "overlays" /\ pc' = "overlays"
             /\ UNCHANGED <<pin, cache, xml, head, run, bumps, crashes>>
  BY <1>3 DEF WriteOverlay, Goto
<1>4. CASE OverlaysDone
  BY <1>4 DEF OverlaysDone, Goto
<1>5. ASSUME NEW n \in Templates, WriteTemplate(n)
      PROVE  /\ pc = "templates" /\ pc' \in {"idle", "templates"}
             /\ UNCHANGED <<pin, cache, xml, head, run, bumps, crashes>>
  BY <1>5 DEF WriteTemplate, Goto, End
<1>6. CASE ChartDone
  BY <1>6 DEF ChartDone, Goto, Stay
<1>7. CASE WriteRules
  BY <1>7 DEF WriteRules, End
<1>8. QED
  BY <1>1, <1>2, <1>3, <1>4, <1>5, <1>6, <1>7 DEF BuildStep

LEMMA FetchFacts ==
    ASSUME TypeOK, FetchStep
    PROVE  /\ ~ Idle /\ ~ Building
           /\ UNCHANGED <<tree, rulesMd, head, bumps, crashes>>
           /\ (pc' = "idle" /\ result' # "done") \/ (pc' # "idle" /\ result' = result)
           /\ chart' \in {1, chart}
           /\ Building' => pc = "parse" /\ pc' = "clean" /\ chart' = chart
<1> USE DEF Building, Idle, bounds, disk
<1>1. CASE FetchSha
  BY <1>1 DEF FetchSha, Stay, Goto, End
<1>10. CASE WriteSha
  BY <1>10 DEF WriteSha, End
<1>2. CASE UseCached
  BY <1>2 DEF UseCached, Stay, Goto
<1>3. ASSUME NEW a \in {run.version, Unexpected}, Download(a)
      PROVE  /\ pc = "fetch" /\ pc' = "verify" /\ result' = result /\ chart' = chart
             /\ UNCHANGED <<tree, rulesMd, head, bumps, crashes>>
  BY <1>3 DEF Download, Stay, Goto
<1>4. CASE DownloadFails
  BY <1>4 DEF DownloadFails, LeftInCache, End
<1>5. CASE VerifySha
  BY <1>5 DEF VerifySha, Goto, End
<1>6. ASSUME NEW d \in Datastreams, ExtractDatastream(d)
      PROVE  /\ pc = "extract" /\ pc' = "extract" /\ result' = result /\ chart' = chart
             /\ UNCHANGED <<tree, rulesMd, head, bumps, crashes>>
  BY <1>6 DEF ExtractDatastream, Goto
<1>7. CASE ExtractEnd
  BY <1>7 DEF ExtractEnd, Stay, Goto, End
<1>8. CASE Parse
  BY <1>8 DEF Parse, Stay, Goto, End
<1>9. QED
  BY <1>1, <1>2, <1>3, <1>4, <1>5, <1>6, <1>7, <1>8, <1>10 DEF FetchStep

\* Two artifacts cannot both be the one every datastream was extracted from:
\* there is a datastream.
LEMMA ParsedArtifact ==
    ASSUME NEW r \in Artifacts, \A d \in Datastreams : xml[d] = r
    PROVE  (CHOOSE a \in Artifacts : \A d \in Datastreams : xml[d] = a) = r
BY RegenerationAssumption

LEMMA FetchTrustInv == TypeOK /\ TrustInv /\ FetchStep => TrustInv'
<1> SUFFICES ASSUME TypeOK, TrustInv, FetchStep PROVE TrustInv'
  OBVIOUS
<1> USE DEF TrustInv, Building, Idle, bounds, disk
<1>0. run.version \in Releases /\ run.sha \in Releases
  BY DEF TypeOK
<1>1. CASE FetchSha
  BY <1>1 DEF FetchSha, Stay, Goto, End
<1>10. CASE WriteSha
  BY <1>10 DEF WriteSha, End
<1>2. CASE UseCached
  BY <1>2 DEF UseCached, Stay, Goto
<1>3. ASSUME NEW a \in {run.version, Unexpected}, Download(a)
      PROVE  TrustInv'
  <2>1. \A v \in Releases : cache'[v] \in {v, Unexpected, Absent}
    BY <1>0, <1>3 DEF Download, TypeOK
  <2>2. QED
    BY <1>3, <2>1 DEF Download, Stay, Goto
<1>4. CASE DownloadFails
  BY <1>4 DEF DownloadFails, LeftInCache, End
<1>5. CASE VerifySha
  <2>1. ShaMatches => cache[run.version] = run.version /\ run.sha = run.version
    BY <1>0, ReleasesAreFiles DEF ShaMatches
  <2>2. QED
    BY <1>5, <2>1 DEF VerifySha, Goto, End
<1>6. ASSUME NEW d \in Datastreams, ExtractDatastream(d)
      PROVE  TrustInv'
  <2>1. \A e \in Datastreams \ todo' : xml'[e] = run.version
    BY <1>6 DEF ExtractDatastream, Extracted, TypeOK
  <2>2. QED
    BY <1>6, <2>1 DEF ExtractDatastream, Goto
<1>7. CASE ExtractEnd
  BY <1>7 DEF ExtractEnd, Stay, Goto, End
<1>8. CASE Parse
  <2>1. (CHOOSE a \in Artifacts : \A d \in Datastreams : xml[d] = a) = run.version
    BY <1>0, <1>8, ReleasesAreFiles, ParsedArtifact DEF Parse
  <2>2. \/ run' = [run EXCEPT !.parsed = run.version] /\ pc' = "clean"
        \/ run' = run /\ pc' = "idle"
    BY <1>8, <2>1 DEF Parse, Stay, Goto, End
  <2>3. QED
    BY <1>8, <2>2 DEF Parse, TypeOK
<1>9. QED
  BY <1>1, <1>2, <1>3, <1>4, <1>5, <1>6, <1>7, <1>8, <1>10 DEF FetchStep

LEMMA OutsideTrustInv == TypeOK /\ TrustInv /\ OutsideStep => TrustInv'
<1> SUFFICES ASSUME TypeOK, TrustInv, OutsideStep PROVE TrustInv'
  OBVIOUS
<1> USE DEF TrustInv, Building, Idle, bounds, disk, process
<1>1. ASSUME NEW fetchOnly \in BOOLEAN, StartRun(fetchOnly)
      PROVE  TrustInv'
  BY <1>1 DEF StartRun, Load, Stay, Goto, End
<1>2. CASE StartRefresh
  BY <1>2 DEF StartRefresh, Load, Stay, Goto, End
<1>3. ASSUME NEW v \in Releases, BumpVersion(v)
      PROVE  TrustInv'
  BY <1>3 DEF BumpVersion
<1>4. CASE Commit
  BY <1>4 DEF Commit
<1>5. CASE Restore
  BY <1>5 DEF Restore
<1>6. CASE RepairPin
  BY <1>6 DEF RepairPin
<1>7. QED
  BY <1>1, <1>2, <1>3, <1>4, <1>5, <1>6 DEF OutsideStep

LEMMA NextTrustInv == TypeOK /\ TrustInv /\ [Next]_vars => TrustInv'
<1> SUFFICES ASSUME TypeOK, TrustInv, [Next]_vars PROVE TrustInv'
  OBVIOUS
<1>1. CASE BuildStep
  BY <1>1, BuildFacts DEF TrustInv, Building, Idle
<1>2. CASE Crash
  BY <1>2, CrashFacts DEF TrustInv, Building, Idle
<1>3. CASE UNCHANGED vars
  BY <1>3 DEF vars, disk, process, TrustInv, Building, Idle
<1>4. QED
  BY <1>1, <1>2, <1>3, NextCases, FetchTrustInv, OutsideTrustInv

-----------------------------------------------------------------------------
(***************************************************************************)
(* What a build has put right.                                             *)
(***************************************************************************)
LEMMA NamesFacts ==
    /\ Names = Templates \cup Overlays \cup {"values"}
    /\ Templates \cap Overlays = {} /\ "values" \notin Templates \cup Overlays
BY RegenerationAssumption DEF Names

LEMMA EarlierCharts ==
    ASSUME TypeOK, NEW i \in DOMAIN ChartOrder, i < chart
    PROVE  ChartOrder[i] \in Charts /\ ChartOrder[i] # Current
<1>1. i # chart /\ chart \in DOMAIN ChartOrder
  BY ChartIndex DEF TypeOK
<1>2. QED
  BY <1>1, RegenerationAssumption DEF Charts, Current

LEMMA SetFileFacts ==
    ASSUME TypeOK, NEW n \in Names, NEW content, SetFile(n, content)
    PROVE  /\ \A c \in Charts : c # Current => tree'[c] = tree[c]
           /\ \A m \in Names \ {n} : tree'[Current][m] = tree[Current][m]
           /\ tree'[Current][n] = content
<1>1. Current \in Charts /\ tree \in [Charts -> [Names -> FileContents]]
  BY CurrentIsAChart DEF TypeOK
<1>2. QED
  BY <1>1 DEF SetFile

\* A file of a chart that was written, or left out, as the release has it.
Right(n) == tree[Current][n] = ChartsOf(run.parsed)[Current][n]

\* A chart is finished when no file is pending.
LEMMA FinishedChart ==
    ASSUME TypeOK, run.parsed \in Artifacts, \A n \in Names : Right(n)
    PROVE  tree[Current] = ChartsOf(run.parsed)[Current]
<1>1. /\ tree[Current] \in [Names -> FileContents]
      /\ ChartsOf(run.parsed)[Current] \in [Names -> {run.parsed, Absent}]
  BY CurrentIsAChart, ChartsOfType DEF TypeOK
<1>2. QED
  BY <1>1, SameCharts DEF Right

LEMMA CleanBuildInv ==
    TypeOK /\ TrustInv /\ BuildInv /\ UmbrellaInv /\ CleanTemplates => BuildInv'
<1> SUFFICES ASSUME TypeOK, TrustInv, BuildInv, UmbrellaInv, CleanTemplates PROVE BuildInv'
  OBVIOUS
<1>1. /\ pc = "clean" /\ pc' = "values" /\ todo' = {"values"}
      /\ run' = run /\ chart' = chart /\ Current' = Current
      /\ run.parsed \in Artifacts /\ Current \in Charts
      /\ tree' = [tree EXCEPT ![Current] = EmptyTemplates]
  BY ReleasesAreFiles, CurrentIsAChart
     DEF CleanTemplates, Goto, Current, TypeOK, TrustInv, Building
<1>2. tree \in [Charts -> [Names -> FileContents]]
  BY DEF TypeOK
<1>3. ASSUME NEW i \in DOMAIN ChartOrder, i < chart
      PROVE  tree'[ChartOrder[i]] = ChartsOf(run.parsed)[ChartOrder[i]]
  BY <1>1, <1>2, <1>3, EarlierCharts DEF BuildInv, Building
<1>4. ASSUME NEW n \in Templates, n \notin TemplatesOf[run.parsed][Current]
      PROVE  tree'[Current][n] = ChartsOf(run.parsed)[Current][n]
  <2>1. n \in Names /\ n \notin Overlays /\ n # "values"
    BY NamesFacts
  <2>2. EmptyTemplates[n] = Absent
    BY <1>1, <2>1 DEF EmptyTemplates, UmbrellaInv
  <2>3. ChartsOf(run.parsed)[Current][n] = Absent
    BY <1>1, <1>4, <2>1, ChartsOfFile, FilesOfRelease
  <2>4. QED
    BY <1>1, <1>2, <2>2, <2>3
<1>5. Pending' = Overlays \cup {"values"} \cup TemplatesOf[run.parsed][Current]
  BY <1>1 DEF Pending
<1>6. \A n \in Names \ Pending' : tree'[Current][n] = ChartsOf(run.parsed)[Current][n]
  BY <1>4, <1>5, NamesFacts
<1>7. QED
  BY <1>1, <1>3, <1>6 DEF BuildInv, Building

\* A file the build writes as the release has it is no longer pending.
LEMMA FileBuildInv ==
    ASSUME TypeOK, TrustInv, BuildInv, Building, run' = run, chart' = chart,
           pc \in {"values", "overlays", "templates"}, pc' \in {"overlays", "templates"},
           NEW n \in Names, SetFile(n, ChartsOf(run.parsed)[Current][n]),
           Pending \subseteq Pending' \cup {n},
           pc' = "overlays" => todo' \subseteq Overlays,
           pc' = "templates" => todo' \subseteq TemplatesOf[run.parsed][Current]
    PROVE  BuildInv'
<1>1. Current' = Current
  BY DEF Current
<1>2. ASSUME NEW i \in DOMAIN ChartOrder, i < chart
      PROVE  tree'[ChartOrder[i]] = ChartsOf(run.parsed)[ChartOrder[i]]
  BY <1>2, EarlierCharts, SetFileFacts DEF BuildInv
<1>3. ASSUME NEW m \in Names \ Pending'
      PROVE  tree'[Current][m] = ChartsOf(run.parsed)[Current][m]
  <2>1. CASE m = n
    BY <2>1, SetFileFacts
  <2>2. CASE m # n
    <3>1. tree'[Current][m] = tree[Current][m]
      BY <2>2, SetFileFacts
    <3>2. m \in Names \ Pending
      BY <2>2
    <3>3. QED
      BY <3>1, <3>2 DEF BuildInv
  <2>3. QED
    BY <2>1, <2>2
<1>4. QED
  BY <1>1, <1>2, <1>3 DEF BuildInv, Building

LEMMA NextBuildInv ==
    TypeOK /\ TrustInv /\ BuildInv /\ UmbrellaInv /\ BuildStep => BuildInv'
<1> SUFFICES ASSUME TypeOK, TrustInv, BuildInv, UmbrellaInv, BuildStep PROVE BuildInv'
  OBVIOUS
<1>1. /\ Building /\ run' = run /\ Current \in Charts
      /\ run.parsed \in Artifacts
  BY BuildFacts, ReleasesAreFiles, CurrentIsAChart
<1>2. CASE WriteValues
  <2>1. pc = "values" /\ pc' = "overlays" /\ todo' = Overlays /\ chart' = chart /\ Current' = Current
    BY <1>2 DEF WriteValues, Goto, Current
  <2>2. "values" \in Names /\ ChartsOf(run.parsed)[Current]["values"] = run.parsed
    BY <1>1, NamesFacts, ChartsOfFile
  <2>3. SetFile("values", ChartsOf(run.parsed)[Current]["values"])
    BY <1>2, <2>2 DEF WriteValues
  <2>4. Pending \subseteq Pending' \cup {"values"}
    BY <1>1, <2>1 DEF Pending
  <2>5. QED
    BY <1>1, <2>1, <2>2, <2>3, <2>4, FileBuildInv
<1>3. ASSUME NEW n \in Overlays, WriteOverlay(n)
      PROVE  BuildInv'
  <2>1. /\ pc = "overlays" /\ pc' = "overlays" /\ todo' = todo \ {n} /\ todo \subseteq Overlays
        /\ chart' = chart /\ Current' = Current
    BY <1>1, <1>3 DEF WriteOverlay, Goto, Current, BuildInv
  <2>2. n \in Names /\ n \notin Templates /\ n # "values"
    BY NamesFacts
  <2>3. OverlayContent(n) = ChartsOf(run.parsed)[Current][n]
    BY <1>1, <2>2, ChartsOfFile, FilesOfRelease DEF OverlayContent
  <2>4. SetFile(n, ChartsOf(run.parsed)[Current][n])
    BY <1>3, <2>3 DEF WriteOverlay
  <2>5. Pending \subseteq Pending' \cup {n}
    BY <1>1, <2>1 DEF Pending
  <2>6. QED
    BY <1>1, <2>1, <2>2, <2>4, <2>5, FileBuildInv
<1>4. CASE OverlaysDone
  <2>1. /\ pc = "overlays" /\ pc' = "templates" /\ todo = {} /\ chart' = chart /\ tree' = tree
        /\ todo' = TemplatesOf[run.parsed][Current] /\ Current' = Current
    BY <1>4 DEF OverlaysDone, Goto, Current, disk
  <2>2. Pending' = Pending
    BY <2>1 DEF Pending
  <2>3. QED
    BY <1>1, <2>1, <2>2 DEF BuildInv, Building
<1>5. ASSUME NEW n \in Templates, WriteTemplate(n)
      PROVE  BuildInv'
  <2>1. /\ pc = "templates" /\ n \in todo /\ todo \subseteq TemplatesOf[run.parsed][Current]
        /\ chart \in Nat
    BY <1>1, <1>5, ChartIndex DEF WriteTemplate, BuildInv
  <2>2. CASE pc' = "idle"
    BY <1>5, <2>1, <2>2 DEF WriteTemplate, End, Goto, BuildInv, Building
  <2>3. CASE pc' # "idle"
    <3>1. /\ pc' = "templates" /\ todo' = todo \ {n} /\ chart' = chart /\ Current' = Current
          /\ SetFile(n, run.parsed)
      BY <1>5, <2>3 DEF WriteTemplate, End, Goto, Current
    <3>2. n \in Names /\ ChartsOf(run.parsed)[Current][n] = run.parsed
      BY <1>1, <2>1, NamesFacts, ChartsOfFile
    <3>3. Pending \subseteq Pending' \cup {n}
      BY <2>1, <3>1 DEF Pending
    <3>4. QED
      BY <1>1, <2>1, <3>1, <3>2, <3>3, FileBuildInv
  <2>4. QED
    BY <2>2, <2>3
<1>6. CASE ChartDone
  <2>1. pc = "templates" /\ todo = {} /\ tree' = tree /\ Pending = {}
    BY <1>6 DEF ChartDone, disk, Pending
  <2>2. \A n \in Names : Right(n)
    BY <1>1, <2>1 DEF BuildInv, Right
  <2>3. tree[Current] = ChartsOf(run.parsed)[Current]
    BY <1>1, <2>2, FinishedChart
  <2>4. \A i \in DOMAIN ChartOrder :
           i < chart + 1 => tree[ChartOrder[i]] = ChartsOf(run.parsed)[ChartOrder[i]]
    BY <1>1, <2>3, ChartIndex DEF BuildInv, Current
  <2>5. CASE chart < Len(ChartOrder)
    <3>1. chart' = chart + 1 /\ pc' = "clean" /\ Pending' = Names
      BY <1>6, <2>5 DEF ChartDone, Goto, Pending
    <3>2. QED
      BY <1>1, <2>1, <2>4, <3>1 DEF BuildInv, Building
  <2>6. CASE ~ (chart < Len(ChartOrder))
    <3>1. /\ chart' = chart /\ pc' = "rules" /\ Pending' = {} /\ Current' = Current
          /\ chart = Len(ChartOrder)
      BY <1>6, <2>6, ChartIndex DEF ChartDone, Stay, Goto, Pending, Current
    <3>2. QED
      BY <1>1, <2>1, <2>2, <3>1 DEF BuildInv, Building, Right
  <2>7. QED
    BY <2>5, <2>6
<1>7. CASE WriteRules
  BY <1>7 DEF WriteRules, End, BuildInv, Building
<1>8. QED
  BY <1>2, <1>3, <1>4, <1>5, <1>6, <1>7, CleanBuildInv DEF BuildStep

-----------------------------------------------------------------------------
(***************************************************************************)
(* What is on disk, and what a run that ends well has written.             *)
(***************************************************************************)
\* A build writes files of the release it has verified, removes others, and
\* gives the umbrella no template.
LEMMA BuildWrites ==
    ASSUME TypeOK, TrustInv, BuildInv, BuildStep
    PROVE  /\ \A c \in Charts, n \in Names : tree'[c][n] \in {tree[c][n], run.parsed, Absent}
           /\ \A n \in Templates : tree'[Umbrella][n] \in {tree[Umbrella][n], Absent}
           /\ rulesMd' \in {rulesMd, run.parsed}
<1>1. /\ Building /\ run.parsed \in Artifacts /\ Current \in Charts
      /\ tree \in [Charts -> [Names -> FileContents]] /\ Umbrella \in Charts
  BY BuildFacts, ReleasesAreFiles, CurrentIsAChart, RegenerationAssumption DEF TypeOK
<1>2. CASE CleanTemplates
  <2>1. tree' = [tree EXCEPT ![Current] = EmptyTemplates] /\ rulesMd' = rulesMd
    BY <1>2 DEF CleanTemplates
  <2>2. \A n \in Names : EmptyTemplates[n] \in {tree[Current][n], Absent}
    BY DEF EmptyTemplates
  <2>3. QED
    BY <1>1, <2>1, <2>2, NamesFacts
<1>3. ASSUME NEW n \in Names, n = "values" \/ n \in Overlays,
             SetFile(n, run.parsed) \/ SetFile(n, Absent)
      PROVE  /\ \A c \in Charts, m \in Names : tree'[c][m] \in {tree[c][m], run.parsed, Absent}
             /\ \A m \in Templates : tree'[Umbrella][m] \in {tree[Umbrella][m], Absent}
  <2>1. n \notin Templates /\ Templates \subseteq Names
    BY <1>3, NamesFacts
  <2>2. QED
    BY <1>1, <1>3, <2>1 DEF SetFile
<1>4. CASE WriteValues
  BY <1>3, <1>4, NamesFacts DEF WriteValues
<1>5. ASSUME NEW n \in Overlays, WriteOverlay(n)
      PROVE  rulesMd' = rulesMd /\ (SetFile(n, run.parsed) \/ SetFile(n, Absent)) /\ n \in Names
  BY <1>5, NamesFacts DEF WriteOverlay, OverlayContent
<1>6. CASE OverlaysDone
  BY <1>6 DEF OverlaysDone, disk
<1>7. ASSUME NEW n \in Templates, WriteTemplate(n)
      PROVE  /\ \A c \in Charts, m \in Names : tree'[c][m] \in {tree[c][m], run.parsed, Absent}
             /\ \A m \in Templates : tree'[Umbrella][m] \in {tree[Umbrella][m], Absent}
             /\ rulesMd' = rulesMd
  <2>1. pc = "templates" /\ n \in TemplatesOf[run.parsed][Current]
    BY <1>1, <1>7 DEF WriteTemplate, BuildInv
  <2>2. Current # Umbrella
    BY <1>1, <2>1, RegenerationAssumption
  <2>3. n \in Names /\ Templates \subseteq Names
    BY NamesFacts
  <2>4. rulesMd' = rulesMd /\ (tree' = tree \/ SetFile(n, run.parsed))
    BY <1>7 DEF WriteTemplate
  <2>5. QED
    BY <1>1, <2>2, <2>3, <2>4, SetFileFacts
<1>8. CASE ChartDone
  BY <1>8 DEF ChartDone, disk
<1>9. CASE WriteRules
  BY <1>9 DEF WriteRules
<1>10. QED
  BY <1>2, <1>3, <1>4, <1>5, <1>6, <1>7, <1>8, <1>9 DEF BuildStep

\* Only the last step of a build reports that it is done.
LEMMA BuildDone ==
    ASSUME TypeOK, TrustInv, BuildInv, BuildStep, pc' = "idle", result' = "done"
    PROVE  /\ tree' = ChartsOf(run.version) /\ rulesMd' = run.version
<1>1. /\ Building /\ run.parsed \in Artifacts /\ Current \in Charts /\ run.parsed = run.version
      /\ tree \in [Charts -> [Names -> FileContents]]
  BY BuildFacts, ReleasesAreFiles, CurrentIsAChart DEF TypeOK
<1>2. WriteRules
  BY DEF BuildStep, CleanTemplates, WriteValues, WriteOverlay, OverlaysDone, WriteTemplate,
         ChartDone, Goto, Stay, End
<1>3. pc = "rules" /\ tree' = tree /\ rulesMd' = run.parsed /\ Pending = {}
  BY <1>2 DEF WriteRules, Pending
<1>4. tree[Current] = ChartsOf(run.parsed)[Current]
  BY <1>1, <1>3, FinishedChart DEF BuildInv, Right
<1>5. \A i \in DOMAIN ChartOrder : tree[ChartOrder[i]] = ChartsOf(run.parsed)[ChartOrder[i]]
  BY <1>1, <1>3, <1>4, ChartIndex DEF BuildInv, Current
<1>6. \A c \in Charts : tree[c] = ChartsOf(run.parsed)[c]
  BY <1>5 DEF Charts
<1>7. tree = ChartsOf(run.parsed)
  BY <1>1, <1>6, ChartsOfType
<1>8. QED
  BY <1>1, <1>3, <1>7

LEMMA NextUmbrellaInv ==
    TypeOK /\ TrustInv /\ BuildInv /\ UmbrellaInv /\ DiskInv /\ [Next]_vars => UmbrellaInv'
<1> SUFFICES ASSUME TypeOK, TrustInv, BuildInv, UmbrellaInv, DiskInv, [Next]_vars,
                    NEW n \in Templates
             PROVE  tree'[Umbrella][n] = Absent
  BY DEF UmbrellaInv
<1>1. n \in Names /\ n \notin Overlays /\ n # "values" /\ Umbrella \in Charts
  BY NamesFacts, RegenerationAssumption
<1>2. tree[Umbrella][n] = Absent
  BY DEF UmbrellaInv
<1>3. CASE BuildStep
  BY <1>2, <1>3, BuildWrites
<1>4. CASE Crash
  <2>1. CASE tree'[Umbrella][n] # Torn
    BY <1>1, <1>2, <1>4, <2>1, CrashFacts
  <2>2. CASE tree'[Umbrella][n] = Torn
    <3>1. Umbrella = Current /\ n \in todo /\ pc \in {"values", "overlays", "templates"}
      BY <1>1, <1>2, <1>4, <2>2, CrashFacts, ReleasesAreFiles
    <3>2. run.parsed \in Artifacts /\ Building
      BY <3>1, ReleasesAreFiles DEF TrustInv, Building, TypeOK
    <3>3. QED
      BY <1>1, <3>1, <3>2, RegenerationAssumption DEF BuildInv
  <2>3. QED
    BY <2>1, <2>2
<1>5. CASE FetchStep
  BY <1>2, <1>5, FetchFacts
<1>6. CASE OutsideStep
  <2>1. CASE Restore
    <3>1. PICK r \in Releases : head = ChartsOf(r)
      BY DEF DiskInv
    <3>2. head[Umbrella][n] = Absent
      BY <3>1, UmbrellaHasNoTemplate, ReleasesAreFiles
    <3>3. QED
      BY <1>1, <1>2, <2>1, <3>2 DEF Restore
  <2>2. CASE ~ Restore
    BY <1>2, <1>6, <2>2 DEF OutsideStep, StartRun, StartRefresh, BumpVersion, RepairPin, Commit, disk
  <2>3. QED
    BY <2>1, <2>2
<1>7. CASE UNCHANGED vars
  BY <1>2, <1>7 DEF vars, disk
<1>8. QED
  BY <1>3, <1>4, <1>5, <1>6, <1>7, NextCases

LEMMA NextDiskInv ==
    TypeOK /\ TrustInv /\ BuildInv /\ DiskInv /\ DoneIsWhole /\ [Next]_vars => DiskInv'
<1> SUFFICES ASSUME TypeOK, TrustInv, BuildInv, DiskInv, DoneIsWhole, [Next]_vars PROVE DiskInv'
  OBVIOUS
<1>1. CASE BuildStep
  <2>1. run.parsed # Unexpected /\ Absent # Unexpected
    BY <1>1, BuildFacts, ReleasesAreFiles
  <2>2. QED
    BY <1>1, <2>1, BuildWrites, BuildFacts DEF DiskInv
<1>2. CASE Crash
  BY <1>2, CrashFacts, ReleasesAreFiles DEF DiskInv
<1>3. CASE FetchStep
  BY <1>3, FetchFacts DEF DiskInv
<1>4. CASE OutsideStep
  <2>1. CASE Restore
    <3>1. PICK r \in Releases : head = ChartsOf(r)
      BY DEF DiskInv
    <3>2. \A c \in Charts, n \in Names : head[c][n] # Unexpected
      BY <3>1, ChartsOfType, ReleasesAreFiles
    <3>3. \A c \in Charts, n \in Names : tree'[c][n] # Unexpected
      BY <2>1, <3>2 DEF Restore, DiskInv
    <3>4. QED
      BY <2>1, <3>3 DEF Restore, DiskInv
  <2>2. CASE Commit
    <3>1. tree = ChartsOf(run.version) /\ run.version \in Releases
      BY <2>2 DEF Commit, Completed, DoneIsWhole, TypeOK
    <3>2. QED
      BY <2>2, <3>1 DEF Commit, DiskInv
  <2>3. CASE ~ Restore /\ ~ Commit
    BY <1>4, <2>3 DEF OutsideStep, StartRun, StartRefresh, BumpVersion, RepairPin, disk, DiskInv
  <2>4. QED
    BY <2>1, <2>2, <2>3
<1>5. CASE UNCHANGED vars
  BY <1>5 DEF vars, disk, DiskInv
<1>6. QED
  BY <1>1, <1>2, <1>3, <1>4, <1>5, NextCases

LEMMA NextDoneIsWhole ==
    TypeOK /\ TrustInv /\ BuildInv /\ DoneIsWhole /\ [Next]_vars => DoneIsWhole'
<1> SUFFICES ASSUME TypeOK, TrustInv, BuildInv, DoneIsWhole, [Next]_vars PROVE DoneIsWhole'
  OBVIOUS
<1> USE DEF DoneIsWhole, Idle
<1>1. CASE BuildStep
  BY <1>1, BuildDone, BuildFacts
<1>2. CASE Crash
  BY <1>2, CrashFacts
<1>3. CASE FetchStep
  BY <1>3, FetchFacts
<1>4. CASE OutsideStep
  BY <1>4 DEF OutsideStep, StartRun, StartRefresh, Load, Stay, Goto, End, BumpVersion,
     RepairPin, Commit, Restore,
     disk, process
<1>5. CASE UNCHANGED vars
  BY <1>5 DEF vars, disk, process
<1>6. QED
  BY <1>1, <1>2, <1>3, <1>4, <1>5, NextCases

\* Outside a build the next one starts at the first chart.
LEMMA NextBuildInvAll ==
    TypeOK /\ TrustInv /\ BuildInv /\ UmbrellaInv /\ [Next]_vars => BuildInv'
<1> SUFFICES ASSUME TypeOK, TrustInv, BuildInv, UmbrellaInv, [Next]_vars PROVE BuildInv'
  OBVIOUS
<1>1. CASE Crash
  BY <1>1, CrashFacts DEF BuildInv, Building
<1>2. CASE FetchStep
  <2>1. chart = 1 /\ chart' = 1
    BY <1>2, FetchFacts DEF BuildInv
  <2>2. CASE Building'
    <3>1. pc' = "clean" /\ Pending' = Names
      BY <1>2, <2>2, FetchFacts DEF Pending
    <3>2. \A i \in DOMAIN ChartOrder : ~ (i < 1)
      BY ChartIndex
    <3>3. QED
      BY <2>1, <3>1, <3>2 DEF BuildInv
  <2>3. QED
    BY <2>1, <2>2 DEF BuildInv
<1>3. CASE OutsideStep
  BY <1>3 DEF OutsideStep, StartRun, StartRefresh, Load, Stay, Goto, End, BumpVersion,
     RepairPin, Commit, Restore,
     process, BuildInv, Building, Idle
<1>4. CASE UNCHANGED vars
  <2>1. tree' = tree /\ pc' = pc /\ run' = run /\ todo' = todo /\ chart' = chart
    BY <1>4 DEF vars, disk, process
  <2>2. Pending' = Pending /\ Current' = Current /\ Building' = Building
    BY <2>1 DEF Pending, Current, Building
  <2>3. QED
    BY <2>1, <2>2 DEF BuildInv
<1>5. QED
  BY <1>1, <1>2, <1>3, <1>4, NextCases, NextBuildInv

-----------------------------------------------------------------------------
(***************************************************************************)
(* The invariant, and the properties it implies.                           *)
(***************************************************************************)
LEMMA InitIInv == Init => IInv
<1> SUFFICES ASSUME Init PROVE IInv
  OBVIOUS
<1>1. Initial \in Releases /\ Initial \in Artifacts
  BY ReleasesAreFiles, RegenerationAssumption
<1>2. TrustInv /\ BuildInv /\ DoneIsWhole
  BY DEF Init, TrustInv, BuildInv, DoneIsWhole, Building, Idle
<1>3. UmbrellaInv
  BY <1>1, UmbrellaHasNoTemplate DEF Init, UmbrellaInv
<1>4. DiskInv
  <2>1. \A c \in Charts, n \in Names : tree[c][n] # Unexpected
    BY <1>1, ChartsOfType, ReleasesAreFiles DEF Init
  <2>2. QED
    BY <1>1, <2>1, ReleasesAreFiles DEF Init, DiskInv
<1>5. QED
  BY <1>2, <1>3, <1>4, InitTypeOK DEF IInv

LEMMA NextIInv == IInv /\ [Next]_vars => IInv'
BY NextTypeOK, NextTrustInv, NextBuildInvAll, NextUmbrellaInv, NextDiskInv, NextDoneIsWhole
   DEF IInv

LEMMA IInvImpliesPinned == IInv => OnlyPinnedContent
BY ReleasesAreFiles DEF IInv, TypeOK, TrustInv, DiskInv, OnlyPinnedContent, Idle, Building

\* A run trusts what it has verified, and a build has put right all the charts
\* and files it is done with.
THEOREM IInvCorrect == Spec => []IInv
<1>1. Init => IInv
  BY InitIInv
<1>2. IInv /\ [Next]_vars => IInv'
  BY NextIInv
<1>3. QED
  BY <1>1, <1>2, PTL DEF Spec

\* The disk and the run keep their shape (datastream.py, emit.generate_charts).
THEOREM TypeCorrect == Spec => []TypeOK
<1>1. IInv => TypeOK
  BY DEF IInv
<1>2. QED
  BY <1>1, IInvCorrect, PTL

\* A run that ends well leaves the charts and the RULES.md of its release, file
\* by file, whatever earlier, failed or killed, runs left on the disk.
THEOREM DoneIsWholeCorrect == Spec => []DoneIsWhole
<1>1. IInv => DoneIsWhole
  BY DEF IInv
<1>2. QED
  BY <1>1, IInvCorrect, PTL

\* No artifact but the pinned one reaches the charts or RULES.md: a build reads
\* what its checksum vouches for (datastream.py, verify_sha512).
THEOREM OnlyPinnedContentCorrect == Spec => []OnlyPinnedContent
<1>1. QED
  BY IInvImpliesPinned, IInvCorrect, PTL

-----------------------------------------------------------------------------
(***************************************************************************)
(* Regeneration implements Publication: what the runs do to the disk, step *)
(* by step, with their failures and kills, amounts to one release being    *)
(* published in one piece or not at all, and only such a release being     *)
(* committed.  First, the vocabulary of the two specifications.            *)
(***************************************************************************)
\* The refinement mapping's value for Publication's published.
Published == IF rulesMd = ReleaseIn(tree) THEN ReleaseIn(tree) ELSE Absent

LEMMA ReleaseOfCharts ==
    ASSUME NEW r \in Releases
    PROVE  ReleaseIn(ChartsOf(r)) = r
<1>1. \A s \in Releases : ChartsOf(r) = ChartsOf(s) => s = r
  BY ChartsOfInjective
<1>2. (CHOOSE s \in Releases : ChartsOf(r) = ChartsOf(s)) = r
  BY <1>1
<1>3. QED
  BY <1>2 DEF ReleaseIn

LEMMA ReleaseInType ==
    ASSUME NEW charts
    PROVE  /\ ReleaseIn(charts) \in Releases \cup {Absent}
           /\ ReleaseIn(charts) # Absent => charts = ChartsOf(ReleaseIn(charts))
BY ReleasesAreFiles DEF ReleaseIn

LEMMA PublishedType == Published \in Releases \cup {Absent}
BY ReleaseInType DEF Published

LEMMA PublishedWhole ==
    ASSUME NEW r \in Releases, tree = ChartsOf(r), rulesMd = r
    PROVE  Published = r
BY ReleaseOfCharts DEF Published

-----------------------------------------------------------------------------
(***************************************************************************)
(* Initial states, and the steps of a run.                                 *)
(***************************************************************************)
LEMMA InitRefines == Init => Promise!Init
<1> SUFFICES ASSUME Init PROVE Promise!Init
  OBVIOUS
<1>1. Initial \in Releases
  BY RegenerationAssumption
<1>2. ReleaseIn(tree) = Initial /\ ReleaseIn(head) = Initial /\ rulesMd = Initial
  BY <1>1, ReleaseOfCharts DEF Init
<1>3. pin.version = Initial /\ run.version = Initial /\ Phase = "idle" /\ Report = "none"
  BY DEF Init, NoRun, Phase, Report, Idle
<1>4. QED
  BY <1>2, <1>3 DEF Promise!Init

\* Until the content is verified and read, nothing that is published changes.
LEMMA FetchQuiet ==
    ASSUME TypeOK, FetchStep
    PROVE  /\ pin'.version = pin.version /\ run'.version = run.version
           /\ pc \in {"refresh", "writesha", "fetch", "verify", "extract", "parse"}
           /\ pc' \in {"idle", "writesha", "verify", "extract", "parse", "clean"}
<1> USE DEF TypeOK, bounds, disk
<1>1. CASE FetchSha
  BY <1>1 DEF FetchSha, Stay, Goto, End
<1>10. CASE WriteSha
  BY <1>10 DEF WriteSha, End
<1>2. CASE UseCached
  BY <1>2 DEF UseCached, Stay, Goto
<1>3. ASSUME NEW a \in {run.version, Unexpected}, Download(a)
      PROVE  pin' = pin /\ run' = run /\ pc = "fetch" /\ pc' = "verify"
  BY <1>3 DEF Download, Stay, Goto
<1>4. CASE DownloadFails
  BY <1>4 DEF DownloadFails, End
<1>5. CASE VerifySha
  BY <1>5 DEF VerifySha, Goto, End
<1>6. ASSUME NEW d \in Datastreams, ExtractDatastream(d)
      PROVE  pin' = pin /\ run' = run /\ pc = "extract" /\ pc' = "extract"
  BY <1>6 DEF ExtractDatastream, Goto
<1>7. CASE ExtractEnd
  BY <1>7 DEF ExtractEnd, Stay, Goto, End
<1>8. CASE Parse
  BY <1>8 DEF Parse, Stay, Goto, End
<1>9. QED
  BY <1>1, <1>2, <1>3, <1>4, <1>5, <1>6, <1>7, <1>8, <1>10 DEF FetchStep

LEMMA FetchRefines == IInv /\ FetchStep => [Promise!Next]_Promise!vars
<1> SUFFICES ASSUME IInv, FetchStep PROVE [Promise!Next]_Promise!vars
  OBVIOUS
<1>1. TypeOK
  BY DEF IInv
<1>2. /\ pin'.version = pin.version /\ run'.version = run.version
      /\ Published' = Published /\ ReleaseIn(head)' = ReleaseIn(head)
      /\ Phase = "trying" /\ Report = "none"
  <2>1. tree' = tree /\ rulesMd' = rulesMd /\ head' = head
    BY <1>1, FetchFacts
  <2>2. QED
    BY <1>1, <2>1, FetchQuiet DEF Published, Phase, Report, Idle
<1>3. CASE pc' = "idle"
  <2>1. Phase' = "idle" /\ Report' \in {"none", "failed"}
    BY <1>1, <1>3, FetchFacts DEF Phase, Report, Idle
  <2>2. Promise!GiveUp
    BY <1>2, <2>1 DEF Promise!GiveUp, Published
  <2>3. QED
    BY <2>2 DEF Promise!Next
<1>4. CASE pc' = "clean"
  <2>1. Phase' = "building" /\ Report' = "none"
    BY <1>4 DEF Phase, Report, Idle
  <2>2. Promise!Trust
    BY <1>2, <2>1 DEF Promise!Trust, Published
  <2>3. QED
    BY <2>2 DEF Promise!Next
<1>5. CASE pc' \notin {"idle", "clean"}
  <2>1. Phase' = "trying" /\ Report' = "none"
    BY <1>1, <1>5, FetchQuiet DEF Phase, Report, Idle
  <2>2. QED
    BY <1>2, <2>1 DEF Promise!vars, Published
<1>6. QED
  BY <1>3, <1>4, <1>5

LEMMA BuildEnds ==
    ASSUME BuildStep, pc' = "idle"
    PROVE  result' \in {"partial", "done"}
BY DEF BuildStep, CleanTemplates, WriteValues, WriteOverlay, OverlaysDone, WriteTemplate,
       ChartDone, WriteRules, Goto, Stay, End

LEMMA BuildRefines == IInv /\ BuildStep => [Promise!Next]_Promise!vars
<1> SUFFICES ASSUME IInv, BuildStep PROVE [Promise!Next]_Promise!vars
  OBVIOUS
<1>1. TypeOK /\ TrustInv /\ BuildInv
  BY DEF IInv
<1>2. /\ pin'.version = pin.version /\ run'.version = run.version
      /\ ReleaseIn(head)' = ReleaseIn(head)
      /\ Phase = "building" /\ Report = "none"
  BY <1>1, BuildFacts DEF Phase, Report, Idle, Building
<1>3. Published' \in Releases \cup {Absent}
  <2>1. (Published \in Releases \cup {Absent})'
    BY PublishedType, PTL
  <2>2. QED
    BY <2>1
<1>4. CASE pc' # "idle"
  <2>1. Phase' = "building" /\ Report' = "none"
    BY <1>1, <1>4, BuildFacts DEF Phase, Report, Idle, Building
  <2>2. Promise!Disturb
    BY <1>2, <1>3, <2>1 DEF Promise!Disturb, Published
  <2>3. QED
    BY <2>2 DEF Promise!Next
<1>5. CASE pc' = "idle" /\ result' = "done"
  <2>1. Phase' = "idle" /\ Report' = "ok"
    BY <1>5 DEF Phase, Report, Idle
  <2>2. Published' = run.version
    <3>1. run.version \in Releases /\ tree' = ChartsOf(run.version) /\ rulesMd' = run.version
      BY <1>1, <1>5, BuildDone, BuildFacts
    <3>2. ReleaseIn(tree') = run.version
      BY <3>1, ReleaseOfCharts
    <3>3. QED
      BY <3>1, <3>2 DEF Published
  <2>3. Promise!Succeed
    BY <1>2, <2>1, <2>2 DEF Promise!Succeed, Published
  <2>4. QED
    BY <2>3 DEF Promise!Next
<1>6. CASE pc' = "idle" /\ result' = "partial"
  <2>1. Phase' = "idle" /\ Report' = "failed"
    BY <1>6 DEF Phase, Report, Idle
  <2>2. Promise!Break
    BY <1>2, <1>3, <2>1 DEF Promise!Break, Published
  <2>3. QED
    BY <2>2 DEF Promise!Next
<1>7. QED
  BY <1>4, <1>5, <1>6, BuildEnds

\* A killed run had not touched the tree, or spoils it; it reports no success.
LEMMA CrashRefines == IInv /\ Crash => [Promise!Next]_Promise!vars
<1> SUFFICES ASSUME IInv, Crash PROVE [Promise!Next]_Promise!vars
  OBVIOUS
<1>1. TypeOK
  BY DEF IInv
<1>2. /\ pin'.version = pin.version /\ run'.version = run.version
      /\ ReleaseIn(head)' = ReleaseIn(head)
      /\ Phase' = "idle" /\ Report' = "failed"
  BY <1>1, CrashFacts, CrashPin DEF Phase, Report, Idle
<1>3. CASE Building
  <2>1. Phase = "building"
    BY <1>3 DEF Phase, Building, Idle
  <2>2. Published' \in Releases \cup {Absent}
    <3>1. (Published \in Releases \cup {Absent})'
      BY PublishedType, PTL
    <3>2. QED
      BY <3>1
  <2>3. Promise!Break
    BY <1>2, <2>1, <2>2 DEF Promise!Break, Published
  <2>4. QED
    BY <2>3 DEF Promise!Next
<1>4. CASE ~ Building
  <2>1. Phase = "trying" /\ tree' = tree /\ rulesMd' = rulesMd
    BY <1>1, <1>4, CrashFacts DEF Phase, Building, Idle, TypeOK
  <2>2. Published' = Published
    BY <2>1 DEF Published
  <2>3. Promise!GiveUp
    BY <1>2, <2>1, <2>2 DEF Promise!GiveUp, Published
  <2>4. QED
    BY <2>3 DEF Promise!Next
<1>5. QED
  BY <1>3, <1>4

-----------------------------------------------------------------------------
(***************************************************************************)
(* The steps of the people around the generator.                           *)
(***************************************************************************)
LEMMA StartRefines ==
    ASSUME Idle, run'.version = pin.version, pc' \in {"fetch", "refresh"},
           UNCHANGED <<pin, tree, rulesMd, head>>
    PROVE  Promise!Next
<1>1. Phase = "idle" /\ Phase' = "trying" /\ Report' = "none"
  BY DEF Phase, Report, Idle
<1>2. Published' = Published /\ ReleaseIn(head)' = ReleaseIn(head)
  BY DEF Published
<1>3. Promise!Start
  BY <1>1, <1>2 DEF Promise!Start, Published
<1>4. QED
  BY <1>3 DEF Promise!Next

LEMMA BumpRefines ==
    ASSUME TypeOK, NEW v \in Releases, BumpVersion(v)
    PROVE  Promise!Next
<1>1. Phase = "idle" /\ Phase' = "idle" /\ Report' = "none" /\ pin'.version = v
  BY DEF BumpVersion, Phase, Report, Idle, TypeOK
<1>2. Published' = Published /\ ReleaseIn(head)' = ReleaseIn(head) /\ run' = run
  BY DEF BumpVersion, Published
<1>3. Promise!Ask(v)
  BY <1>1, <1>2 DEF Promise!Ask, Published
<1>4. QED
  BY <1>3 DEF Promise!Next

\* What a completed run left is a whole release: it is what gets committed.
LEMMA CommitRefines ==
    ASSUME IInv, Commit
    PROVE  Promise!Next
<1>1. TypeOK /\ DoneIsWhole
  BY DEF IInv
<1>2. /\ Phase = "idle" /\ Report = "ok" /\ Phase' = "idle" /\ Report' = "ok"
  BY DEF Commit, Completed, Phase, Report, Idle, process
<1>3. /\ run.version \in Releases /\ tree = ChartsOf(run.version) /\ rulesMd = run.version
  BY <1>1 DEF Commit, Completed, DoneIsWhole, TypeOK
<1>4. ReleaseIn(head)' = Published
  <2>1. ReleaseIn(head)' = ReleaseIn(tree)
    BY DEF Commit
  <2>2. QED
    BY <1>3, <2>1, ReleaseOfCharts DEF Published
<1>5. Published' = Published /\ pin' = pin /\ run' = run
  BY DEF Commit, Published, process
<1>6. Promise!Commit
  BY <1>2, <1>4, <1>5 DEF Promise!Commit, Published
<1>7. QED
  BY <1>6 DEF Promise!Next

\* A restored tree that is one release is the committed one: every chart has a
\* values.yaml in the commit, and gets it back.
LEMMA RestoreRefines ==
    ASSUME IInv, Restore
    PROVE  Promise!Next
<1>1. /\ Phase = "idle" /\ Report = "failed" /\ Phase' = "idle" /\ Report' = "none"
  BY DEF Restore, Phase, Report, Idle
<1>2. pin' = pin /\ run' = run /\ head' = head
  BY DEF Restore
<1>3. PICK r \in Releases : head = ChartsOf(r)
  BY DEF IInv, DiskInv
<1>4. ReleaseIn(head) = r
  BY <1>3, ReleaseOfCharts
<1>5. Umbrella \in Charts /\ "values" \in Names
  BY RegenerationAssumption DEF Names
<1>6. tree'[Umbrella]["values"] = r
  <2>1. head[Umbrella]["values"] = r /\ r # Absent
    BY <1>3, <1>5, ChartsOfFile, ReleasesAreFiles
  <2>2. QED
    BY <1>5, <2>1 DEF Restore
<1>7. ReleaseIn(tree') \in {r, Absent}
  <2>1. SUFFICES ASSUME ReleaseIn(tree') # Absent PROVE ReleaseIn(tree') = r
    OBVIOUS
  <2>2. tree' = ChartsOf(ReleaseIn(tree'))
    BY <2>1, ReleaseInType
  <2>3. ChartsOf(ReleaseIn(tree'))[Umbrella]["values"] = ReleaseIn(tree')
    BY <1>5, ChartsOfFile
  <2>4. QED
    BY <1>6, <2>2, <2>3
<1>8. Published' \in {ReleaseIn(head), Absent}
  BY <1>4, <1>7 DEF Published
<1>9. Promise!Restore
  BY <1>1, <1>2, <1>8 DEF Promise!Restore, Published
<1>10. QED
  BY <1>9 DEF Promise!Next

\* A pin that is torn is put right, or found torn again, unnoticed: the last run
\* was killed, or failed already.
LEMMA PinRefines ==
    ASSUME TypeOK, TrustInv, Idle, pin.torn, pin'.version = pin.version, run' = run,
           pc' = "idle", result' \in {result, "failed"}, UNCHANGED <<tree, rulesMd, head>>
    PROVE  UNCHANGED Promise!vars
<1>1. Phase = "idle" /\ Phase' = "idle"
  BY DEF Phase, Idle
<1>2. Report = "failed" /\ Report' = "failed"
  BY DEF Report, Idle, TrustInv
<1>3. QED
  BY <1>1, <1>2 DEF Promise!vars

LEMMA OutsideRefines == IInv /\ OutsideStep => [Promise!Next]_Promise!vars
<1> SUFFICES ASSUME IInv, OutsideStep PROVE [Promise!Next]_Promise!vars
  OBVIOUS
<1>1. TypeOK /\ TrustInv
  BY DEF IInv
<1>2. ASSUME NEW fetchOnly, NEW next \in {"fetch", "refresh"}, Idle, Load(fetchOnly, next),
             UNCHANGED disk
      PROVE  [Promise!Next]_Promise!vars
  <2>1. CASE pin.torn
    BY <1>1, <1>2, <2>1, PinRefines DEF Load, End, disk
  <2>2. CASE ~ pin.torn
    BY <1>2, <2>2, StartRefines DEF Load, Stay, Goto, disk
  <2>3. QED
    BY <2>1, <2>2
<1>3. ASSUME NEW fetchOnly \in BOOLEAN, StartRun(fetchOnly)
      PROVE  [Promise!Next]_Promise!vars
  BY <1>2, <1>3 DEF StartRun
<1>4. CASE StartRefresh
  BY <1>2, <1>4 DEF StartRefresh
<1>5. CASE RepairPin
  BY <1>1, <1>5, PinRefines DEF RepairPin, TypeOK, process, Idle
<1>6. QED
  BY <1>1, <1>3, <1>4, <1>5, BumpRefines, CommitRefines, RestoreRefines DEF OutsideStep

-----------------------------------------------------------------------------
LEMMA NextRefines == IInv /\ [Next]_vars => [Promise!Next]_Promise!vars
<1> SUFFICES ASSUME IInv, [Next]_vars PROVE [Promise!Next]_Promise!vars
  OBVIOUS
<1>1. CASE UNCHANGED vars
  <2>1. /\ pin' = pin /\ rulesMd' = rulesMd /\ tree' = tree /\ head' = head
        /\ pc' = pc /\ result' = result /\ run' = run
    BY <1>1 DEF vars, disk, process
  <2>2. Phase' = Phase /\ Report' = Report /\ Published' = Published
        /\ ReleaseIn(head)' = ReleaseIn(head)
    BY <2>1 DEF Phase, Report, Idle, Published
  <2>3. QED
    BY <2>1, <2>2 DEF Promise!vars, Published
<1>2. QED
  BY <1>1, NextCases, FetchRefines, BuildRefines, CrashRefines, OutsideRefines

\* Every behaviour of the generator, with its failures, kills and restarts, is
\* one of Publication: cli.main never publishes part of a release as a success,
\* and a commit of a completed run commits one release.
THEOREM RegenerationPublishes == Spec => ImplementsPublication
<1>1. Init => Promise!Init
  BY InitRefines
<1>2. IInv /\ [Next]_vars => [Promise!Next]_Promise!vars
  BY NextRefines
<1>3. QED
  BY <1>1, <1>2, IInvCorrect, PTL DEF Spec, ImplementsPublication, Promise!Spec
=============================================================================
