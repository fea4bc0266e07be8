---------------------------- MODULE Regeneration ----------------------------
(***************************************************************************)
(* The generator's runs over the disk they leave behind: cli.main with the *)
(* fetch, verification and extraction of datastream.py, and the writing of *)
(* the chart directories in place by emit.generate_charts.  A run may fail *)
(* or be killed between any two steps, and the next one starts from what   *)
(* is there.                                                               *)
(*                                                                         *)
(* An artifact is what a download delivered: a release, whose checksum the *)
(* pin may hold, or something else.  A file is known by the artifact it    *)
(* was made from.  Objects' templates, and overlays, are the files a       *)
(* release may or may not have; "values" stands for the files of a chart   *)
(* that every release has.                                                 *)
(***************************************************************************)
EXTENDS Naturals, Sequences

CONSTANTS
    Releases,     \* content versions
    Unexpected,   \* an artifact that is no release
    Absent,       \* no file
    Torn,         \* a file whose writer was killed
    Datastreams,  \* pin["datastreams"]
    Holds,        \* the datastreams inside an artifact
    ChartOrder,   \* the charts, in the order generate_charts writes them
    Umbrella,     \* the one of them that keeps its templates
    Templates, Overlays,
    TemplatesOf, OverlaysOf,  \* artifact and chart -> the files it has
    Malformed,    \* artifacts the parser or the applicability map rejects
    Rejected,     \* artifact -> templates whose group object_template rejects
    Initial,      \* the release in the repository at first
    MaxBumps, MaxCrashes  \* bounds

Artifacts == Releases \cup {Unexpected}
Charts == {ChartOrder[i] : i \in DOMAIN ChartOrder}
Names  == Templates \cup Overlays \cup {"values"}

ASSUME RegenerationAssumption ==
    /\ Unexpected \notin Releases
    /\ {Absent, Torn} \cap Artifacts = {}
    /\ Absent # Torn
    /\ Datastreams # {}
    /\ "values" \notin Templates \cup Overlays
    /\ Templates \cap Overlays = {}
    /\ Holds \in [Artifacts -> SUBSET Datastreams]
    /\ ChartOrder \in Seq(Charts)
    /\ \A i, j \in DOMAIN ChartOrder : ChartOrder[i] = ChartOrder[j] => i = j
    /\ ChartOrder # <<>> /\ Umbrella \in Charts
    /\ TemplatesOf \in [Artifacts -> [Charts -> SUBSET Templates]]
    /\ OverlaysOf \in [Artifacts -> [Charts -> SUBSET Overlays]]
    /\ \A a \in Artifacts : TemplatesOf[a][Umbrella] = {}
    /\ Malformed \subseteq Artifacts
    /\ Rejected \in [Artifacts -> SUBSET Templates]
    /\ Initial \in Releases
    /\ MaxBumps \in Nat /\ MaxCrashes \in Nat

VARIABLES
    pin,       \* config/content.yaml: version and sha512, and whether a kill emptied it
    cache,     \* .cache/scap-security-guide-<version>.tar.gz
    xml,       \* .cache/ssg-*-ds.xml
    tree,      \* charts/
    rulesMd,   \* RULES.md
    head,      \* charts/ as committed
    pc, result,
    run,       \* the pin the run loaded, its --fetch-only, what it parsed
    chart,     \* index in ChartOrder
    todo,      \* the files of the current phase still to write
    bumps, crashes

disk    == <<pin, cache, xml, tree, rulesMd, head>>
process == <<pc, result, run, chart, todo>>
bounds  == <<bumps, crashes>>
vars == <<disk, process, bounds>>

-----------------------------------------------------------------------------
\* The charts of an artifact, and nothing else.
ChartsOf(a) ==
    [c \in Charts |-> [n \in Names |->
        IF n \in TemplatesOf[a][c] \cup OverlaysOf[a][c] \cup {"values"} THEN a ELSE Absent]]

Idle == pc = "idle"

NoRun == [version |-> Initial, sha |-> Initial, fetchOnly |-> FALSE, parsed |-> Absent]

Init ==
    /\ pin = [version |-> Initial, sha |-> Initial, torn |-> FALSE]
    /\ cache = [v \in Releases |-> Absent]
    /\ xml = [d \in Datastreams |-> Absent]
    /\ tree = ChartsOf(Initial)
    /\ rulesMd = Initial
    /\ head = ChartsOf(Initial)
    /\ pc = "idle"
    /\ result = "none"
    /\ run = NoRun
    /\ chart = 1
    /\ todo = {}
    /\ bumps = 0
    /\ crashes = 0

Goto(where) == pc' = where /\ UNCHANGED result

Stay(where) == Goto(where) /\ UNCHANGED <<chart, todo>>

\* The process exits: nothing but the disk survives it.
End(how) == pc' = "idle" /\ result' = how /\ chart' = 1 /\ todo' = {}

-----------------------------------------------------------------------------
(***************************************************************************)
(* Fetching.                                                               *)
(***************************************************************************)
\* load_config raises on a pin that a killed refresh left empty.
Load(fetchOnly, next) ==
    IF pin.torn
    THEN End("failed") /\ UNCHANGED run
    ELSE /\ run' = [version |-> pin.version, sha |-> pin.sha,
                    fetchOnly |-> fetchOnly, parsed |-> Absent]
         /\ Stay(next)

\* make generate, make fetch: main() up to the download.
StartRun(fetchOnly) ==
    /\ Idle
    /\ Load(fetchOnly, "fetch")
    /\ UNCHANGED <<disk, bounds>>

\* make update-sha.
StartRefresh ==
    /\ Idle
    /\ Load(FALSE, "refresh")
    /\ UNCHANGED <<disk, bounds>>

\* refresh_sha512, for the version the run loaded: a checksum that is already
\* current is not written again.
FetchSha ==
    /\ pc = "refresh"
    /\ \/ End("failed")
       \/ pin.sha = run.version /\ End("refreshed")
       \/ pin.sha # run.version /\ Stay("writesha")
    /\ UNCHANGED <<disk, run, bounds>>

\* config_path.write_text, in place.
WriteSha ==
    /\ pc = "writesha"
    /\ pin' = [pin EXCEPT !.sha = run.version]
    /\ End("refreshed")
    /\ UNCHANGED <<cache, xml, tree, rulesMd, head, run, bounds>>

UseCached ==
    /\ pc = "fetch"
    /\ cache[run.version] # Absent
    /\ Stay("verify")
    /\ UNCHANGED <<disk, run, bounds>>

\* The .part file is renamed once it is complete.
Download(a) ==
    /\ pc = "fetch"
    /\ cache[run.version] = Absent
    /\ cache' = [cache EXCEPT ![run.version] = a]
    /\ Stay("verify")
    /\ UNCHANGED <<pin, xml, tree, rulesMd, head, run, bounds>>

\* Fault: the download is written under its final name.
TornInCache == [cache EXCEPT ![run.version] = IF pc = "fetch" /\ @ = Absent THEN Torn ELSE @]

\* What a download that does not complete leaves for a later run.
LeftInCache == cache

DownloadFails ==
    /\ pc = "fetch"
    /\ cache[run.version] = Absent
    /\ cache' = LeftInCache
    /\ End("failed")
    /\ UNCHANGED <<pin, xml, tree, rulesMd, head, run, bounds>>

\* Fault: a pin without a checksum, or with another, is only reported.
AnyArtifact == TRUE

ShaMatches == cache[run.version] = run.sha

\* `expected in ("", "verify-on-first-run")` is a checksum no artifact has.
VerifySha ==
    /\ pc = "verify"
    /\ IF ShaMatches
       THEN Goto("extract") /\ todo' = Datastreams /\ UNCHANGED chart
       ELSE End("untrusted")
    /\ UNCHANGED <<disk, run, bounds>>

Extractable == Holds[cache[run.version]] \cap todo

\* target.open("wb"): whatever an earlier run extracted is overwritten.
Extracted(d) == cache[run.version]

ExtractDatastream(d) ==
    /\ pc = "extract"
    /\ d \in Extractable
    /\ xml' = [xml EXCEPT ![d] = Extracted(d)]
    /\ todo' = todo \ {d}
    /\ Goto("extract")
    /\ UNCHANGED <<pin, cache, tree, rulesMd, head, run, chart, bounds>>

\* "datastreams not found in tarball", --fetch-only, or on to the parser.
ExtractEnd ==
    /\ pc = "extract"
    /\ Extractable = {}
    /\ IF todo # {} THEN End("failed")
       ELSE IF run.fetchOnly THEN End("fetched")
       ELSE Stay("parse")
    /\ UNCHANGED <<disk, run, bounds>>

-----------------------------------------------------------------------------
(***************************************************************************)
(* Building the charts in place.                                           *)
(***************************************************************************)
\* Both datastreams, the conflicts and the applicability; the errors of these
\* leave the charts alone.
Parse ==
    /\ pc = "parse"
    /\ IF \E a \in Artifacts \ Malformed : \A d \in Datastreams : xml[d] = a
       THEN /\ run' = [run EXCEPT !.parsed = CHOOSE a \in Artifacts : \A d \in Datastreams : xml[d] = a]
            /\ Stay("clean")
       ELSE End("failed") /\ UNCHANGED run
    /\ UNCHANGED <<disk, bounds>>

Current == ChartOrder[chart]

SetFile(n, content) == tree' = [tree EXCEPT ![Current][n] = content]

\* shutil.rmtree(templates), in the charts of the two layers.
EmptyTemplates == IF Current = Umbrella THEN tree[Current]
                  ELSE [n \in Names |-> IF n \in Templates THEN Absent ELSE tree[Current][n]]

CleanTemplates ==
    /\ pc = "clean"
    /\ tree' = [tree EXCEPT ![Current] = EmptyTemplates]
    /\ todo' = {"values"}
    /\ Goto("values")
    /\ UNCHANGED <<pin, cache, xml, rulesMd, head, run, chart, bounds>>

WriteValues ==
    /\ pc = "values"
    /\ SetFile("values", run.parsed)
    /\ todo' = Overlays
    /\ Goto("overlays")
    /\ UNCHANGED <<pin, cache, xml, rulesMd, head, run, chart, bounds>>

\* Fault: an overlay the content no longer has stays.
KeepOverlay(n) == IF n \in OverlaysOf[run.parsed][Current] THEN run.parsed ELSE tree[Current][n]

\* Written when the content excludes something there, unlinked otherwise.
OverlayContent(n) == IF n \in OverlaysOf[run.parsed][Current] THEN run.parsed ELSE Absent

WriteOverlay(n) ==
    /\ pc = "overlays"
    /\ n \in todo
    /\ SetFile(n, OverlayContent(n))
    /\ todo' = todo \ {n}
    /\ Goto("overlays")
    /\ UNCHANGED <<pin, cache, xml, rulesMd, head, run, chart, bounds>>

OverlaysDone ==
    /\ pc = "overlays"
    /\ todo = {}
    /\ todo' = TemplatesOf[run.parsed][Current]
    /\ Goto("templates")
    /\ UNCHANGED <<disk, run, chart, bounds>>

WriteTemplate(n) ==
    /\ pc = "templates"
    /\ n \in todo
    /\ IF n \in Rejected[run.parsed]
       THEN End("partial") /\ UNCHANGED tree
       ELSE SetFile(n, run.parsed) /\ todo' = todo \ {n} /\ Goto("templates") /\ UNCHANGED chart
    /\ UNCHANGED <<pin, cache, xml, rulesMd, head, run, bounds>>

ChartDone ==
    /\ pc = "templates"
    /\ todo = {}
    /\ IF chart < Len(ChartOrder)
       THEN chart' = chart + 1 /\ Goto("clean") /\ UNCHANGED todo
       ELSE Stay("rules")
    /\ UNCHANGED <<disk, run, bounds>>

WriteRules ==
    /\ pc = "rules"
    /\ rulesMd' = run.parsed
    /\ End("done")
    /\ UNCHANGED <<pin, cache, xml, tree, head, run, bounds>>

-----------------------------------------------------------------------------
(***************************************************************************)
(* What happens around the generator.                                      *)
(***************************************************************************)
\* The run is killed, possibly in the middle of a file it is writing.  The pin
\* is smaller than the buffer it is written through: it is empty, or whole.
Crash ==
    /\ ~ Idle
    /\ crashes < MaxCrashes
    /\ crashes' = crashes + 1
    /\ End("killed")
    /\ cache' = LeftInCache
    /\ \/ UNCHANGED <<pin, xml, tree, rulesMd>>
       \/ /\ pc = "writesha"
          /\ pin' = [pin EXCEPT !.torn = TRUE]
          /\ UNCHANGED <<xml, tree, rulesMd>>
       \/ /\ pc = "extract"
          /\ \E d \in Extractable : xml' = [xml EXCEPT ![d] = Torn]
          /\ UNCHANGED <<pin, tree, rulesMd>>
       \/ /\ pc = "clean"
          /\ \E gone \in SUBSET Templates :
                tree' = [tree EXCEPT ![Current] =
                            [n \in Names |-> IF n \in gone THEN EmptyTemplates[n] ELSE tree[Current][n]]]
          /\ UNCHANGED <<pin, xml, rulesMd>>
       \/ /\ pc \in {"values", "overlays", "templates"}
          /\ \E n \in todo : SetFile(n, Torn)
          /\ UNCHANGED <<pin, xml, rulesMd>>
       \/ /\ pc = "rules"
          /\ rulesMd' = Torn
          /\ UNCHANGED <<pin, xml, tree>>
    /\ UNCHANGED <<head, run, bumps>>

\* Renovate, or a hand, bumps the version; the checksum stays behind.
BumpVersion(v) ==
    /\ Idle
    /\ ~ pin.torn
    /\ bumps < MaxBumps
    /\ v # pin.version
    /\ pin' = [pin EXCEPT !.version = v]
    /\ bumps' = bumps + 1
    /\ result' = "none"
    /\ UNCHANGED <<cache, xml, tree, rulesMd, head, pc, run, chart, todo, crashes>>

\* The pin's committed text is put back by hand; the code has no such step.
RepairPin ==
    /\ Idle
    /\ pin.torn
    /\ pin' = [pin EXCEPT !.torn = FALSE]
    /\ UNCHANGED <<cache, xml, tree, rulesMd, head, process, bounds>>

\* Fault: the change is merged although the run has not completed.
AnyEnding == TRUE

Completed == result = "done"

\* The change of a completed run is merged.
Commit ==
    /\ Idle
    /\ Completed
    /\ head # tree
    /\ head' = tree
    /\ UNCHANGED <<pin, cache, xml, tree, rulesMd, process, bounds>>

\* git checkout -- charts, as main() advises: of the files in the commit, each
\* gets its committed content back; git leaves untracked files alone.
Restore ==
    /\ Idle
    /\ result = "partial"
    /\ tree' = [c \in Charts |-> [n \in Names |->
                    IF head[c][n] # Absent THEN head[c][n] ELSE tree[c][n]]]
    /\ result' = "restored"
    /\ UNCHANGED <<pin, cache, xml, rulesMd, head, pc, run, chart, todo, bounds>>

\* The steps that wait for an answer from the network, without a timeout.
NetworkStep ==
    \/ FetchSha
    \/ \E a \in {run.version, Unexpected} : Download(a)
    \/ DownloadFails

LocalStep ==
    \/ WriteSha
    \/ UseCached
    \/ VerifySha
    \/ \E d \in Datastreams : ExtractDatastream(d)
    \/ ExtractEnd
    \/ Parse
    \/ CleanTemplates
    \/ WriteValues
    \/ \E n \in Overlays : WriteOverlay(n)
    \/ OverlaysDone
    \/ \E n \in Templates : WriteTemplate(n)
    \/ ChartDone
    \/ WriteRules

Next ==
    \/ NetworkStep
    \/ LocalStep
    \/ \E fetchOnly \in BOOLEAN : StartRun(fetchOnly)
    \/ StartRefresh
    \/ Crash
    \/ \E v \in Releases : BumpVersion(v)
    \/ RepairPin
    \/ Commit
    \/ Restore

Spec == Init /\ [][Next]_vars

\* A started process goes on; whether one is ever started again, or the network
\* ever answers, is left open.
FairSpec == Spec /\ WF_vars(LocalStep)

-----------------------------------------------------------------------------
(***************************************************************************)
(* Properties.                                                             *)
(***************************************************************************)
FileContents == Artifacts \cup {Absent, Torn}

\* The disk and the run have the shape the generator gives them.
TypeOK ==
    /\ pin \in [version : Releases, sha : Releases, torn : BOOLEAN]
    /\ cache \in [Releases -> Artifacts \cup {Absent}]
    /\ xml \in [Datastreams -> FileContents]
    /\ tree \in [Charts -> [Names -> FileContents]]
    /\ rulesMd \in FileContents
    /\ head \in [Charts -> [Names -> FileContents]]
    /\ pc \in {"idle", "refresh", "writesha", "fetch", "verify", "extract", "parse", "clean",
               "values", "overlays", "templates", "rules"}
    /\ result \in {"none", "refreshed", "untrusted", "failed", "fetched", "partial",
                   "done", "killed", "restored"}
    /\ run \in [version : Releases, sha : Releases, fetchOnly : BOOLEAN,
                parsed : Artifacts \cup {Absent}]
    /\ chart \in DOMAIN ChartOrder
    /\ todo \in SUBSET (Datastreams \cup Names)
    /\ bumps \in 0..MaxBumps
    /\ crashes \in 0..MaxCrashes

\* A run that ends well leaves exactly the charts and the RULES.md of the
\* release it was pinned to, whatever earlier runs, failed or killed, have
\* left behind: no object's template, no overlay of another release.
DoneIsWhole ==
    Idle /\ result = "done" => tree = ChartsOf(run.version) /\ rulesMd = run.version

\* README 658: an unexpected artifact fails the build rather than reaching a
\* chart; nor does a datastream torn by a killed run.
OnlyPinnedContent ==
    /\ \A c \in Charts, n \in Names : tree[c][n] # Unexpected
    /\ rulesMd # Unexpected
    /\ ~ Idle /\ run.parsed # Absent => run.parsed = run.sha /\ run.sha = run.version

\* The release has every datastream, and neither the parser nor object_template
\* rejects it.
Buildable(r) ==
    /\ r \notin Malformed
    /\ Holds[r] = Datastreams
    /\ \A c \in Charts : TemplatesOf[r][c] \cap Rejected[r] = {}

\* A run of make generate that has a tarball, of a release that can be built and
\* whose checksum is current, completes unless it is killed: nothing that earlier
\* failed or killed runs left in .cache/ or charts/ stops it.  The tarball may be
\* one that an earlier run left, but not an unexpected artifact: the cache keeps
\* that for ever.
RunCompletes ==
    /\ pc = "verify" /\ ~ run.fetchOnly
    /\ run.sha = run.version /\ Buildable(run.version)
    /\ cache[run.version] # Unexpected
    ~> Idle /\ result \in {"done", "killed"}

-----------------------------------------------------------------------------
(***************************************************************************)
(* The inductive invariant behind the properties.                          *)
(***************************************************************************)
Building == pc \in {"clean", "values", "overlays", "templates", "rules"}

\* A tarball of a version is that version's, or unexpected; a run that got past
\* the verification has the former; what it extracted, and what it builds from,
\* are of the release it was started for.  A torn pin is seen by no run.
TrustInv ==
    /\ \A v \in Releases : cache[v] \in {v, Unexpected, Absent}
    /\ pc \in {"extract", "parse"} => cache[run.version] = run.version
    /\ pc \in {"extract", "parse"} \/ Building => run.sha = run.version
    /\ pin.torn => Idle /\ result \in {"killed", "failed"}
    /\ pc = "extract" =>
           todo \subseteq Datastreams /\ \A d \in Datastreams \ todo : xml[d] = run.version
    /\ pc = "parse" => \A d \in Datastreams : xml[d] = run.version
    /\ Building => run.parsed = run.version
    /\ ~ Idle /\ ~ Building => run.parsed = Absent

\* The files of the current chart the run has yet to put right.
Pending ==
    IF pc = "clean" THEN Names
    ELSE IF pc = "values" THEN Overlays \cup {"values"} \cup TemplatesOf[run.parsed][Current]
    ELSE IF pc = "overlays" THEN todo \cup TemplatesOf[run.parsed][Current]
    ELSE IF pc = "templates" THEN todo ELSE {}

\* Everything before is as the release has it, whatever the tree held.
BuildInv ==
    /\ ~ Building => chart = 1
    /\ Building =>
        /\ \A i \in DOMAIN ChartOrder : i < chart =>
               tree[ChartOrder[i]] = ChartsOf(run.parsed)[ChartOrder[i]]
        /\ \A n \in Names \ Pending : tree[Current][n] = ChartsOf(run.parsed)[Current][n]
        /\ pc = "values" => todo = {"values"}
        /\ pc = "overlays" => todo \subseteq Overlays
        /\ pc = "templates" => todo \subseteq TemplatesOf[run.parsed][Current]
        /\ pc = "rules" => chart = Len(ChartOrder)

\* The umbrella's templates are never removed because there are none.
UmbrellaInv == \A n \in Templates : tree[Umbrella][n] = Absent

\* The commit is one release, and nothing on disk is of an unexpected artifact.
DiskInv ==
    /\ \E r \in Releases : head = ChartsOf(r)
    /\ \A c \in Charts, n \in Names : tree[c][n] # Unexpected
    /\ rulesMd # Unexpected

IInv == TypeOK /\ TrustInv /\ BuildInv /\ UmbrellaInv /\ DiskInv /\ DoneIsWhole

-----------------------------------------------------------------------------
(***************************************************************************)
(* The generator keeps the promise of Publication.  A tree is a release    *)
(* when every chart and RULES.md are that release's, file by file.         *)
(***************************************************************************)
ReleaseIn(charts) == IF \E r \in Releases : charts = ChartsOf(r)
                     THEN CHOOSE r \in Releases : charts = ChartsOf(r) ELSE Absent

Phase == IF Idle THEN "idle"
         ELSE IF pc \in {"refresh", "writesha", "fetch", "verify", "extract", "parse"} THEN "trying"
         ELSE "building"

Report == IF ~ Idle \/ result \in {"none", "refreshed", "fetched", "restored"} THEN "none"
          ELSE IF result = "done" THEN "ok" ELSE "failed"

Promise == INSTANCE Publication WITH
    NoRelease <- Absent,
    wanted    <- pin.version,
    published <- IF rulesMd = ReleaseIn(tree) THEN ReleaseIn(tree) ELSE Absent,
    committed <- ReleaseIn(head),
    phase     <- Phase,
    target    <- run.version,
    report    <- Report

\* Every step of the generator, of a crash and of the people around it is a
\* step of Publication or invisible there: a failed or killed run never touches
\* the published release before it has verified and read the new one, and never
\* passes for a success; what is committed was published whole.
ImplementsPublication == Promise!Spec

-----------------------------------------------------------------------------
(***************************************************************************)
(* What the repository says of a run and the code does not do.             *)
(***************************************************************************)
\* cli.py 89-90: the charts are partially written, "Restore it with: git
\* checkout -- charts", after which they are what is committed.
RestoreRestores == Idle /\ result = "restored" => tree = head
=============================================================================
