# Formal models of openshift-compliance-remediations

The generator in `src/compliance_remediations_helm` downloads a pinned release
of the upstream SCAP datastreams, reads the Kubernetes fixes in it, and writes
three Helm charts (`compliance-platform`, `compliance-node` and the umbrella
`compliance-hardening`) and `RULES.md`. Helm renders the charts with the user's
values. The generator decides what a render may contain, the Go templates it
writes decide what a given render does contain, and most of what can go wrong
lies between the two: the templates run months later, with values nobody tested.
`scripts/validate_payloads.py` is what stands between the two in CI.

The modules below model all three. Paths are relative to the repository root;
`emit.py`, `collisions.py`, ... stand for the files in
`src/compliance_remediations_helm/`.

## Inventory

| Component | State | Operations | Interacts with | What makes it correct |
| --- | --- | --- | --- | --- |
| Conflict detection (`collisions.py`) | merge groups, `leaf_by_rule` | `build_groups`, `_leaf_paths`, `_detect_conflicts`, `mergeable_shape` | feeds the object templates, the shipped values and `RULES.md` | rules that may overwrite one another are known before a render |
| Object template (`object_template`) | one template; in a render `$merged`, `$fileAcc` | gate, conflict guards, fragment loop, file accumulation, role loop | uses the conflicts and the role restrictions | a rendered object has lost no active fix, invents nothing, and is for the right roles |
| Selection and preflight (`values_yaml`, overlays, helpers, `preflight_template`, `tailored_profile_template`, `profile_coverage`) | `values.yaml`, overlays, `.Values` | which rule is active; four refusals | applicability, conflicts, dependencies, Compliance Operator | what ships renders safely; what renders may stand together; scan and documentation agree with it |
| Fetching (`datastream.py`) | pin, `.cache/` | load, download, verify, extract, refresh the checksum | upstream releases, Renovate, later runs | only the pinned release reaches a chart; a failed run does not spoil a later one |
| Chart writing (`cli.py`, `generate_charts`) | `charts/`, `RULES.md` | remove, write, unlink, in place | the working tree and git | a run that ends well leaves exactly one release, and nothing else passes for one |
| Applicability (`applicability.py`, `_parse_logical_test`) | allowed values per axis, roles | `_evaluate`, `reduce`, `_roles_for`, `build_map` | preflight, role loop, overlays | a rule reaches the clusters and roles upstream means, or is refused at generation |
| Hosted outputs (`*OutputPreflight`, `nodepool_configmap_template`, `hostedcluster_template`, `hosted_coverage`) | `node.output`, `platform.output`; what is applied where | render, wrap, refuse, announce | two clusters, a user in between | each render goes to one cluster, and all of them apply every rule once |
| XCCDF parser (`parser.py`) | the stack of groups while it walks | reads groups, rules, values, profiles, fixes | everything | a rule keeps every platform around it and every way to refer to a variable |
| Variables (`resolver.py`, `_variables_block`, `_profile_variables`, `values_schema`, `cr.enc`, `setValues`) | `variables`, the schema, `profileVariables`, `ruleDependencies`; the user's overrides | resolve, write, override, render | fragments, TailoredProfiles, Helm's schema check | the scan compares with what was written; no accepted value breaks a field |
| Classification (`classify.py`) | a table | kinds to layers, rules to object names | conflict detection | its effect only |
| Schema, `RULES.md`, chart READMEs | none | text | users | the parts that decide something: accepted values, placement, coverage |
| Payload validation (`scripts/validate_payloads.py`) | `Findings`: errors, skipped, counters; `_seen`; `done` per mode | four modes of renders, checks, floors | the generated charts, external parsers | a pass means that nothing it renders is wrong, and that it rendered something |
| CI, Renovate, Makefile | the pin | bump, refresh, regenerate, commit | fetching, chart writing | as environment of `Regeneration` |

The generator is one sequential process and a Helm render is another. What is
hard here is not threads, but order and persistence: the order of fragments and
of values files; a run killed or refused between two writes, and the next run
over its remains; the same question answered by two pieces of code (which rules
ship disabled, what is scanned, which variables a scan needs, where a rule ends
up on a hosted cluster); one hardening rendered in parts for two clusters; and a
test script that shares counters and a memory of what it has seen between modes.
`PROJECT.json` lists the hazards with their lines and the properties aimed at
them.

## Modules

### ObjectTemplate

One target object from `build_groups` to any number of renders.

A fix document is its rule, the versions its semver gate admits, and a body: a
function from leaf paths to contents. The entries of `storage.files`
(`IDENTIFIED_LISTS`) are the paths in `Files`; `_UNION_SUBTREES` are the paths
in `UnionPaths`. `dict.update`, and `mustMergeOverwrite` on scalars, are
`Overwrite`; that `mustMergeOverwrite` replaces lists is `MergeOverwrite`.

| Code | Model |
| --- | --- |
| `leaf_by_rule.setdefault(...).update(...)` | `FlattenDoc` |
| `_detect_conflicts`, the two `ValueError`s of `object_template` | `EmitTemplate` |
| gate, conflict guards | `StartRender` |
| one round of the fragment loop | `SkipFragment`, `RefuseInvalidYaml`, `RefuseFile`, `MergeFragment` |
| `$files` written back, empty object refused, role loop | `RefuseEmpty`, `EmitObject` |

A body that a variable's value makes unparseable is a rule in `values.broken`.
The gate of a node object contains `node.enabled`; a platform object is the
instance where that is true and `Roles` has one member. What is left out is the
YAML itself, labels, and the pool selector of a KubeletConfig.

### RuleSelection

One layer's chart: `Generate` computes what values.yaml switches off, the
overlays and the cross-object guards; `StartRender` and `LoadFile` are Helm
merging values files in the order of `-f`; then the preflight refuses or passes
(`ApplicabilityPreflight`, `DependencyPreflight`, `BrokenPreflight`,
`FilePreflight`, `ObjectGuards`) and `Emit` applies the active rules and renders
the TailoredProfiles. Helm's own order of templates is not fixed by the charts,
so the conflict guards of the objects may fire at any stage of the preflight.
A release (`content`) is what the parser and `build_groups` found: selections,
alternatives, files, dependencies, constraints, and the fragments of the
objects: rule, object and the versions of the semver gate.

The objects of the node chart stand behind `node.enabled` (`ObjectsOn`), which
is false by default; the preflight and the TailoredProfiles do not ask for it.
`Merged` is what the fragment loops of all objects merge at a version, and
`EmptyObject` the refusal of an object with an active rule and nothing merged.
`Emit` applies the rules of the merged fragments. So `ScanFollowsSelection` says
that whatever the chart applies for an enabled profile is scanned, and names the
two cases in which the scan goes further than the chart: the objects are off, or
no variant of the rule's fix is for the version. What an object then holds, and
`node.roles`, are the subject of `ObjectTemplate`.

`Remediated`, `Alternatives` and `OpenRules` are `profile_coverage`: RULES.md
works out on its own, from categories, what a profile leaves open.
`CoverageAgrees` holds that against what the chart does with the profile, in
terms of the render alone: a rule the profile selects is active, or counted as
open, or can apply to no cluster, or an active rule stands in for it
(`StandsIn`: the two are alternatives, or write a path differently). RULES.md
conceals no gap; it may report one that is none (see Findings).

### Applicability

One rule, from the datastream to its constraint. `EnterGroup`, `ReadRule` and
`FromGroup` are the parser's walk: a rule gets its own platforms and those of
every group around it, each once (`FirstOccurrences`). Then `build_map`:
`Kept` is what `_parse_logical_test` keeps of a test, `Evaluate` is `_evaluate`,
`Reduce` is `reduce` with its three outcomes, `ReadRoles` and `SetRoles` are the
role sets. `Meaning` and `AppliesTo` are the reference: what the expressions mean
as upstream writes them, on a cluster and a node role, with nothing dropped.

The recursion over an expression is a recursive function per question:
`Holding` (where a node holds; `_evaluate`), `Occurrences` (which node is at
which position; `_referenced` and `_has_negation` read it), `Meaning`. The
constants `Leaves` and `Tests` are the nodes, and `Height` says that a tree is
finite; no bound is put on it.

### Regeneration

`cli.main` over the disk. The state is the pin, the tarball cache, the extracted
datastreams, `charts/`, `RULES.md` and the commit. A file is known by the
artifact it was made from. `Download`, `VerifySha`, `ExtractDatastream`,
`Parse`, `CleanTemplates`, `WriteValues`, `WriteOverlay`, `WriteTemplate`,
`WriteRules` are the steps in their order, one file at a time; `Crash` kills the
process between any two of them or in the middle of a write or of the removal
of `templates/`. `refresh_sha512` is two steps, `FetchSha` and `WriteSha`; a kill
in the second leaves a torn pin, on which `Load` fails for every later run until
someone puts the text back (`RepairPin`; no code does). `DownloadFails`, an
unexpected artifact, a malformed release, a missing datastream and a group that
`object_template` rejects are the failures.
`BumpVersion`, `Commit` and `Restore` (the `git checkout -- charts` that `main`
advises) surround it. The model has one process: nothing in the Makefile or the
workflows starts two.

### Publication

What the generator promises a maintainer, without files: the tree holds one
release or none; a run that has not begun to build leaves it alone, one that has
may spoil it and then does not report success; success means the release wanted
at the start, in one piece; only that is ever committed. `Regeneration`
implements it (`ImplementsPublication`) under this mapping:

| Publication | Regeneration |
| --- | --- |
| `wanted`, `target` | `pin.version`, the version the run has loaded |
| `published` | the release that both the tree (`ReleaseIn`) and RULES.md hold, else none |
| `committed` | the release in `head` |
| `phase` | `Phase`: "trying" until the content is parsed, then "building" |
| `report` | `Report`: "ok" is `result = "done"`; a kill counts as failed |

### HardenedObject

What a user may expect of one target object: a render leaves it out, refuses for
a reason in the fixes and the values, or renders at once all the selected fixes
write, and nothing else. It has no fragment order, no accumulator, no conflict
table and no memory. `ObjectTemplate` implements it (`ImplementsHardening`) with
`status <- Status` and the merged body as `object` once the render is complete.

### HostedOutput

A user hardens one cluster with a fixed selection, renders either chart or the
umbrella with any values, and applies or discards what comes out. `Schema`,
`ApplicabilityPreflight` and `OutputPreflights` are the refusals; `Emit` writes
the objects: direct, wrapped in one of the two NodePool ConfigMaps, or as fields
of the HostedCluster patch. `HostedPlacement` is what `RULES.md` says of a rule,
`Notices` are the comments in the platform output. `ReadOn` states which
cluster has something that reads an object.

### ChartValues

The variables, from the XCCDF values of two products to the fields one
installation writes and the values its TailoredProfiles scan for.

| Code | Model |
| --- | --- |
| `resolve_defaults`, `_variables_block` | `ResolveDefaults`, one product at a time over those before |
| `values.yaml`, `values_schema`, the CLI's report | `WriteValues` |
| profiles enabled in one of the charts | `Install` |
| an overlay, `--set`, `null` | `Override`, `Delete` |
| Helm's schema check | `Refuse`, `Valid` |
| fragments, `cr.enc`, `setValues` | `Render`, `Field`, `RenderedSetValues` |

A text is a member of a class: digits, digits with a `%`, plain words, words
with a space, tokens YAML retypes, texts with a `#`, a quote or a backslash, and
texts that begin with a YAML indicator, which are nothing but an anchor or a tag
(`&x`, `!!null`) or a flow collection (`[a]`). A reference stands bare in a YAML
scalar, in quotes, or encoded in a payload; the class and the form decide what
the field then holds. The schema's pattern and enum accept the indicators, so a
bare field may become null or a collection (`LetThrough`, also the fields of a
deleted variable); the properties are about all other fields, and the run
`retyped_field` about these. `tailoredProfile` is enabled, as the scan is what
the properties are about.

### Validation

One run of `validate_payloads.py`. A release is what Helm makes of the charts:
for every render the script asks for, a refusal or documents. `Jobs` lists the
work of the four modes in order; each job action (`RenderProfile`, `PayloadsAt`,
`NodepoolProfile`, `NodepoolAt`, `HostedProfile`, `SizeRefused`, `ArchRender`,
`CompareArchs`, `SchemaTypo`) computes its results with its early exits, and
`Report` adds them to errors, skipped checks, counters and the digests seen
(`first_time`). `BeginMode` and `EndMode` take the difference of the counters,
`Verdict` holds them against `FLOORS` and `REQUIRE_TOOLS`. What sshd, auditctl
and the other parsers reject is the constant `Rejects`; which are installed is
part of `machine`. An
output is `[refused, blank, docs]`: why Helm refused, if it did, whether an
empty document is in it, and the others. A document has the files of
`storage.files` and the systemd units and drop-ins; the checks of one payload see
both (`FilesOf`, `iter_files`), the comparison of objects only the former
(`WrittenDifferently`, `check_cross_object_files`). `Wrong` is the reference for
`NoFaultPasses`: what is wrong with the outputs of a job, with every loop, early
exit and memory taken out; that a role's objects write a file differently is
`Contested` there, stated without the script's pass over paths. It asks of each
job only what that job's mode is there to check (`arch` does not look at labels,
`payloads` not at bodies).

## Runs

| Run | Instance and bounds | Shows |
| --- | --- | --- |
| `object_template` | 2 rules, 2 roles, 2 versions, 4 paths (a plain leaf, a union leaf, two files), 2 contents, 7 bodies, up to 3 documents, 2 choices of role restrictions, every selection at every version | nothing lost, nothing invented, one rule per union, exact roles, file refusals justified; implements `HardenedObject` |
| `rule_selection` | 3 rules, 2 profiles, 2 architectures and an alias, 2 versions, 15 releases each with another feature (variants for one version, the node chart on and off among them), all overrides of 3 rules, 6 orders of values files | shipped values are safe, a render is sound, overlays suffice, scan and coverage follow what is applied |
| `regeneration` | 5 releases (good, one with other files, rejected half way, lacking a datastream, malformed) and an unexpected artifact; 2 bumps, 1 kill | a run that ends well leaves one release; only pinned content; a started run completes over any remains; implements `Publication` |
| `applicability` | 3 architectures, 2 kinds of cluster, one fact of each kind, tests of up to 2 leaves, alone, nested or in pairs, the pairs also split between a group and the rule | reduction exact or refused |
| `hosted_output` | 7 rules, one per kind of target; all values of both charts; 7 selections | one cluster per render, placement, notices, completeness |
| `chart_values` | 2 products, 8 pairs of contents, one text of each class (two numbers; an anchor and a flow collection among them), every selection of profiles in either chart, up to 2 overrides | scan and object agree, no accepted value breaks a field, upstream's options are accepted, dependencies are accounted for |
| `validation` | 2 profiles per chart, 2 versions, 2 architectures; a faultless release, one for every fault of one render, one for every collapse, one with a file and one with a unit that two objects write differently; 4 sets of tools; every argument | a pass means no fault, a collapse is noticed, each mode answers for its own work |
| `active_rule`, `scan`, `restore`, `umbrella`, `retyped_field` | as the passing run of the module | see Findings |

Why the bounds are enough. Two rules and three documents are the least for a
rule with two version variants next to another rule, which is where variants,
conflicts and the file accumulation meet; a fourth document adds no new pair.
Three rules give a chain of alternatives, a chain of dependencies and a path
with three contents. One kill and two bumps give a torn file of one release
under a complete run of another and back; the second chart of `ChartOrder` is
the umbrella, which keeps its templates. Two leaves per test under a second test
give every combination of operator and negation, and an expression that couples
the axes. Two overrides change, or delete, any two variables together. In
`validation` the faults come one at a time: what hides a fault there is an early
exit, a digest or a counter, and each needs one fault and a job before it, which
two profiles and two versions give; the first profile and the first version stay
good so that what they leave behind can hide the second. `ConfigMapMax` (2
objects) stands for the limit of 1 MiB so that the refusal happens. `MaxDocs`,
`MaxBumps`, `MaxCrashes`, `MaxOverrides` and `ConfigMapMax` are the bounds; the
other constants are sets. In `rule_selection` a user gives `node.enabled` or the
cluster's facts, not both: only the last two steps read the former.

Deadlock is checked except where the code stops: a generator that raised
(`ObjectTemplate`), a finished `build_map` (`Applicability`), a script that has
exited (`Validation`), an installation rendered or refused (`ChartValues`).

Fairness is assumed in `regeneration` only, and only of a started process: weak
fairness of `LocalStep`, the steps it takes on its own (`FairSpec`). Nothing in
the repository justifies more. The workflow runs once per push, so nobody need
start a run again; `urlopen` has no timeout, so an answer may never come
(`NetworkStep`); kills, bumps, commits and repairs are free to happen or not.
`RunCompletes` therefore begins where the run has a tarball, and says that it
then completes unless it is killed, if the release can be built and its checksum
is current. It is about the remains: no torn extract, half-written chart or stale
overlay stops the run. An unexpected artifact in the cache does, for ever, and is
left out.

## Findings

* `active_rule`: an active rule without a variant for the version is an error
  only if the object would be empty; next to another rule it is left out.
* `scan`: a rule switched on individually is applied, not scanned.
* `restore`: `git checkout -- charts` leaves the new files of the failed run.
* `umbrella`: with `node.enabled=false` the umbrella does not compare its
  halves, though the node half may still render extra manifests or
  TailoredProfiles.
* `retyped_field`: the comment above the schema's enum lists `null` and the
  indicator characters among what must not reach an unquoted field. The enum
  holds the words YAML retypes and no indicator, so `&x`, `!!null` and `[a]` are
  accepted, and the field renders as null or a collection. So does `null`:
  `variables` is required but none of its entries, and `--set variables.x=null`
  deletes the entry before the schema is consulted, after which the scan gets no
  value either. Each alone violates the property.

Each is a disagreement between a sentence of the repository, quoted in
`PROJECT.json`, and the code. Whether today's datastreams reach it is a
separate question.

Other limits of the code appear as premises of properties or in the note of a
hazard. Today's datastreams do not have what the first six need.

* `leaf_by_rule` keeps the value of a rule's last version variant. Another rule
  that writes just that value is no conflict, and at the earlier variant's
  version one overwrites the other. `NoLeafLost` assumes that a rule's variants
  agree with its last one; `HardenedObject` allows the other case.
* The guard of a path across objects ANDs over all content groups and all
  version windows, so two of three contents pass. `FileGuardJustified` says only
  that it never refuses wrongly.
* A product name in an OR is dropped with its alternative.
  `ExactForEveryPool` leaves such expressions out.
* The majority default counts selectors, not texts; a number's pattern accepts a
  `%` also in a bare field; of a variable both products have, one product may
  ship the default and the other the constraint (`OfferedValuesAccepted` speaks
  of unshared ones).
* A rule with fixes in both layers has the layer of the first, and would be
  switched by one chart only.
* A rule that can never apply, and is opt-in or broken as well, has the later
  category and counts as open in `RULES.md` (emit.py 2290-2299), against the
  comment that such rules are not gaps (emit.py 2336-2341). `CoverageAgrees`
  states the other direction, that no gap is concealed.
* A rule none of whose variants is for the version is still scanned when its
  object has another rule (the run `active_rule`, and an exception of
  `ScanFollowsSelection`).
* Two MachineConfigs of a role that write a systemd unit or drop-in differently
  pass `check_cross_object_files`, which reads `storage.files` only
  (validate_payloads.py 532-533) and in its docstring speaks of paths.
  `NoFaultPasses` does not count them among the faults.
* Whether Ignition accepts an unescaped `[` in a data URI is not considered: an
  encoded text keeps what it says.
* A kill in `refresh_sha512`'s `write_text` (datastream.py 154) empties the pin,
  and every run raises in `load_config` until someone restores the file.
* An unexpected artifact that got into the cache stays there (datastream.py
  71-82): no run of that version completes until it is removed by hand.
* A refreshed checksum is taken to be the version's own. The refresh trusts the
  release page, and the code has nothing to hold it against.
* The mode `render` alone passes over a platform chart that renders nothing;
  `hosted` and the whole script do not (`CollapseNoticed`).

## Proofs

The safety properties of every module are proved for all values of the
constants, from the named `ASSUME` of the module alone; TLC evaluates those
assumptions in every run. Each proof starts from an inductive invariant `IInv`,
which TLC had checked on the instance of the module's run before it was proved.
`IInvCorrect == Spec => []IInv` is in each proof module; the properties follow
from it.

| Module | Theorem | Property |
| --- | --- | --- |
| `ObjectTemplateProofs` | `TypeCorrect` | `TypeOK` |
| | `FilesSurvive` | `NoFileLost` |
| | `LeavesSurvive` | `NoLeafLost` |
| | `FamilySurvives` | `FamilyLosesNothing` |
| | `NothingLeaksIn` | `NothingInvented` |
| | `UnionIsExclusive` | `UnionFromOneRule` |
| | `RolesAreExact` | `RolesExact` |
| | `RefusalsAreJustified` | `FileRefusalJustified` |
| `ObjectTemplateRefinement` | `TemplateImplementsPromise` | `ImplementsHardening` |
| `RuleSelectionProofs` | `TypeCorrect` | `TypeOK` |
| | `ShippedIsSafeCorrect` | `ShippedIsSafe` |
| | `RenderedIsSoundCorrect` | `RenderedIsSound` |
| | `OverlaySufficesCorrect` | `OverlaySuffices` |
| | `HintedOverlayCorrect` | `HintedOverlayExists` |
| | `FileGuardCorrect` | `FileGuardJustified` |
| | `ScanFollowsCorrect` | `ScanFollowsSelection` |
| | `CoverageCorrect` | `CoverageAgrees` |
| `RegenerationProofs` | `TypeCorrect` | `TypeOK` |
| | `DoneIsWholeCorrect` | `DoneIsWhole` |
| | `OnlyPinnedContentCorrect` | `OnlyPinnedContent` |
| | `RegenerationPublishes` | `ImplementsPublication` |
| `ApplicabilityProofs` | `TypeCorrect` | `TypeOK` |
| | `ExactForEveryPoolCorrect` | `ExactForEveryPool` |
| | `RefusalNecessaryCorrect` | `RefusalNecessary` |
| | `UnknownNeverAppliedCorrect` | `UnknownNeverApplied` |
| `HostedOutputProofs` | `TypeCorrect` | `TypeOK` |
| | `OneClusterCorrect` | `OneRenderOneCluster` |
| | `PlacementCorrect` | `PlacementMatches` |
| | `HalfIsAnnouncedCorrect` | `HalfIsAnnounced` |
| | `AllOutputsCorrect` | `AllOutputsSuffice` |
| `ChartValuesProofs` | `TypeCorrect` | `TypeOK` |
| | `ScanCorrect` | `ScanChecksWhatIsApplied` |
| | `FieldKeepsTypeCorrect` | `FieldKeepsType` |
| | `OfferedCorrect` | `OfferedValuesAccepted` |
| | `DependencyCorrect` | `DependencyAccounted` |
| `ValidationProofs` | `TypeCorrect` | `TypeOK` |
| | `NoFaultPassesCorrect` | `NoFaultPasses` |
| | `CollapseNoticedCorrect` | `CollapseNoticed` |
| | `WorkCountedPerModeCorrect` | `WorkCountedPerMode` |

### The invariants, and why each is needed

`ObjectTemplate`. `NoLeafLost` speaks of a finished render, and its reason lies
in three earlier places: generation (`LeafInv`: the flattened leaves contain
every document's, with its value where a rule agrees with itself;
`LeafSourced`: and nothing else; `ControlInv`: the conflicts are those of the
flattened leaves, and nothing renders from a rejected group), the guards
(`GuardsPassed`), and the merge so far (`MergeInv`: every merged path has a
source, every merged document's file is in `$fileAcc`, each of its other paths
is written, and what the accumulator holds came from a selected document).
Together: if a path ends with another value than an active document's, two
active rules wrote it differently, so they were a conflict, so the guards had
refused. A refusal over a file compares a document with the accumulator, whose
content has a source, so it is justified.

`RuleSelection`. The properties compare what `Generate` wrote with what the
preflight sees after any number of files. `ChartInv` says the former never
changes; `OffInv` carries through the merge that whatever values.yaml or an
overlay switched off is off, wherever it stands, as long as the user switches
nothing on; `OnlyShippedInv`, that nothing else is off when nobody touches a
rule, which is what lets `profile_coverage` compute it without a render;
`PassedInv`, that a check is reached only past the earlier ones.

`Regeneration`. `DoneIsWhole` must hold over any remains. `BuildInv` says that
what the run has gone past is right and names exactly what is `Pending`: in
`clean` every name, then the values file, the overlays and the templates of this
release. `UmbrellaInv` is needed because the umbrella's templates are never
removed: there are none. `TrustInv` follows one artifact from the checksum to
the content parsed from it; without it a stale extracted XML could be of
another release. It also says that no run is under way on a torn pin. `DiskInv`
keeps the commit a release and the unexpected artifact out of the tree.

`Applicability`. `RefsInv` says that what the walk has inherited is what the
groups entered attach, so that no reference is lost; `ExprsInv`, that the
expressions collected are those of the references passed; `ReducedInv`, that
past `Reduce` the axes are those of the satisfying assignments, which are the
product of their projections; `RolesInv`, that the role sets are those of the
expressions read, none of which is `Unreadable`. `RefusalNecessary` follows, as
the product of the projections is the least one with the solutions in it, and
`UnknownNeverApplied`, as an unclassified leaf is either met or behind an
expression that no assignment satisfies.

`ExactForEveryPool` needs more: what `Holding` says of an expression is what
`Meaning` says of it. The lemmas for it are of three kinds.

* The recursive functions exist. The library's theorems on recursion and
  induction take an operator, which the installed provers cannot instantiate, so
  `RecursionExists` is stated for a step given as a function and proved here: the
  partial solutions up to each height exist and agree (`EveryLevel`,
  `SolutionsAgree`), by the least height at which one would not
  (`LowestExists`). `HoldingEquation`, `OccurrencesEquation` and
  `MeaningEquation` are its instances.
* `PlainMeaning`, by `NodeInduction`: an expression without a role fact, and
  with no product among alternatives, means what it evaluates to, on every node
  role. A test of which only products are left is the case `_evaluate` has its
  comment for: it is true, unless negated, as it is for upstream.
* `RoleMeaning`: an expression with a role fact that is not `Unreadable` has
  that fact as its only leaf and no negation, so that it holds on the fact's
  roles and nowhere else (`NoFactMeansAll` for what is around it).

`AcceptedAxes` and `AcceptedRoles` put them together: the axes accept a cluster
where the plain expressions hold, the role loop a role where the others do.

`HostedOutput`. `RenderInv` ties what is rendered to the preflights passed, and
to the values, which a user changes between renders. `DeliveredInv` and
`AppliedInv` remember over several renders what an applied output has put in
effect, and that an applied platform output named the other one.

`ChartValues`. `DefaultsInv` gives each variable the default of the last product
that refers to it, in the middle of the pass over the products; `WrittenInv`
ties schema, generated maps and report to all products together; `RenderedInv`
says that only accepted values are rendered. That a default most profiles
select exists at all, so that the `CHOOSE` for it means something, is proved from
the well-foundedness of the naturals.

`Validation`. `FaultInv` is the aim: every fault of a job behind has raised
`Alarm`, an error or, with `REQUIRE_TOOLS`, a skipped check that is not
optional. For a payload that was seen before it needs `SeenInv`: whatever is in
`_seen` has been checked, or has raised the alarm. The comparison of the
architectures needs `CountInv`, as a failed render has no count. The counters
need `TallyInv` (what the modes have counted so far is within what was
counted when this one began), `WorkInv` (a mode that met no error has seen and
counted exactly the payloads of its jobs so far) and `EmptyInv` (the telltale
checks of an empty chart stay at zero). `ExitInv` says what an exit of 0 means.
The proof of a step has one shape for all nine jobs: each lemma `<Job>Steps`
shows that the job is a `Stepped` (its faults raise the alarm, what it saw is
checked, an empty chart passes no telltale check, what is fresh is counted once)
and `SteppedKeeps` shows that such a step keeps `IInv`.

### The refinements

`TemplateImplementsPromise`: the state of `HardenedObject` is `Status` and the
merged body once the render is complete. All steps of the generator and of the
fragment loop stutter but the one that starts a render and the one that ends
it. That one needs the loop's whole history, which `IInv` sums up: a rendered
object carries every selected leaf and no other (`MergeInv`, `RenderedInv`); a
refusal by a guard is a pair of rivals among the documents (`DetectedConflicts`
is of the flattened leaves, `LeafSourced` traces them to documents), one by the
accumulator is `FileRefusalJustified`, and an object refused as empty has no
selected document with a body.

`RegenerationPublishes`: until the content is parsed no step touches `tree`,
`rulesMd` or `head`; from then on a step may leave `published` at no release,
and the last one makes it the run's (`BuildInv` for the charts, `TrustInv` for
the release). That `ReleaseIn` picks the right release needs two of them to
differ in their files, which they do because a file is known by its artifact
(`ReleaseOfCharts`).

### Assumptions

They say what the code's tables and its environment give, no more:

* `Regeneration`: there is a datastream to extract (`config/content.yaml` pins
  two), the umbrella has no templates of rules, the charts are distinct.
* `Applicability`: a datastream's expressions are finite trees (every node has a
  natural `Height`, above that of its children) of the operators AND and OR; a
  test has at least one child, if only a product; an axis has a value
  (`DOMAINS`); a fact is an assumption of one kind or belongs to one axis, and
  holds on values of that axis (`FACTS`); a role fact is assumed true, as
  `node_is_ocp4_master_node` is; and some role is in every entry of
  `ROLE_FACTS`, which has one entry. With two that exclude each other the last
  would fail, and the code with it: `build_map` says of an empty intersection
  that it must not be read as unrestricted (applicability.py 326-328), which the
  role loop then does (emit.py 1415).
* `HostedOutput`: rule names are not those of the extra manifests or the
  TailoredProfile.
* `ChartValues`: the classes of texts, the indicators among them, are apart where
  YAML and the schema tell them apart, a product's profiles are finitely many, a
  default is a text or absent.
* `Validation`: names are strings; a render gives a sequence of documents, each
  with finitely many files and units whose path has an entry in `DISPATCH`'s model
  `Owner`; platform renders hold no KubeletConfig (`classify.py` makes it a node
  object); floors are naturals and positive for one telltale check per mode (two
  for `hosted`), as in `FLOORS`; `ignition-validate` is a tool, and
  `no-template-syntax` and `audit-rule-shape` are not.

### Model-checked only

* `RunCompletes`: liveness under fairness.
* The five findings: each is a counterexample.

## Not modelled

* Reading and writing of text: XML, regular expressions, YAML, the rewriting of
  a fix into a Go template, formatting of `RULES.md`, the READMEs, NOTES and the
  parts of the schema that only name keys. They are functions without state; the
  models take what they deliver as data, and model what they do to a value where
  a property is about it (`Field`, `PlainType`, `Forbidden`).
* `classify.py`: a table from families of rules to object names. Its effect, one
  object for a family, is a flag of the object in `ObjectTemplate`.
* What sshd, auditctl, ausyscall and ignition-validate accept: constants.
* Two runs of the generator at once. They would share the `.part` file and the
  extracted XML; nothing in the Makefile or the workflows starts two.
* The release and lint jobs of CI.
* A hosted cluster's controllers beyond what they read, and everything after an
  object is applied.

## Plan

1. Done: `ObjectTemplate` with proofs, `RuleSelection`, `Regeneration`,
   `Applicability`, `HostedOutput`, `ChartValues`, `Validation`, and the
   abstract `Publication` and `HardenedObject` with their refinements.
2. Done: the inductive invariants and theorems listed under Proofs, for every
   component, and both refinements.
3. Left: nothing that the provers reach. When `ROLE_FACTS` gets a second entry,
   or `FACTS` an axis, the assumptions of `Applicability` are the place to look
   first; a new kind of payload is an entry of `Owner` in `Validation`.
