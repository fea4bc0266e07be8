----------------------------- MODULE Validation -----------------------------
(***************************************************************************)
(* scripts/validate_payloads.py: one run of it over the generated charts.  *)
(* Each mode goes through its renders, holds what they contain to its      *)
(* checks and counts them; at the end the counts are compared with floors, *)
(* so that a check that examined nothing fails instead of vanishing.       *)
(*                                                                         *)
(* A release is what Helm makes of the charts: for each render the script  *)
(* asks for, a refusal or a sequence of documents, and whether an empty    *)
(* one is among them.  Of a document the model keeps what the checks look  *)
(* at: its flaws name what is missing or too much, a payload is a path and *)
(* a body.                                                                 *)
(***************************************************************************)
EXTENDS Naturals, Sequences, SequencesExt

CONSTANTS
    PlatformProfiles, NodeProfiles,  \* profiles_of, sorted
    Versions, Archs,  \* VERSIONS, ARCHITECTURES
    BaseArch,         \* the architecture compared with, and
    FewerArchs,       \* those which must have fewer objects
    Owner,            \* DISPATCH: path -> the check of its payloads, or "none"
    Rejects,          \* check of payloads -> bodies it rejects
    Tools,            \* checks that need a tool
    OptionalChecks,   \* OPTIONAL_CHECKS
    FLOORS,           \* mode -> check -> count
    Releases,         \* the releases considered
    Machines          \* the installed tools and REQUIRE_TOOLS considered

Modes == <<"render", "payloads", "hosted", "arch">>
Checks == UNION {DOMAIN FLOORS[Modes[m]] : m \in DOMAIN Modes} \cup Tools

\* What one call of helm_template gives.
Render(chart, name, how) == <<chart, name, how>>

Renders ==
    {Render("platform", p, how) : p \in ToSet(PlatformProfiles), how \in {"direct", "management", "guest"}}
        \cup {Render("node", p, how) : p \in ToSet(NodeProfiles), how \in {"direct", "nodepool", "again"}}
        \cup {Render("node", v, how) : v \in ToSet(Versions), how \in {"direct", "nodepool"}}
        \cup {Render("node", a, how) : a \in ToSet(Archs), how \in {"overlay", "bare"}}

\* Objects: the files and the systemd units of finitely many payloads, each a
\* path and a body.
Documents(docs) ==
    /\ docs \in Seq(ToSet(docs))
    /\ \A d \in ToSet(docs) :
           /\ d.inner \in Seq(ToSet(d.inner))
           /\ \A obj \in {d} \cup ToSet(d.inner) :
                  /\ IsFiniteSet(obj.files) /\ IsFiniteSet(obj.units)
                  /\ \A f \in obj.files \cup obj.units :
                         /\ f = [path |-> f.path, body |-> f.body]
                         /\ f.path \in DOMAIN Owner

\* A release.  KubeletConfigs are node objects.
Charts(r) ==
    /\ DOMAIN r.out = Renders
    /\ r.overlays \subseteq ToSet(Archs)
    /\ \A id \in Renders :
           /\ Documents(r.out[id].docs)
           /\ id[1] = "platform" =>
                  \A i \in DOMAIN r.out[id].docs : r.out[id].docs[i].kind # "KubeletConfig"

\* The checks that cannot pass on an empty render.
Telltale == [m \in ToSet(Modes) |->
    CASE m = "render"   -> {"kubeletconfig-pool-selector"}
      [] m = "payloads" -> {"no-template-syntax"}
      [] m = "hosted"   -> {"nodepool-configmap-shape", "hostedcluster-shape"}
      [] m = "arch"     -> {"arch-excludes-objects"}]

ASSUME ValidationAssumption ==
    /\ \A names \in {PlatformProfiles, NodeProfiles, Versions, Archs} : names \in Seq(STRING)
    /\ BaseArch \in ToSet(Archs) /\ FewerArchs \subseteq ToSet(Archs)
    /\ DOMAIN FLOORS = ToSet(Modes)
    /\ OptionalChecks \subseteq Tools
    /\ "ignition-validate" \in Tools
    /\ Tools \subseteq DOMAIN Rejects
    /\ {"no-template-syntax", "audit-rule-shape"} \cap Tools = {}
    /\ \A path \in DOMAIN Owner : Owner[path] \in DOMAIN Rejects \cup {"audit", "none"}
    /\ "hostedcluster-shape" \notin DOMAIN Rejects
    /\ \A m \in ToSet(Modes) :
           /\ \A c \in DOMAIN FLOORS[m] : FLOORS[m][c] \in Nat
           /\ \A c \in Telltale[m] : c \in DOMAIN FLOORS[m] /\ FLOORS[m][c] > 0
    /\ \A r \in Releases : Charts(r)
    /\ \A m \in Machines : m.tools \subseteq Tools /\ m.require \in BOOLEAN

VARIABLES
    release, machine, arg,  \* the charts, the environment, and the argument
    mode, next,  \* index in Modes, and in the jobs of the mode
    errors,      \* Findings: the checks that failed, and where
    skipped,     \* the checks skipped
    checked,     \* check -> how often it passed
    seen,        \* _seen
    before,      \* checked when the mode began
    done,        \* mode -> check -> how often it passed in that mode
    counts,      \* architecture -> objects rendered for it
    pc, exit

input    == <<release, machine, arg>>
findings == <<errors, skipped, checked, seen>>
vars == <<input, mode, next, findings, before, done, counts, pc, exit>>

-----------------------------------------------------------------------------
(***************************************************************************)
(* Checks.  A result is a check, what it was applied to, and its verdict.  *)
(***************************************************************************)
Result(check, on, bad) == [check |-> check, on |-> on, bad |-> bad]

Flawed(objects, flaw) == \E d \in objects : flaw \in d.flaws

Unkept(objects, keep) == \E d \in objects : d.kept # keep

MachineConfigs(objects) == {d \in objects : d.kind = "MachineConfig"}

\* iter_files: a file whose source is no data URI is not yielded; units and
\* their drop-ins are plain text.
FilesOf(objects) ==
    {f \in UNION {d.files : d \in MachineConfigs(objects)} : f.body # "opaque"}
        \cup (UNION {d.units : d \in MachineConfigs(objects)})

\* The digests are taken of the sources as they stand, data URIs or not, and of
\* storage.files only.
WrittenDifferently(objects) ==
    \E c, d \in MachineConfigs(objects) : \E f \in c.files, g \in d.files :
        c.role = d.role /\ f.path = g.path /\ f.body # g.body

ObjectHasBody(objects, on) == {Result("object-has-body", on, Flawed(objects, "body"))}
SelectorLabel(objects, on) == {Result("selector-label", on, Flawed(objects, "label"))}
CrossObjectFiles(objects, on) ==
    {Result("no-cross-object-file-collisions", on, WrittenDifferently(objects))}

ResourcePolicy(objects, on, keep) ==
    {Result(IF keep THEN "resource-policy-keep" ELSE "resource-policy-absent", on,
            Unkept(objects, keep))}

KubeletConfigs(docs) == {i \in DOMAIN docs : docs[i].kind = "KubeletConfig"}

LacksSelector(doc) == "selector" \in doc.flaws

\* One per KubeletConfig, up to the first without a selector.
PoolSelectors(docs) ==
    {Result("kubeletconfig-pool-selector", i, LacksSelector(docs[i])) :
        i \in {j \in KubeletConfigs(docs) :
                  \A k \in KubeletConfigs(docs) : k < j => ~ LacksSelector(docs[k])}}

Installed(check) == check \notin Tools \/ check \in machine.tools

Rejected(check, f) == f.body \in Rejects[check]

\* The checks a payload reaches: those of the audit rules go on after a bad
\* syscall, and stop after a bad line.
OwnersOf(f) ==
    CASE Owner[f.path] = "audit" ->
             {"ausyscall", "audit-rule-shape"}
                 \cup (IF Rejected("audit-rule-shape", f) THEN {} ELSE {"auditctl -R"})
      [] Owner[f.path] = "none" -> {}
      [] OTHER -> {Owner[f.path]}

\* Fault: a body is checked once, wherever it stands.
BodyOnly(scope, f) == <<scope, f.body>>

\* Fault: the modes share what they have seen.
NoScope(scope, f) == <<f.path, f.body>>

Digest(scope, f) == <<scope, f.path, f.body>>

\* first_time
Fresh(objects, scope) == {f \in FilesOf(objects) : Digest(scope, f) \notin seen}

FilePayloads(objects, scope) ==
    {Result("no-template-syntax", f, Rejected("no-template-syntax", f)) : f \in Fresh(objects, scope)}
        \cup UNION {{Result(c, f, Rejected(c, f)) : c \in {o \in OwnersOf(f) : Installed(o)}} :
                        f \in Fresh(objects, scope)}

SkippedPayloads(objects, scope) ==
    {c \in UNION {OwnersOf(f) : f \in Fresh(objects, scope)} : ~ Installed(c)}

\* Ignition configs are deduplicated by the config alone.
Ignition(d) == [files |-> d.files, units |-> d.units]

FreshConfigs(objects) ==
    {d \in MachineConfigs(objects) :
        d.files \cup d.units # {} /\ <<"ignition", Ignition(d)>> \notin seen}

Unignitable(config) ==
    \E f \in config.files \cup config.units : Rejected("ignition-validate", f)

IgnitionResults(objects) ==
    {Result("ignition-validate", Ignition(d), Unignitable(Ignition(d))) : d \in FreshConfigs(objects)}

-----------------------------------------------------------------------------
Job(kind, name) == [kind |-> kind, name |-> name]

JobsOf(kind, names) == [i \in DOMAIN names |-> Job(kind, names[i])]

Jobs == [m \in ToSet(Modes) |->
    CASE m = "render"   -> JobsOf("platform", PlatformProfiles) \o JobsOf("node", NodeProfiles)
      [] m = "payloads" -> JobsOf("payloads", Versions)
      [] m = "hosted"   -> JobsOf("nodepool", NodeProfiles) \o JobsOf("nodepool@", Versions)
                               \o <<Job("size", "nodepool")>> \o JobsOf("hosted", PlatformProfiles)
      [] m = "arch"     -> JobsOf("arch", Archs) \o <<Job("compare", "arch"), Job("schema", "arch")>>]

Mode == Modes[mode]
Current == Jobs[Mode][next]

Doing(kind) == pc = "run" /\ next <= Len(Jobs[Mode]) /\ Current.kind = kind

Out(chart, how) == release.out[Render(chart, Current.name, how)]

\* [d for d in docs if d]
Objects(output) == ToSet(output.docs)

Init ==
    /\ release \in Releases
    /\ machine \in Machines
    /\ arg \in ToSet(Modes) \cup {"all"}
    /\ mode = 1
    /\ next = 1
    /\ errors = {}
    /\ skipped = {}
    /\ checked = [c \in Checks |-> 0]
    /\ seen = {}
    /\ before = [c \in Checks |-> 0]
    /\ done = [m \in ToSet(Modes) |-> [c \in Checks |-> 0]]
    /\ counts = <<>>
    /\ pc = "mode"
    /\ exit = 0

Wanted(m) == arg \in {m, "all"}

BeginMode ==
    /\ pc = "mode"
    /\ mode <= Len(Modes)
    /\ IF Wanted(Mode) THEN pc' = "run" /\ next' = 1 /\ UNCHANGED mode
                       ELSE mode' = mode + 1 /\ UNCHANGED <<pc, next>>
    /\ before' = checked
    /\ UNCHANGED <<input, findings, done, counts, exit>>

\* Fault: the counts of the modes before are not subtracted.
Total == checked

Counted == [c \in Checks |-> checked[c] - before[c]]

EndMode ==
    /\ pc = "run"
    /\ next > Len(Jobs[Mode])
    /\ done' = [done EXCEPT ![Mode] = Counted]
    /\ mode' = mode + 1
    /\ pc' = "mode"
    /\ UNCHANGED <<input, next, findings, before, counts, exit>>

\* A job is over: its results, the checks it skipped, what it has now seen.
Report(results, skips, digests) ==
    /\ errors' = errors \cup {<<Current, r.check>> : r \in {q \in results : q.bad}}
    /\ checked' = [c \in Checks |->
                      checked[c] + Cardinality({r \in results : r.check = c /\ ~ r.bad})]
    /\ skipped' = skipped \cup skips
    /\ seen' = seen \cup digests
    /\ next' = next + 1
    /\ UNCHANGED <<input, mode, before, done, pc, exit>>

Fail(what) == Report({Result(what, "render", TRUE)}, {}, {})

\* A counter of the job itself.
Ran(check) == {Result(check, "job", FALSE)}

-----------------------------------------------------------------------------
(***************************************************************************)
(* The jobs.                                                               *)
(***************************************************************************)
Duplicated(docs) ==
    \E i, j \in DOMAIN docs : i # j /\ docs[i].kind = docs[j].kind /\ docs[i].name = docs[j].name

\* validate_renders, one profile: only an unusable output skips the checks.
RenderProfile(chart) ==
    /\ Doing(chart)
    /\ LET out == Out(chart, "direct")
           objects == Objects(out)
       IN IF out.refused # "no" THEN Fail("render failed")
          ELSE IF out.blank THEN Fail("empty document")
          ELSE Report(ObjectHasBody(objects, "out") \cup SelectorLabel(objects, "out")
                          \cup ResourcePolicy(objects, "out", chart = "platform")
                          \cup PoolSelectors(out.docs) \cup CrossObjectFiles(objects, "out")
                          \cup (IF Duplicated(out.docs) THEN {Result("duplicate", "out", TRUE)}
                                ELSE {})
                          \cup Ran("render"), {}, {})
    /\ UNCHANGED counts

\* validate_payloads, everything enabled at one version.
PayloadsAt ==
    /\ Doing("payloads")
    /\ LET objects == Objects(Out("node", "direct"))
           ignition == "ignition-validate" \in machine.tools
       IN IF Out("node", "direct").refused # "no" THEN Fail("render failed")
          ELSE Report(CrossObjectFiles(objects, "out") \cup FilePayloads(objects, "payload")
                          \cup (IF ignition THEN IgnitionResults(objects) ELSE {}),
                      SkippedPayloads(objects, "payload")
                          \cup (IF ignition THEN {} ELSE {"ignition-validate"}),
                      {Digest("payload", f) : f \in FilesOf(objects)}
                          \cup (IF ignition THEN {<<"ignition", Ignition(d)>> : d \in MachineConfigs(objects)}
                                            ELSE {}))
    /\ UNCHANGED counts

Inner(docs) == UNION {ToSet(docs[i].inner) : i \in DOMAIN docs}

\* What unwrap_nodepool refuses to unwrap; a ConfigMap with a KubeletConfig
\* holds nothing else, so more than one is in two of them.
Unusable(docs) ==
    \/ \E i \in DOMAIN docs : \/ docs[i].kind # "ConfigMap"
                              \/ docs[i].flaws \cap {"keys", "empty part"} # {}
                              \/ docs[i].inner = <<>>
                              \/ KubeletConfigs(docs[i].inner) # {} /\ Len(docs[i].inner) > 1
    \/ \E i, j \in DOMAIN docs : /\ i # j
                                 /\ KubeletConfigs(docs[i].inner) # {}
                                 /\ KubeletConfigs(docs[j].inner) # {}

Wrapped(docs) == IF Unusable(docs) THEN {} ELSE Inner(docs)

\* An object the NodePool does not read, or reads for the wrong nodes.
Foreign(obj) == \/ obj.kind \notin {"MachineConfig", "KubeletConfig"}
                \/ obj.role # "worker"
                \/ obj.flaws \cap {"pool", "instance"} # {}

\* Foreign objects are errors and are unwrapped all the same.
Unwrapping(docs) ==
    IF Unusable(docs) THEN {Result("unwrap", "out", TRUE)}
    ELSE IF Inner(docs) = {} THEN {}
    ELSE Ran("nodepool-configmap-shape")
             \cup {Result("foreign object", o, TRUE) : o \in {p \in Inner(docs) : Foreign(p)}}

ScopeOfHosted == "nodepool-payload"

WrappedPayloads(wrapped) == CrossObjectFiles(wrapped, "inner") \cup FilePayloads(wrapped, ScopeOfHosted)

DigestsOf(wrapped) == {Digest(ScopeOfHosted, f) : f \in FilesOf(wrapped)}

\* validate_hosted, one profile rendered twice for a NodePool.
NodepoolProfile ==
    /\ Doing("nodepool")
    /\ LET out == Out("node", "nodepool")
           again == Out("node", "again")
           wrapped == Wrapped(out.docs)
       IN IF out.refused # "no" \/ again.refused # "no" THEN Fail("render failed")
          ELSE Report({Result("nodepool-render-stable", "out", again # out)}
                          \cup SelectorLabel(Objects(out), "out")
                          \cup ResourcePolicy(Objects(out), "out", FALSE)
                          \cup Unwrapping(out.docs)
                          \cup ObjectHasBody(wrapped, "inner") \cup SelectorLabel(wrapped, "inner")
                          \cup WrappedPayloads(wrapped) \cup Ran("hosted-render"),
                      SkippedPayloads(wrapped, ScopeOfHosted), DigestsOf(wrapped))
    /\ UNCHANGED counts

NodepoolAt ==
    /\ Doing("nodepool@")
    /\ LET out == Out("node", "nodepool")
           wrapped == Wrapped(out.docs)
       IN IF out.refused # "no" THEN Fail("render failed")
          ELSE Report(Unwrapping(out.docs) \cup WrappedPayloads(wrapped),
                      SkippedPayloads(wrapped, ScopeOfHosted), DigestsOf(wrapped))
    /\ UNCHANGED counts

\* check_size_refused
SizeRefused ==
    /\ Doing("size")
    /\ Report({Result("nodepool-size-refused", "out", release.size # "over the limit")}, {}, {})
    /\ UNCHANGED counts

OneHostedCluster(docs) ==
    Len(docs) = 1 /\ docs[1].kind = "HostedCluster" /\ ~ Flawed(ToSet(docs), "fields")

\* check_hostedcluster, where there is something to check.
HostedShape(docs) ==
    IF docs = <<>> THEN {} ELSE {Result("hostedcluster-shape", "management", ~ OneHostedCluster(docs))}

\* Labels and annotations of one of the two outputs of a profile.
Owned(docs, on) == IF docs = <<>> THEN {}
                   ELSE SelectorLabel(ToSet(docs), on) \cup ResourcePolicy(ToSet(docs), on, TRUE)

OnManagement(docs) ==
    {i \in DOMAIN docs : docs[i].kind \in {"APIServer", "OAuth", "HostedCluster"}}

\* validate_hosted, one profile through the two platform outputs.
HostedProfile ==
    /\ Doing("hosted")
    /\ LET management == Out("platform", "management").docs
           guest == Out("platform", "guest").docs
       IN IF \E how \in {"management", "guest"} : Out("platform", how).refused # "no"
          THEN Fail("render failed")
          ELSE Report(HostedShape(management) \cup Owned(management, "management")
                          \cup {Result("in the guest", i, TRUE) : i \in OnManagement(guest)}
                          \cup Owned(guest, "guest") \cup Ran("hosted-render"), {}, {})
    /\ UNCHANGED counts

\* validate_architectures: with the overlay, and, where there is one, without.
ArchRender ==
    /\ Doing("arch")
    /\ LET docs == Out("node", "overlay").docs
           bare == Out("node", "bare").refused
       IN IF Out("node", "overlay").refused # "no"
          THEN Fail("render failed") /\ UNCHANGED counts
          ELSE /\ Report(ObjectHasBody(ToSet(docs), "out") \cup PoolSelectors(docs)
                             \cup CrossObjectFiles(ToSet(docs), "out") \cup Ran("arch-render")
                             \cup (IF Current.name \in release.overlays
                                   THEN {Result("arch-gate-fires", "bare", bare # "not applicable")}
                                   ELSE {}), {}, {})
               /\ counts' = [a \in DOMAIN counts \cup {Current.name} |->
                                IF a = Current.name THEN Len(docs) ELSE counts[a]]

CompareArchs ==
    /\ Doing("compare")
    /\ Report({Result("arch-excludes-objects", a, counts[a] >= counts[BaseArch]) :
                   a \in {b \in FewerArchs : {b, BaseArch} \subseteq DOMAIN counts}}, {}, {})
    /\ UNCHANGED counts

SchemaTypo ==
    /\ Doing("schema")
    /\ Report({Result("schema-rejects-bad-arch", "out", ~ release.schema)}, {}, {})
    /\ UNCHANGED counts

\* Fault: a check that has not run is not held to its floor.
BelowIfRun(m) == {c \in DOMAIN FLOORS[m] : done[m][c] \in 1..(FLOORS[m][c] - 1)}

BelowFloor(m) == {c \in DOMAIN FLOORS[m] : done[m][c] < FLOORS[m][c]}

MissingTools == IF machine.require THEN skipped \ OptionalChecks ELSE {}

\* The end of main.
Verdict ==
    /\ pc = "mode"
    /\ mode > Len(Modes)
    /\ exit' = IF /\ errors = {} /\ MissingTools = {}
                  /\ \A m \in ToSet(Modes) : Wanted(m) => BelowFloor(m) = {}
               THEN 0 ELSE 1
    /\ pc' = "exited"
    /\ UNCHANGED <<input, mode, next, findings, before, done, counts>>

Next ==
    \/ BeginMode
    \/ \E chart \in {"platform", "node"} : RenderProfile(chart)
    \/ PayloadsAt
    \/ NodepoolProfile
    \/ NodepoolAt
    \/ SizeRefused
    \/ HostedProfile
    \/ ArchRender
    \/ CompareArchs
    \/ SchemaTypo
    \/ EndMode
    \/ Verdict

Spec == Init /\ [][Next]_vars

-----------------------------------------------------------------------------
(***************************************************************************)
(* Properties.                                                             *)
(***************************************************************************)
DoneIn(c) == done["render"][c] + done["payloads"][c] + done["hosted"][c] + done["arch"][c]

\* The run stays within its lists, and what the modes count adds up.
TypeOK ==
    /\ DOMAIN release.out = Renders
    /\ arg \in ToSet(Modes) \cup {"all"}
    /\ mode \in 1..(Len(Modes) + 1)
    /\ pc = "run" => next \in 1..(Len(Jobs[Mode]) + 1)
    /\ \A e \in errors : \E m \in ToSet(Modes) : e[1] \in ToSet(Jobs[m])
    /\ skipped \subseteq Tools \ machine.tools
    /\ \A c \in Checks : 0 <= before[c] /\ before[c] <= checked[c]
    /\ \A c \in Checks : DoneIn(c) <= checked[c]
    /\ DOMAIN counts \subseteq ToSet(Archs)
    /\ pc \in {"mode", "run", "exited"}
    /\ exit \in {0, 1}

Exited == pc = "exited"

Output(job, chart, how) == release.out[Render(chart, job.name, how)]

Refused(job, chart, hows) == \E how \in hows : Output(job, chart, how).refused # "no"

\* A payload is bad when an installed parser of its path rejects it, and also
\* when REQUIRE_TOOLS is set and a parser of its path is missing.
BadPayload(f) ==
    \/ Rejected("no-template-syntax", f)
    \/ \E c \in (IF Owner[f.path] = "audit" THEN {"ausyscall", "audit-rule-shape", "auditctl -R"}
                 ELSE {Owner[f.path]} \ {"none"}) :
           IF Installed(c) THEN Rejected(c, f) ELSE machine.require /\ c \notin OptionalChecks

BadPayloads(objects) == \E f \in FilesOf(objects) : BadPayload(f)

Unselected(docs) == \E i \in KubeletConfigs(docs) : LacksSelector(docs[i])

Overlaid(arch) == release.out[Render("node", arch, "overlay")].docs

\* What the MachineConfigs of one role write is not one content per file.
Contested(objects) ==
    \E role \in {d.role : d \in objects} :
        LET written == UNION {d.files : d \in {c \in MachineConfigs(objects) : c.role = role}}
        IN  \E f, g \in written : f.path = g.path /\ f # g

\* What is wrong with a job's outputs, without loops, early exits or memory.
Wrong(job) ==
    LET direct == Objects(Output(job, "node", "direct"))
        configMaps == Output(job, "node", "nodepool").docs
        management == Output(job, "platform", "management").docs
        guest == Output(job, "platform", "guest").docs
        overlay == Output(job, "node", "overlay").docs
        InConfigMaps == \/ Refused(job, "node", {"nodepool"}) \/ Unusable(configMaps)
                        \/ \E obj \in Inner(configMaps) : Foreign(obj)
                        \/ Contested(Inner(configMaps)) \/ BadPayloads(Inner(configMaps))
    IN CASE job.kind \in {"platform", "node"} ->
              LET out == Output(job, job.kind, "direct")
              IN \/ out.refused # "no" \/ out.blank \/ Duplicated(out.docs)
                 \/ Flawed(Objects(out), "body") \/ Flawed(Objects(out), "label")
                 \/ Unkept(Objects(out), job.kind = "platform")
                 \/ Unselected(out.docs) \/ Contested(Objects(out))
         [] job.kind = "payloads" ->
              \/ Refused(job, "node", {"direct"}) \/ Contested(direct) \/ BadPayloads(direct)
              \/ /\ "ignition-validate" \in machine.tools
                 /\ \E d \in MachineConfigs(direct) : Unignitable(Ignition(d))
         [] job.kind = "nodepool" ->
              \/ InConfigMaps \/ Output(job, "node", "again") # Output(job, "node", "nodepool")
              \/ Flawed(ToSet(configMaps), "label") \/ Unkept(ToSet(configMaps), FALSE)
              \/ Flawed(Inner(configMaps), "body") \/ Flawed(Inner(configMaps), "label")
         [] job.kind = "nodepool@" -> InConfigMaps
         [] job.kind = "size" -> release.size # "over the limit"
         [] job.kind = "hosted" ->
              \/ Refused(job, "platform", {"management", "guest"})
              \/ management # <<>> /\ ~ OneHostedCluster(management)
              \/ \E docs \in {management, guest} : Flawed(ToSet(docs), "label") \/ Unkept(ToSet(docs), TRUE)
              \/ OnManagement(guest) # {}
         [] job.kind = "arch" ->
              \/ Refused(job, "node", {"overlay"}) \/ Flawed(ToSet(overlay), "body")
              \/ Unselected(overlay) \/ Contested(ToSet(overlay))
              \/ job.name \in release.overlays
                     /\ Output(job, "node", "bare").refused # "not applicable"
         [] job.kind = "compare" -> \E a \in FewerArchs : Len(Overlaid(a)) >= Len(Overlaid(BaseArch))
         [] job.kind = "schema" -> ~ release.schema

\* A run that reports "all payload checks passed" has seen nothing wrong because
\* there is nothing wrong in what its modes render: no fault is lost to a check
\* that stopped early, a payload taken for one already checked, an aborted
\* render, or, with REQUIRE_TOOLS, a parser that is not there.  A systemd unit
\* that two MachineConfigs write differently is not among the faults: the
\* script compares the files of storage.files only, and passes over it.
NoFaultPasses ==
    Exited /\ exit = 0 =>
        \A m \in ToSet(Modes) : Wanted(m) => \A i \in DOMAIN Jobs[m] : ~ Wrong(Jobs[m][i])

Empty(chart) == \A id \in Renders : id[1] = chart => release.out[id].docs = <<>>

\* Most checks pass on an empty render.  Still no mode passes over a node chart
\* that renders nothing, nor does the hosted mode, or the whole script, over
\* such a platform chart (validate_payloads.py 68-72).
CollapseNoticed ==
    Exited /\ (Empty("node") \/ (Empty("platform") /\ Wanted("hosted"))) => exit = 1

\* The payloads a job renders.
PayloadsIn(job) ==
    CASE job.kind = "payloads" -> FilesOf(Objects(Output(job, "node", "direct")))
      [] job.kind \in {"nodepool", "nodepool@"} -> FilesOf(Inner(Output(job, "node", "nodepool").docs))
      [] OTHER -> {}

\* The payloads a mode renders, each once.
PayloadsOf(m) == UNION {PayloadsIn(job) : job \in ToSet(Jobs[m])}

\* Each mode counts its own distinct payloads, whichever modes ran before it in
\* the same process: their work neither satisfies its floors nor, having seen
\* the same payloads, starves them.
WorkCountedPerMode ==
    Exited /\ errors = {} =>
        \A m \in {"payloads", "hosted"} : Wanted(m) =>
            done[m]["no-template-syntax"] = Cardinality(PayloadsOf(m))

-----------------------------------------------------------------------------
(***************************************************************************)
(* Why they hold.                                                          *)
(***************************************************************************)
\* The script will not pass any more.
Alarm == errors # {} \/ MissingTools # {}

\* The job i of the mode k has run.
Behind(k, i) == Wanted(Modes[k]) /\ (k < mode \/ (k = mode /\ pc = "run" /\ i < next))

\* The release is one of the charts', the counters are naturals, those of the
\* modes to come are zero, and the modes behind have counted no more than was
\* counted when this one began.
TallyInv ==
    /\ Charts(release)
    /\ machine.tools \subseteq Tools
    /\ checked \in [Checks -> Nat]
    /\ before \in [Checks -> Nat]
    /\ done \in [ToSet(Modes) -> [Checks -> Nat]]
    /\ \A k \in DOMAIN Modes : k >= mode => done[Modes[k]] = [c \in Checks |-> 0]
    /\ pc = "run" => \A c \in Checks : DoneIn(c) <= before[c]

\* A run is past its modes when it exits, and exits 0 on nothing but a pass.
ExitInv ==
    /\ pc = "run" => mode <= Len(Modes) /\ Wanted(Mode)
    /\ pc = "exited" =>
           /\ mode = Len(Modes) + 1
           /\ exit = 0 <=> ~ Alarm /\ \A m \in ToSet(Modes) : Wanted(m) => BelowFloor(m) = {}

\* Every fault behind has raised the alarm.
FaultInv ==
    \A k \in DOMAIN Modes : \A i \in DOMAIN Jobs[Modes[k]] :
        Behind(k, i) /\ Wrong(Jobs[Modes[k]][i]) => Alarm

\* What has been seen has been checked, each kind of check for itself.
SeenInv ==
    \A x \in seen :
        IF x[1] = "ignition"
        THEN "ignition-validate" \in machine.tools /\ Unignitable(x[2]) => Alarm
        ELSE BadPayload([path |-> x[2], body |-> x[3]]) => Alarm

\* The architectures behind are counted, or their render has failed.
CountInv ==
    /\ \A a \in DOMAIN counts : counts[a] = Len(Overlaid(a))
    /\ \A i \in DOMAIN Archs : Behind(4, i) => Alarm \/ Archs[i] \in DOMAIN counts

ScopeOf == [payloads |-> "payload", hosted |-> ScopeOfHosted]

PayloadsBehind(k) ==
    UNION {PayloadsIn(Jobs[Modes[k]][i]) : i \in {j \in DOMAIN Jobs[Modes[k]] : Behind(k, j)}}

\* As long as nothing failed, a mode has seen and counted just the payloads of
\* its jobs so far.
WorkInv ==
    errors = {} =>
        \A k \in {2, 3} :
            /\ {x \in seen : x[1] = ScopeOf[Modes[k]]}
                   = {Digest(ScopeOf[Modes[k]], f) : f \in PayloadsBehind(k)}
            /\ mode = k /\ pc = "run" =>
                   Counted["no-template-syntax"] = Cardinality(PayloadsBehind(k))
            /\ mode > k /\ Wanted(Modes[k]) =>
                   done[Modes[k]]["no-template-syntax"] = Cardinality(PayloadsBehind(k))

\* The checks of a mode that do not pass when a chart renders nothing.
Silent(k) ==
    (IF Empty("node") THEN Telltale[Modes[k]] \ {"hostedcluster-shape"} ELSE {})
        \cup (IF Empty("platform") /\ k = 3 THEN {"hostedcluster-shape"} ELSE {})

EmptyInv ==
    \A k \in DOMAIN Modes : \A c \in Silent(k) :
        /\ mode = k /\ pc = "run" => Alarm \/ Counted[c] = 0
        /\ mode > k /\ Wanted(Modes[k]) => Alarm \/ done[Modes[k]][c] = 0

IInv == TypeOK /\ TallyInv /\ ExitInv /\ FaultInv /\ SeenInv /\ CountInv /\ WorkInv /\ EmptyInv
=============================================================================
