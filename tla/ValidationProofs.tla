-------------------------- MODULE ValidationProofs --------------------------
(***************************************************************************)
(* Proofs about Validation, for all charts, machines, arguments, parsers   *)
(* and floors.                                                             *)
(***************************************************************************)
EXTENDS Validation, FiniteSetTheorems, WellFoundedInduction, TLAPS

(***************************************************************************)
(* Lists and finite sets.                                                  *)
(***************************************************************************)
\* Every set of naturals has a least member.
LEMMA LeastExists ==
    ASSUME NEW T, T \subseteq Nat, T # {}
    PROVE  \E x \in T : \A y \in T : x <= y
<1> DEFINE R == {ss \in Nat \X Nat : ss[1] < ss[2]}
<1>1. IsWellFoundedOn(R, Nat)
  BY NatLessThanWellFounded DEF OpToRel
<1> HIDE DEF R
<1>2. PICK x \in T : \A y \in T : ~ (<<y, x>> \in R)
  BY <1>1, WFMin
<1>3. \A y \in T : ~ (y < x)
  BY <1>2 DEF R
<1> QED
  BY <1>2, <1>3

\* The image of a finite set is finite.
LEMMA FiniteImage ==
    ASSUME NEW f, IsFiniteSet(DOMAIN f), NEW S, S \subseteq DOMAIN f
    PROVE  IsFiniteSet({f[x] : x \in S})
<1> DEFINE T == {f[x] : x \in S}
           g == [x \in S |-> f[x]]
<1>1. g \in Surjection(S, T)
  BY DEF Surjection
<1>2. IsFiniteSet(S)
  BY FS_Subset
<1> QED
  BY <1>1, <1>2, FS_Surjection

\* A list is finite.
LEMMA FiniteList ==
    ASSUME NEW X, NEW s \in Seq(X)
    PROVE  IsFiniteSet(DOMAIN s) /\ IsFiniteSet(ToSet(s))
<1>1. DOMAIN s = 1..Len(s) /\ Len(s) \in Nat
  OBVIOUS
<1>2. IsFiniteSet(DOMAIN s)
  BY <1>1, FS_Interval
<1>3. IsFiniteSet({s[i] : i \in DOMAIN s})
  BY <1>2, FiniteImage
<1> QED
  BY <1>2, <1>3 DEF ToSet

\* A list of one set is a list of every larger one.
LEMMA Widened ==
    ASSUME NEW X, NEW Y, X \subseteq Y, NEW s \in Seq(X)
    PROVE  s \in Seq(Y)
<1>1. s \in [1..Len(s) -> Y] /\ Len(s) \in Nat
  OBVIOUS
<1> QED
  BY <1>1

(***************************************************************************)
(* The jobs of the modes.                                                  *)
(***************************************************************************)
LEMMA ModesAre ==
    /\ ToSet(Modes) = {"render", "payloads", "hosted", "arch"}
    /\ Len(Modes) = 4 /\ DOMAIN Modes = 1..4
    /\ Modes[1] = "render" /\ Modes[2] = "payloads" /\ Modes[3] = "hosted" /\ Modes[4] = "arch"
BY DEF Modes, ToSet

Named(kind, names) == {Job(kind, n) : n \in ToSet(names)}

LEMMA JobsOfNamed ==
    ASSUME NEW kind, NEW names \in Seq(STRING)
    PROVE  /\ JobsOf(kind, names) \in Seq(Named(kind, names))
           /\ Len(JobsOf(kind, names)) = Len(names)
           /\ \A i \in 1..Len(names) : JobsOf(kind, names)[i] = Job(kind, names[i])
<1>1. DOMAIN names = 1..Len(names) /\ Len(names) \in Nat
  OBVIOUS
<1>2. \A i \in 1..Len(names) : Job(kind, names[i]) \in Named(kind, names)
  BY <1>1 DEF Named, ToSet
<1>3. JobsOf(kind, names) \in [1..Len(names) -> Named(kind, names)]
  BY <1>1, <1>2 DEF JobsOf
<1>4. JobsOf(kind, names) \in Seq(Named(kind, names))
  BY <1>1, <1>3
<1> QED
  BY <1>1, <1>4 DEF JobsOf

\* The kinds and names of a mode's jobs.
JobsIn(m) ==
    CASE m = "render"   -> Named("platform", PlatformProfiles) \cup Named("node", NodeProfiles)
      [] m = "payloads" -> Named("payloads", Versions)
      [] m = "hosted"   -> Named("nodepool", NodeProfiles) \cup Named("nodepool@", Versions)
                               \cup {Job("size", "nodepool")} \cup Named("hosted", PlatformProfiles)
      [] m = "arch"     -> Named("arch", Archs) \cup {Job("compare", "arch"), Job("schema", "arch")}

\* The jobs of a mode are of its kinds.
LEMMA JobsTyped ==
    \A m \in ToSet(Modes) :
        /\ Jobs[m] \in Seq(JobsIn(m))
        /\ Len(Jobs[m]) \in Nat
        /\ DOMAIN Jobs[m] = 1..Len(Jobs[m])
        /\ \A i \in 1..Len(Jobs[m]) : Jobs[m][i] \in JobsIn(m)
<1>0. /\ PlatformProfiles \in Seq(STRING) /\ NodeProfiles \in Seq(STRING)
      /\ Versions \in Seq(STRING) /\ Archs \in Seq(STRING)
  BY ValidationAssumption
<1>1. Jobs["render"] \in Seq(JobsIn("render"))
  <2>1. Jobs["render"] = JobsOf("platform", PlatformProfiles) \o JobsOf("node", NodeProfiles)
    BY ModesAre DEF Jobs
  <2>2. /\ JobsOf("platform", PlatformProfiles) \in Seq(JobsIn("render"))
        /\ JobsOf("node", NodeProfiles) \in Seq(JobsIn("render"))
    <3>1. /\ Named("platform", PlatformProfiles) \subseteq JobsIn("render")
          /\ Named("node", NodeProfiles) \subseteq JobsIn("render")
      BY DEF JobsIn
    <3> QED
      BY <1>0, <3>1, JobsOfNamed, Widened
  <2> QED
    BY <2>1, <2>2
<1>2. Jobs["payloads"] \in Seq(JobsIn("payloads"))
  <2>1. Jobs["payloads"] = JobsOf("payloads", Versions)
    BY ModesAre DEF Jobs
  <2>2. JobsIn("payloads") = Named("payloads", Versions)
    BY DEF JobsIn
  <2> QED
    BY <1>0, <2>1, <2>2, JobsOfNamed
<1>3. Jobs["hosted"] \in Seq(JobsIn("hosted"))
  <2> DEFINE Size == <<Job("size", "nodepool")>>
  <2>1. Jobs["hosted"] = JobsOf("nodepool", NodeProfiles) \o JobsOf("nodepool@", Versions)
                             \o Size \o JobsOf("hosted", PlatformProfiles)
    BY ModesAre DEF Jobs
  <2>2. /\ JobsOf("nodepool", NodeProfiles) \in Seq(JobsIn("hosted"))
        /\ JobsOf("nodepool@", Versions) \in Seq(JobsIn("hosted"))
        /\ JobsOf("hosted", PlatformProfiles) \in Seq(JobsIn("hosted"))
    <3>1. /\ Named("nodepool", NodeProfiles) \subseteq JobsIn("hosted")
          /\ Named("nodepool@", Versions) \subseteq JobsIn("hosted")
          /\ Named("hosted", PlatformProfiles) \subseteq JobsIn("hosted")
      BY DEF JobsIn
    <3> QED
      BY <1>0, <3>1, JobsOfNamed, Widened
  <2>3. Size \in Seq(JobsIn("hosted"))
    <3>1. Job("size", "nodepool") \in JobsIn("hosted")
      BY DEF JobsIn
    <3> QED
      BY <3>1
  <2> HIDE DEF Size
  <2> QED
    BY <2>1, <2>2, <2>3
<1>4. Jobs["arch"] \in Seq(JobsIn("arch"))
  <2> DEFINE Final == <<Job("compare", "arch"), Job("schema", "arch")>>
  <2>1. Jobs["arch"] = JobsOf("arch", Archs) \o Final
    BY ModesAre DEF Jobs
  <2>2. JobsOf("arch", Archs) \in Seq(JobsIn("arch"))
    <3>1. Named("arch", Archs) \subseteq JobsIn("arch")
      BY DEF JobsIn
    <3> QED
      BY <1>0, <3>1, JobsOfNamed, Widened
  <2>3. Final \in Seq(JobsIn("arch"))
    <3>1. Job("compare", "arch") \in JobsIn("arch") /\ Job("schema", "arch") \in JobsIn("arch")
      BY DEF JobsIn
    <3> QED
      BY <3>1
  <2> HIDE DEF Final
  <2> QED
    BY <2>1, <2>2, <2>3
<1>5. \A m \in ToSet(Modes) : Jobs[m] \in Seq(JobsIn(m))
  BY <1>1, <1>2, <1>3, <1>4, ModesAre
<1> QED
  <2> TAKE m \in ToSet(Modes)
  <2> DEFINE J == Jobs[m]
             X == JobsIn(m)
  <2>1. J \in Seq(X)
    BY <1>5
  <2> HIDE DEF J, X
  <2>2. Len(J) \in Nat /\ DOMAIN J = 1..Len(J) /\ \A i \in 1..Len(J) : J[i] \in X
    BY <2>1
  <2> QED
    BY <2>1, <2>2 DEF J, X

\* The architectures are compared when all of them have been rendered.
LEMMA ArchJobs ==
    LET J == Jobs["arch"]
        n == Len(Archs)
    IN  /\ n \in Nat
        /\ Len(J) = n + 2
        /\ \A i \in 1..n : J[i] = Job("arch", Archs[i])
        /\ J[n + 1] = Job("compare", "arch")
        /\ J[n + 2] = Job("schema", "arch")
<1> DEFINE A == JobsOf("arch", Archs)
           c == Job("compare", "arch")
           s == Job("schema", "arch")
<1>1. Jobs["arch"] = A \o <<c, s>>
  BY ModesAre DEF Jobs
<1>2. A \in Seq(Named("arch", Archs)) /\ Len(A) = Len(Archs) /\ Len(Archs) \in Nat
      /\ \A i \in 1..Len(Archs) : A[i] = Job("arch", Archs[i])
  <2>1. Archs \in Seq(STRING)
    BY ValidationAssumption
  <2> QED
    BY <2>1, JobsOfNamed
<1> HIDE DEF A, c, s
<1>3. /\ Len(A \o <<c, s>>) = Len(A) + 2
      /\ \A i \in 1..Len(A) : (A \o <<c, s>>)[i] = A[i]
      /\ (A \o <<c, s>>)[Len(A) + 1] = c
      /\ (A \o <<c, s>>)[Len(A) + 2] = s
  <2> DEFINE N == Named("arch", Archs)
  <2>1. A \in Seq(N \cup {c, s}) /\ <<c, s>> \in Seq(N \cup {c, s})
    BY <1>2, Widened
  <2> HIDE DEF N
  <2> QED
    BY <2>1
<1> QED
  BY <1>1, <1>2, <1>3 DEF c, s

(***************************************************************************)
(* What a render holds.                                                    *)
(***************************************************************************)
\* Finitely many objects with finitely many payloads, each a path and a body.
Sound(objects) ==
    /\ IsFiniteSet(objects)
    /\ \A obj \in objects : /\ IsFiniteSet(obj.files) /\ IsFiniteSet(obj.units)
                            /\ \A f \in obj.files \cup obj.units :
                                   /\ f = [path |-> f.path, body |-> f.body]
                                   /\ f.path \in DOMAIN Owner

LEMMA RendersAre ==
    /\ \A p \in ToSet(PlatformProfiles) : \A how \in {"direct", "management", "guest"} :
           Render("platform", p, how) \in Renders
    /\ \A p \in ToSet(NodeProfiles) : \A how \in {"direct", "nodepool", "again"} :
           Render("node", p, how) \in Renders
    /\ \A v \in ToSet(Versions) : \A how \in {"direct", "nodepool"} :
           Render("node", v, how) \in Renders
    /\ \A a \in ToSet(Archs) : \A how \in {"overlay", "bare"} :
           Render("node", a, how) \in Renders
BY DEF Renders

LEMMA DocumentsSound ==
    ASSUME NEW docs, Documents(docs)
    PROVE  /\ docs \in Seq(ToSet(docs))
           /\ DOMAIN docs = 1..Len(docs) /\ Len(docs) \in Nat
           /\ IsFiniteSet(DOMAIN docs)
           /\ Sound(ToSet(docs))
           /\ Sound(Inner(docs))
<1>1. docs \in Seq(ToSet(docs))
  BY DEF Documents
<1>2. DOMAIN docs = 1..Len(docs) /\ Len(docs) \in Nat
  BY <1>1
<1>3. IsFiniteSet(DOMAIN docs) /\ IsFiniteSet(ToSet(docs))
  BY <1>1, FiniteList
<1>4. Sound(ToSet(docs))
  BY <1>3 DEF Sound, Documents
<1>5. IsFiniteSet(Inner(docs))
  <2> DEFINE g == [i \in DOMAIN docs |-> ToSet(docs[i].inner)]
  <2>1. \A i \in DOMAIN docs : IsFiniteSet(ToSet(docs[i].inner))
    <3> TAKE i \in DOMAIN docs
    <3>1. docs[i] \in ToSet(docs)
      BY DEF ToSet
    <3>2. docs[i].inner \in Seq(ToSet(docs[i].inner))
      BY <3>1 DEF Documents
    <3> QED
      BY <3>2, FiniteList
  <2>2. IsFiniteSet({g[i] : i \in DOMAIN docs})
    BY <1>3, FiniteImage
  <2>3. \A T \in {g[i] : i \in DOMAIN docs} : IsFiniteSet(T)
    BY <2>1
  <2>4. IsFiniteSet(UNION {g[i] : i \in DOMAIN docs})
    BY <2>2, <2>3, FS_UNION
  <2>5. Inner(docs) = UNION {g[i] : i \in DOMAIN docs}
    BY DEF Inner
  <2> QED
    BY <2>4, <2>5
<1>6. Sound(Inner(docs))
  <2>1. \A obj \in Inner(docs) : \E d \in ToSet(docs) : obj \in ToSet(d.inner)
    BY DEF Inner, ToSet
  <2> QED
    BY <1>5, <2>1 DEF Sound, Documents
<1> QED
  BY <1>1, <1>2, <1>3, <1>4, <1>6

LEMMA FilesSound ==
    ASSUME NEW objects, Sound(objects)
    PROVE  /\ IsFiniteSet(FilesOf(objects))
           /\ \A f \in FilesOf(objects) : f = [path |-> f.path, body |-> f.body]
           /\ \A f \in FilesOf(objects) : f.path \in DOMAIN Owner
<1> DEFINE M == MachineConfigs(objects)
           g == [d \in M |-> d.files \cup d.units]
<1>1. M \subseteq objects
  BY DEF MachineConfigs
<1>2. IsFiniteSet(M)
  BY <1>1, FS_Subset DEF Sound
<1>3. IsFiniteSet({g[d] : d \in M})
  BY <1>2, FiniteImage
<1>4. \A T \in {g[d] : d \in M} : IsFiniteSet(T)
  <2>1. \A d \in M : IsFiniteSet(d.files) /\ IsFiniteSet(d.units)
    BY <1>1 DEF Sound
  <2>2. \A d \in M : IsFiniteSet(d.files \cup d.units)
    BY <2>1, FS_Union
  <2> QED
    BY <2>2
<1>5. IsFiniteSet(UNION {g[d] : d \in M})
  BY <1>3, <1>4, FS_UNION
<1>6. FilesOf(objects) \subseteq UNION {g[d] : d \in M}
  BY DEF FilesOf
<1>7. \A f \in FilesOf(objects) : \E d \in objects : f \in d.files \cup d.units
  BY <1>1 DEF FilesOf
<1> QED
  BY <1>5, <1>6, <1>7, FS_Subset DEF Sound

(***************************************************************************)
(* The results of the checks are finitely many.                            *)
(***************************************************************************)
LEMMA OwnersFinite ==
    \A f : IsFiniteSet(OwnersOf(f))
<1> TAKE f
<1> DEFINE All == {"ausyscall", "audit-rule-shape", "auditctl -R", Owner[f.path]}
<1>1. OwnersOf(f) \subseteq All
  BY DEF OwnersOf
<1>2. IsFiniteSet(All)
  <2>1. IsFiniteSet({"ausyscall"})
    BY FS_Singleton
  <2>2. IsFiniteSet({"ausyscall"} \cup {"audit-rule-shape"})
    BY <2>1, FS_AddElement
  <2>3. IsFiniteSet(({"ausyscall"} \cup {"audit-rule-shape"}) \cup {"auditctl -R"})
    BY <2>2, FS_AddElement
  <2>4. IsFiniteSet((({"ausyscall"} \cup {"audit-rule-shape"}) \cup {"auditctl -R"})
                        \cup {Owner[f.path]})
    BY <2>3, FS_AddElement
  <2>5. All = (({"ausyscall"} \cup {"audit-rule-shape"}) \cup {"auditctl -R"}) \cup {Owner[f.path]}
    OBVIOUS
  <2> QED
    BY <2>4, <2>5
<1> HIDE DEF All
<1> QED
  BY <1>1, <1>2, FS_Subset

LEMMA PayloadsFinite ==
    ASSUME NEW objects, Sound(objects), NEW scope
    PROVE  IsFiniteSet(FilePayloads(objects, scope))
<1> DEFINE F == Fresh(objects, scope)
           syntax == [f \in F |-> Result("no-template-syntax", f, Rejected("no-template-syntax", f))]
           Present(f) == {o \in OwnersOf(f) : Installed(o)}
           parsed == [f \in F |-> {Result(c, f, Rejected(c, f)) : c \in Present(f)}]
<1>1. IsFiniteSet(F)
  BY FilesSound, FS_Subset DEF Fresh
<1>2. IsFiniteSet({syntax[f] : f \in F})
  BY <1>1, FiniteImage
<1>3. IsFiniteSet({parsed[f] : f \in F})
  BY <1>1, FiniteImage
<1>4. \A f \in F : IsFiniteSet(parsed[f])
  <2> TAKE f \in F
  <2> DEFINE r == [c \in Present(f) |-> Result(c, f, Rejected(c, f))]
  <2>1. IsFiniteSet(Present(f))
    BY OwnersFinite, FS_Subset
  <2>2. IsFiniteSet({r[c] : c \in Present(f)})
    BY <2>1, FiniteImage
  <2>3. {r[c] : c \in Present(f)} = {Result(c, f, Rejected(c, f)) : c \in Present(f)}
    OBVIOUS
  <2> QED
    BY <2>2, <2>3
<1>5. IsFiniteSet(UNION {parsed[f] : f \in F})
  BY <1>3, <1>4, FS_UNION
<1>6. FilePayloads(objects, scope) = {syntax[f] : f \in F} \cup UNION {parsed[f] : f \in F}
  BY DEF FilePayloads
<1> DEFINE A == {syntax[f] : f \in F}
           B == UNION {parsed[f] : f \in F}
<1>7. IsFiniteSet(A) /\ IsFiniteSet(B) /\ FilePayloads(objects, scope) = A \cup B
  BY <1>2, <1>5, <1>6
<1> HIDE DEF A, B
<1> QED
  BY <1>7, FS_Union

LEMMA IgnitionFinite ==
    ASSUME NEW objects, Sound(objects)
    PROVE  IsFiniteSet(IgnitionResults(objects))
<1> DEFINE C == FreshConfigs(objects)
           r == [d \in C |-> Result("ignition-validate", Ignition(d), Unignitable(Ignition(d)))]
<1>1. IsFiniteSet(C)
  BY FS_Subset DEF FreshConfigs, MachineConfigs, Sound
<1>2. IsFiniteSet({r[d] : d \in C})
  BY <1>1, FiniteImage
<1> QED
  BY <1>2 DEF IgnitionResults

LEMMA SelectorsFinite ==
    ASSUME NEW docs, Documents(docs)
    PROVE  IsFiniteSet(PoolSelectors(docs))
<1> DEFINE I == {j \in KubeletConfigs(docs) :
                    \A k \in KubeletConfigs(docs) : k < j => ~ LacksSelector(docs[k])}
           r == [i \in I |-> Result("kubeletconfig-pool-selector", i, LacksSelector(docs[i]))]
<1>1. IsFiniteSet(I)
  BY DocumentsSound, FS_Subset DEF KubeletConfigs
<1>2. IsFiniteSet({r[i] : i \in I})
  BY <1>1, FiniteImage
<1> QED
  BY <1>2 DEF PoolSelectors

LEMMA UnwrappingFinite ==
    ASSUME NEW docs, Documents(docs)
    PROVE  IsFiniteSet(Unwrapping(docs))
<1> DEFINE F == {p \in Inner(docs) : Foreign(p)}
           r == [o \in F |-> Result("foreign object", o, TRUE)]
<1>1. IsFiniteSet(F)
  BY DocumentsSound, FS_Subset DEF Sound
<1>2. IsFiniteSet({r[o] : o \in F})
  BY <1>1, FiniteImage
<1>3. {r[o] : o \in F} = {Result("foreign object", o, TRUE) : o \in F}
  OBVIOUS
<1>4. IsFiniteSet({Result("unwrap", "out", TRUE)}) /\ IsFiniteSet(Ran("nodepool-configmap-shape"))
  BY FS_Singleton DEF Ran
<1>5. IsFiniteSet(Ran("nodepool-configmap-shape") \cup {r[o] : o \in F})
  BY <1>2, <1>4, FS_Union
<1> HIDE DEF r
<1>6. IsFiniteSet({})
  BY FS_EmptySet
<1>7. \/ Unwrapping(docs) = {Result("unwrap", "out", TRUE)}
      \/ Unwrapping(docs) = {}
      \/ Unwrapping(docs) = Ran("nodepool-configmap-shape") \cup {r[o] : o \in F}
  BY <1>3 DEF Unwrapping
<1> QED
  BY <1>4, <1>5, <1>6, <1>7

(***************************************************************************)
(* What a step leaves as it is, and what a report does.                    *)
(***************************************************************************)
LEMMA Steady ==
    ASSUME UNCHANGED input
    PROVE  /\ release' = release /\ machine' = machine /\ arg' = arg
           /\ \A m : Wanted(m)' <=> Wanted(m)
           /\ \A f : BadPayload(f)' <=> BadPayload(f)
           /\ \A job : PayloadsIn(job)' = PayloadsIn(job)
           /\ \A a : Overlaid(a)' = Overlaid(a)
           /\ \A k : Silent(k)' = Silent(k)
           /\ \A job : Wrong(job)' <=> Wrong(job)
<1>1. release' = release /\ machine' = machine /\ arg' = arg
  BY DEF input
<1>2. \A m : Wanted(m)' <=> Wanted(m)
  BY <1>1 DEF Wanted
<1>3. \A f : BadPayload(f)' <=> BadPayload(f)
  <2> TAKE f
  <2>1. \A c : Installed(c)' <=> Installed(c)
    BY <1>1 DEF Installed
  <2> QED
    BY <1>1, <2>1 DEF BadPayload
<1>4. \A job, chart, how : Output(job, chart, how)' = Output(job, chart, how)
  BY <1>1 DEF Output
<1>5. \A job : PayloadsIn(job)' = PayloadsIn(job)
  <2> TAKE job
  <2>1. /\ Output(job, "node", "direct")' = Output(job, "node", "direct")
        /\ Output(job, "node", "nodepool")' = Output(job, "node", "nodepool")
    BY <1>4
  <2> QED
    BY <2>1 DEF PayloadsIn
<1>6. \A a : Overlaid(a)' = Overlaid(a)
  BY <1>1 DEF Overlaid
<1>7. \A k : Silent(k)' = Silent(k)
  BY <1>1 DEF Silent, Empty
<1>8. \A job : Wrong(job)' <=> Wrong(job)
  <2> TAKE job
  <2> QED
    BY <1>1, <1>3, <1>4, <1>6 DEF Wrong, Refused, BadPayloads
<1> QED
  BY <1>1, <1>2, <1>3, <1>5, <1>6, <1>7, <1>8

LEMMA ReportAlarms ==
    ASSUME NEW R, NEW S, NEW D, Report(R, S, D)
    PROVE  /\ UNCHANGED input
           /\ Alarm => Alarm'
           /\ errors' # {} => Alarm'
           /\ errors # {} => errors' # {}
           /\ (\E r \in R : r.bad) => errors' # {}
           /\ \A c \in S : machine.require /\ c \notin OptionalChecks => Alarm'
<1>1. UNCHANGED input
  BY DEF Report
<1>2. machine' = machine
  BY <1>1, Steady
<1>3. errors \subseteq errors' /\ skipped \subseteq skipped' /\ S \subseteq skipped'
  BY DEF Report
<1>4. (\E r \in R : r.bad) => errors' # {}
  BY DEF Report
<1> QED
  BY <1>1, <1>2, <1>3, <1>4 DEF Alarm, MissingTools

LEMMA ReportCounts ==
    ASSUME NEW R, NEW S, NEW D, Report(R, S, D), IsFiniteSet(R), checked \in [Checks -> Nat]
    PROVE  /\ checked' \in [Checks -> Nat]
           /\ \A c \in Checks :
                  LET Passed == {r \in R : r.check = c /\ ~ r.bad}
                  IN /\ Cardinality(Passed) \in Nat
                     /\ checked'[c] = checked[c] + Cardinality(Passed)
<1>1. \A c \in Checks : Cardinality({r \in R : r.check = c /\ ~ r.bad}) \in Nat
  BY FS_Subset, FS_CardinalityType
<1>2. checked' = [c \in Checks |-> checked[c] + Cardinality({r \in R : r.check = c /\ ~ r.bad})]
  BY DEF Report
<1> QED
  BY <1>1, <1>2

(***************************************************************************)
(* Payloads that are checked, or have been.                                *)
(***************************************************************************)
\* What a digest stands for is rejected.
Bad(x) == IF x[1] = "ignition" THEN "ignition-validate" \in machine.tools /\ Unignitable(x[2])
                               ELSE BadPayload([path |-> x[2], body |-> x[3]])

LEMMA PayloadsChecked ==
    ASSUME NEW objects, Sound(objects), NEW scope \in {"payload", ScopeOfHosted}, SeenInv,
           NEW R, NEW S, NEW D, Report(R, S, D),
           FilePayloads(objects, scope) \subseteq R, SkippedPayloads(objects, scope) \subseteq S
    PROVE  \A f \in FilesOf(objects) : BadPayload(f) => Alarm'
<1> SUFFICES ASSUME NEW f \in FilesOf(objects), BadPayload(f)
             PROVE  Alarm'
  OBVIOUS
<1>1. CASE Digest(scope, f) \in seen
  <2>1. f = [path |-> f.path, body |-> f.body]
    BY FilesSound
  <2>2. BadPayload([path |-> f.path, body |-> f.body])
    BY <2>1
  <2>3. Digest(scope, f) = <<scope, f.path, f.body>> /\ scope # "ignition"
    BY DEF Digest, ScopeOfHosted
  <2>4. Alarm
    BY <1>1, <2>2, <2>3 DEF SeenInv
  <2> QED
    BY <2>4, ReportAlarms
<1>2. CASE Digest(scope, f) \notin seen
  <2>1. f \in Fresh(objects, scope)
    BY <1>2 DEF Fresh
  <2>2. Result("no-template-syntax", f, Rejected("no-template-syntax", f)) \in R
    BY <2>1 DEF FilePayloads
  <2>3. \A c \in OwnersOf(f) : Installed(c) => Result(c, f, Rejected(c, f)) \in R
    BY <2>1 DEF FilePayloads
  <2>4. \A c \in OwnersOf(f) : ~ Installed(c) => c \in S
    BY <2>1 DEF SkippedPayloads
  <2>5. \A c : Result(c, f, Rejected(c, f)) \in R /\ Rejected(c, f) => Alarm'
    BY ReportAlarms DEF Result
  <2>6. \A c \in OwnersOf(f) :
            (IF Installed(c) THEN Rejected(c, f) ELSE machine.require /\ c \notin OptionalChecks)
                => Alarm'
    BY <2>3, <2>4, <2>5, ReportAlarms
  <2>7. CASE Rejected("no-template-syntax", f)
    BY <2>2, <2>5, <2>7
  <2>8. CASE Owner[f.path] = "audit" /\ ~ Rejected("no-template-syntax", f)
    <3>1. PICK c \in {"ausyscall", "audit-rule-shape", "auditctl -R"} :
              IF Installed(c) THEN Rejected(c, f) ELSE machine.require /\ c \notin OptionalChecks
      BY <2>8 DEF BadPayload
    <3>2. CASE c \in OwnersOf(f)
      BY <2>6, <3>1, <3>2
    <3>3. CASE c \notin OwnersOf(f)
      <4>1. Rejected("audit-rule-shape", f) /\ "audit-rule-shape" \in OwnersOf(f)
        BY <2>8, <3>3 DEF OwnersOf
      <4>2. Installed("audit-rule-shape")
        BY ValidationAssumption DEF Installed
      <4> QED
        BY <2>6, <4>1, <4>2
    <3> QED
      BY <3>2, <3>3
  <2>9. CASE Owner[f.path] # "audit" /\ ~ Rejected("no-template-syntax", f)
    <3>1. PICK c \in {Owner[f.path]} \ {"none"} :
              IF Installed(c) THEN Rejected(c, f) ELSE machine.require /\ c \notin OptionalChecks
      BY <2>9 DEF BadPayload
    <3>2. c \in OwnersOf(f)
      BY <2>9, <3>1 DEF OwnersOf
    <3> QED
      BY <2>6, <3>1, <3>2
  <2> QED
    BY <2>7, <2>8, <2>9
<1> QED
  BY <1>1, <1>2

LEMMA IgnitionChecked ==
    ASSUME NEW objects, SeenInv, "ignition-validate" \in machine.tools,
           NEW R, NEW S, NEW D, Report(R, S, D), IgnitionResults(objects) \subseteq R
    PROVE  \A d \in MachineConfigs(objects) : Unignitable(Ignition(d)) => Alarm'
<1> SUFFICES ASSUME NEW d \in MachineConfigs(objects), Unignitable(Ignition(d))
             PROVE  Alarm'
  OBVIOUS
<1>1. CASE <<"ignition", Ignition(d)>> \in seen
  <2>1. Alarm
    BY <1>1 DEF SeenInv
  <2> QED
    BY <2>1, ReportAlarms
<1>2. CASE <<"ignition", Ignition(d)>> \notin seen
  <2>1. d \in FreshConfigs(objects)
    BY <1>2 DEF FreshConfigs, Unignitable, Ignition
  <2>2. Result("ignition-validate", Ignition(d), Unignitable(Ignition(d))) \in R
    BY <2>1 DEF IgnitionResults
  <2> QED
    BY <2>2, ReportAlarms DEF Result
<1> QED
  BY <1>1, <1>2

\* Where nothing failed, the payloads counted are the fresh ones.
LEMMA PayloadsCounted ==
    ASSUME NEW objects, NEW scope, NEW R, FilePayloads(objects, scope) \subseteq R,
           \A r \in R : ~ r.bad,
           \A r \in R : r.check = "no-template-syntax" => r \in FilePayloads(objects, scope)
    PROVE  {r \in R : r.check = "no-template-syntax" /\ ~ r.bad}
               = {Result("no-template-syntax", f, FALSE) : f \in Fresh(objects, scope)}
<1> DEFINE F == Fresh(objects, scope)
           Fine == {Result("no-template-syntax", f, FALSE) : f \in F}
<1>1. \A f \in F : Result("no-template-syntax", f, Rejected("no-template-syntax", f)) \in R
  BY DEF FilePayloads
<1>2. \A f \in F : Rejected("no-template-syntax", f) = FALSE
  <2> TAKE f \in F
  <2> DEFINE v == Rejected("no-template-syntax", f)
  <2>1. Result("no-template-syntax", f, v) \in R
    BY <1>1
  <2>2. v \in BOOLEAN
    BY DEF Rejected
  <2> HIDE DEF v
  <2>3. Result("no-template-syntax", f, v).bad = v
    BY DEF Result
  <2>4. ~ v
    BY <2>1, <2>3
  <2>5. v = FALSE
    BY <2>2, <2>4
  <2> QED
    BY <2>5 DEF v
<1>3. ASSUME NEW r \in R, r.check = "no-template-syntax"
      PROVE  \E f \in F : r = Result("no-template-syntax", f, FALSE)
  <2>1. \E f \in F : \E c : r = Result(c, f, Rejected(c, f))
    BY <1>3 DEF FilePayloads
  <2>2. PICK f \in F : \E c : r = Result(c, f, Rejected(c, f))
    BY <2>1
  <2>3. r = Result("no-template-syntax", f, Rejected("no-template-syntax", f))
    BY <1>3, <2>2 DEF Result
  <2> QED
    BY <1>2, <2>3
<1>4. \A f \in F : Result("no-template-syntax", f, FALSE) \in R
  BY <1>1, <1>2
<1>5. \A f \in F : /\ Result("no-template-syntax", f, FALSE).check = "no-template-syntax"
                   /\ ~ Result("no-template-syntax", f, FALSE).bad
  BY DEF Result
<1>6. Fine \subseteq {r \in R : r.check = "no-template-syntax" /\ ~ r.bad}
  BY <1>4, <1>5
<1>7. {r \in R : r.check = "no-template-syntax" /\ ~ r.bad} \subseteq Fine
  BY <1>3
<1> QED
  BY <1>6, <1>7

\* The pool selectors are checked up to the first that is missing.
LEMMA SelectorsChecked ==
    ASSUME NEW docs, Documents(docs), Unselected(docs)
    PROVE  \E r \in PoolSelectors(docs) : r.bad
<1> DEFINE T == {i \in KubeletConfigs(docs) : LacksSelector(docs[i])}
<1>1. T \subseteq Nat
  BY DocumentsSound DEF KubeletConfigs
<1>2. T # {}
  BY DEF Unselected
<1>3. PICK i \in T : \A j \in T : i <= j
  BY <1>1, <1>2, LeastExists
<1>4. \A k \in KubeletConfigs(docs) : k \in Nat /\ i \in Nat
  BY <1>1, DocumentsSound DEF KubeletConfigs
<1>5. \A k \in KubeletConfigs(docs) : k < i => ~ LacksSelector(docs[k])
  BY <1>3, <1>4
<1>6. Result("kubeletconfig-pool-selector", i, LacksSelector(docs[i])) \in PoolSelectors(docs)
  BY <1>5 DEF PoolSelectors
<1>7. LacksSelector(docs[i])
  BY <1>3
<1> QED
  BY <1>6, <1>7 DEF Result

(***************************************************************************)
(* The steps.                                                              *)
(***************************************************************************)
LEMMA Located ==
    ASSUME TypeOK, ExitInv, NEW kind, Doing(kind)
    PROVE  /\ pc = "run" /\ mode \in 1..4 /\ Mode \in ToSet(Modes)
           /\ next \in 1..Len(Jobs[Mode]) /\ Current \in JobsIn(Mode) /\ Current.kind = kind
           /\ kind \in {"platform", "node"} => mode = 1 /\ Mode = "render"
           /\ kind = "payloads" => mode = 2 /\ Mode = "payloads"
           /\ kind \in {"nodepool", "nodepool@", "size", "hosted"} => mode = 3 /\ Mode = "hosted"
           /\ kind \in {"arch", "compare", "schema"} => mode = 4 /\ Mode = "arch"
           /\ kind \in {"platform", "hosted"} => Current.name \in ToSet(PlatformProfiles)
           /\ kind \in {"node", "nodepool"} => Current.name \in ToSet(NodeProfiles)
           /\ kind \in {"payloads", "nodepool@"} => Current.name \in ToSet(Versions)
           /\ kind = "arch" => Current.name \in ToSet(Archs)
<1>1. /\ pc = "run" /\ mode \in 1..4 /\ Mode \in ToSet(Modes) /\ Mode = Modes[mode]
      /\ Current.kind = kind
  BY ModesAre DEF Doing, TypeOK, ExitInv, Mode, ToSet
<1>2. next \in 1..Len(Jobs[Mode]) /\ Len(Jobs[Mode]) \in Nat
  BY <1>1, JobsTyped DEF Doing, TypeOK
<1>3. Current \in JobsIn(Mode)
  BY <1>1, <1>2, JobsTyped DEF Current
<1>4. \/ mode = 1 /\ Mode = "render"
      \/ mode = 2 /\ Mode = "payloads"
      \/ mode = 3 /\ Mode = "hosted"
      \/ mode = 4 /\ Mode = "arch"
  BY <1>1, ModesAre
<1>5. CASE mode = 1 /\ Mode = "render"
  <2>1. \/ \E n \in ToSet(PlatformProfiles) : Current = Job("platform", n)
        \/ \E n \in ToSet(NodeProfiles) : Current = Job("node", n)
    BY <1>3, <1>5 DEF JobsIn, Named
  <2> QED
    BY <1>1, <1>2, <1>3, <1>5, <2>1 DEF Job
<1>6. CASE mode = 2 /\ Mode = "payloads"
  <2>1. \E n \in ToSet(Versions) : Current = Job("payloads", n)
    BY <1>3, <1>6 DEF JobsIn, Named
  <2> QED
    BY <1>1, <1>2, <1>3, <1>6, <2>1 DEF Job
<1>7. CASE mode = 3 /\ Mode = "hosted"
  <2>1. \/ \E n \in ToSet(NodeProfiles) : Current = Job("nodepool", n)
        \/ \E n \in ToSet(Versions) : Current = Job("nodepool@", n)
        \/ Current = Job("size", "nodepool")
        \/ \E n \in ToSet(PlatformProfiles) : Current = Job("hosted", n)
    BY <1>3, <1>7 DEF JobsIn, Named
  <2> QED
    BY <1>1, <1>2, <1>3, <1>7, <2>1 DEF Job
<1>8. CASE mode = 4 /\ Mode = "arch"
  <2>1. \/ \E n \in ToSet(Archs) : Current = Job("arch", n)
        \/ Current = Job("compare", "arch")
        \/ Current = Job("schema", "arch")
    BY <1>3, <1>8 DEF JobsIn, Named
  <2> QED
    BY <1>1, <1>2, <1>3, <1>8, <2>1 DEF Job
<1> QED
  BY <1>4, <1>5, <1>6, <1>7, <1>8

LEMMA SilentAre ==
    /\ \A c \in Silent(1) : c = "kubeletconfig-pool-selector" /\ Empty("node")
    /\ \A c \in Silent(2) : c = "no-template-syntax" /\ Empty("node")
    /\ \A c \in Silent(3) : \/ c = "nodepool-configmap-shape" /\ Empty("node")
                            \/ c = "hostedcluster-shape" /\ Empty("platform")
    /\ \A c \in Silent(4) : c = "arch-excludes-objects" /\ Empty("node")
BY ModesAre DEF Silent, Telltale

\* The payloads a step has counted and seen, if nothing failed.
Worked(R, D) ==
    /\ {r \in R : r.check = "no-template-syntax" /\ ~ r.bad}
           = {Result("no-template-syntax", f, FALSE) :
                 f \in {g \in PayloadsIn(Current) : Digest(ScopeOf[Mode], g) \notin seen}}
    /\ {x \in D : x[1] # "ignition"} = {Digest(ScopeOf[Mode], f) : f \in PayloadsIn(Current)}

\* A job is over, with its results, the checks it skipped and what it has seen.
Stepped(R, S, D) ==
    /\ pc = "run" /\ mode \in 1..4 /\ next \in 1..Len(Jobs[Mode])
    /\ Report(R, S, D)
    /\ IsFiniteSet(R)
    /\ S \subseteq Tools \ machine.tools
    /\ Wrong(Current) => Alarm'
    /\ \A x \in D : Bad(x) => Alarm'
    /\ \A c \in Silent(mode) : \A r \in R : r.check = c => r.bad
    /\ Mode \in {"payloads", "hosted"} /\ errors' = {} => Worked(R, D)
    /\ Mode \notin {"payloads", "hosted"} => D = {}

\* What a job does to the counts per architecture.
Tallied ==
    \/ UNCHANGED counts /\ (Current.kind = "arch" => errors' # {})
    \/ /\ Current.kind = "arch"
       /\ counts' = [a \in DOMAIN counts \cup {Current.name} |->
                        IF a = Current.name THEN Len(Overlaid(a)) ELSE counts[a]]

LEMMA FailSteps ==
    ASSUME TypeOK, TallyInv, ExitInv, NEW kind, Doing(kind), NEW what, Fail(what)
    PROVE  /\ errors' # {}
           /\ \E R, S, D : Stepped(R, S, D)
<1> DEFINE R == {Result(what, "render", TRUE)}
<1>1. Report(R, {}, {})
  BY DEF Fail
<1>2. errors' # {} /\ Alarm'
  <2>1. \E r \in R : r.bad
    BY DEF Result
  <2> HIDE DEF R
  <2> QED
    BY <1>1, <2>1, ReportAlarms
<1>3. IsFiniteSet(R)
  BY FS_Singleton
<1>4. \A r \in R : r.bad
  BY DEF Result
<1> HIDE DEF R
<1>5. Stepped(R, {}, {})
  BY <1>1, <1>2, <1>3, <1>4, Located DEF Stepped
<1> QED
  BY <1>2, <1>5

LEMMA OutputsSound ==
    ASSUME TypeOK, TallyInv, ExitInv, NEW kind, Doing(kind), NEW chart, NEW how,
           \/ kind = chart /\ chart \in {"platform", "node"} /\ how = "direct"
           \/ kind = "payloads" /\ chart = "node" /\ how = "direct"
           \/ kind = "nodepool" /\ chart = "node" /\ how \in {"nodepool", "again"}
           \/ kind = "nodepool@" /\ chart = "node" /\ how = "nodepool"
           \/ kind = "hosted" /\ chart = "platform" /\ how \in {"management", "guest"}
           \/ kind = "arch" /\ chart = "node" /\ how \in {"overlay", "bare"}
    PROVE  /\ Documents(Out(chart, how).docs)
           /\ Out(chart, how) = Output(Current, chart, how)
           /\ Empty(chart) => Out(chart, how).docs = <<>>
           /\ chart = "platform" => KubeletConfigs(Out(chart, how).docs) = {}
<1> DEFINE id == Render(chart, Current.name, how)
<1>1. id \in Renders
  BY Located, RendersAre
<1>2. id[1] = chart
  BY DEF Render
<1> HIDE DEF id
<1>3. Documents(release.out[id].docs)
  BY <1>1 DEF TallyInv, Charts
<1>4. Empty(chart) => release.out[id].docs = <<>>
  BY <1>1, <1>2 DEF Empty
<1>5. chart = "platform" => KubeletConfigs(release.out[id].docs) = {}
  BY <1>1, <1>2 DEF TallyInv, Charts, KubeletConfigs
<1> QED
  BY <1>3, <1>4, <1>5 DEF id, Out, Output

\* Two contents of one file are written by two MachineConfigs of the role, or by
\* one: what check_cross_object_files compares.
LEMMA ContestedFound ==
    ASSUME NEW objects, Sound(objects), Contested(objects)
    PROVE  WrittenDifferently(objects)
<1> DEFINE Of(role) == {c \in MachineConfigs(objects) : c.role = role}
<1>1. PICK role : \E f, g \in UNION {d.files : d \in Of(role)} : f.path = g.path /\ f # g
  BY DEF Contested
<1>2. PICK c, d \in Of(role) : \E f \in c.files, g \in d.files : f.path = g.path /\ f # g
  BY <1>1
<1>3. PICK f \in c.files, g \in d.files : f.path = g.path /\ f # g
  BY <1>2
<1>4. c \in objects /\ d \in objects
  BY DEF MachineConfigs
<1>5. f = [path |-> f.path, body |-> f.body] /\ g = [path |-> g.path, body |-> g.body]
  BY <1>4 DEF Sound
<1>6. f.body # g.body
  BY <1>3, <1>5
<1> QED
  BY <1>3, <1>6 DEF WrittenDifferently

\* The checks of a whole output.
LEMMA OutputChecks ==
    ASSUME NEW objects, NEW on, NEW keep
    PROVE  /\ IsFiniteSet(ObjectHasBody(objects, on)) /\ IsFiniteSet(SelectorLabel(objects, on))
           /\ IsFiniteSet(ResourcePolicy(objects, on, keep))
           /\ IsFiniteSet(CrossObjectFiles(objects, on))
           /\ Flawed(objects, "body") => \E r \in ObjectHasBody(objects, on) : r.bad
           /\ Flawed(objects, "label") => \E r \in SelectorLabel(objects, on) : r.bad
           /\ Unkept(objects, keep) => \E r \in ResourcePolicy(objects, on, keep) : r.bad
           /\ Sound(objects) /\ Contested(objects) => \E r \in CrossObjectFiles(objects, on) : r.bad
           /\ \A r \in ObjectHasBody(objects, on) : r.check = "object-has-body"
           /\ \A r \in SelectorLabel(objects, on) : r.check = "selector-label"
           /\ \A r \in ResourcePolicy(objects, on, keep) :
                  r.check \in {"resource-policy-keep", "resource-policy-absent"}
           /\ \A r \in CrossObjectFiles(objects, on) : r.check = "no-cross-object-file-collisions"
<1>1. /\ IsFiniteSet(ObjectHasBody(objects, on)) /\ IsFiniteSet(SelectorLabel(objects, on))
      /\ IsFiniteSet(ResourcePolicy(objects, on, keep))
      /\ IsFiniteSet(CrossObjectFiles(objects, on))
  BY FS_Singleton DEF ObjectHasBody, SelectorLabel, ResourcePolicy, CrossObjectFiles
<1>2. \A check : \A v \in BOOLEAN : /\ Result(check, on, v).bad = v
                                    /\ Result(check, on, v).check = check
  BY DEF Result
<1>3. Flawed(objects, "body") \in BOOLEAN /\ Flawed(objects, "label") \in BOOLEAN
  BY DEF Flawed
<1>4. Unkept(objects, keep) \in BOOLEAN
  BY DEF Unkept
<1>5. WrittenDifferently(objects) \in BOOLEAN
  BY DEF WrittenDifferently
<1> QED
  BY <1>1, <1>2, <1>3, <1>4, <1>5, ContestedFound
     DEF ObjectHasBody, SelectorLabel, ResourcePolicy, CrossObjectFiles

LEMMA RanOf ==
    ASSUME NEW check
    PROVE  IsFiniteSet(Ran(check)) /\ \A r \in Ran(check) : r.check = check
<1>1. IsFiniteSet({Result(check, "job", FALSE)})
  BY FS_Singleton
<1>2. Result(check, "job", FALSE).check = check
  BY DEF Result
<1> QED
  BY <1>1, <1>2 DEF Ran

LEMMA RenderProfileSteps ==
    ASSUME TypeOK, TallyInv, ExitInv, NEW chart \in {"platform", "node"}, RenderProfile(chart)
    PROVE  Tallied /\ \E R, S, D : Stepped(R, S, D)
<1> DEFINE out == Out(chart, "direct")
           objects == Objects(out)
           R == ObjectHasBody(objects, "out") \cup SelectorLabel(objects, "out")
                    \cup ResourcePolicy(objects, "out", chart = "platform")
                    \cup PoolSelectors(out.docs) \cup CrossObjectFiles(objects, "out")
                    \cup (IF Duplicated(out.docs) THEN {Result("duplicate", "out", TRUE)} ELSE {})
                    \cup Ran("render")
<1>1. Doing(chart) /\ counts' = counts
  BY DEF RenderProfile
<1>2. Tallied
  BY <1>1, Located DEF Tallied
<1>3. CASE out.refused # "no"
  BY <1>1, <1>2, <1>3, FailSteps DEF RenderProfile
<1>4. CASE out.refused = "no" /\ out.blank
  BY <1>1, <1>2, <1>4, FailSteps DEF RenderProfile
<1>5. CASE out.refused = "no" /\ ~ out.blank
  <2>1. Report(R, {}, {})
    BY <1>5 DEF RenderProfile
  <2>2. Documents(out.docs) /\ out = Output(Current, chart, "direct")
    BY <1>1, OutputsSound
  <2>3. /\ mode = 1 /\ Mode = "render" /\ pc = "run" /\ next \in 1..Len(Jobs[Mode])
        /\ Current.kind = chart
    BY <1>1, Located
  <2>4. IsFiniteSet(R)
    <3>1. /\ IsFiniteSet(ObjectHasBody(objects, "out")) /\ IsFiniteSet(SelectorLabel(objects, "out"))
          /\ IsFiniteSet(ResourcePolicy(objects, "out", chart = "platform"))
          /\ IsFiniteSet(CrossObjectFiles(objects, "out")) /\ IsFiniteSet(Ran("render"))
      BY OutputChecks, RanOf
    <3>2. IsFiniteSet(PoolSelectors(out.docs))
      BY <2>2, SelectorsFinite
    <3>3. IsFiniteSet(IF Duplicated(out.docs) THEN {Result("duplicate", "out", TRUE)} ELSE {})
      BY FS_Singleton, FS_EmptySet
    <3> QED
      BY <3>1, <3>2, <3>3, FS_Union
  <2>5. Wrong(Current) => \E r \in R : r.bad
    <3>1. SUFFICES ASSUME Wrong(Current) PROVE \E r \in R : r.bad
      OBVIOUS
    <3>2. \/ Duplicated(out.docs)
          \/ Flawed(objects, "body") \/ Flawed(objects, "label")
          \/ Unkept(objects, chart = "platform")
          \/ Unselected(out.docs) \/ Contested(objects)
      BY <1>5, <2>2, <2>3, <3>1 DEF Wrong
    <3>3. Unselected(out.docs) => \E r \in PoolSelectors(out.docs) : r.bad
      BY <2>2, SelectorsChecked
    <3>4. Duplicated(out.docs) => Result("duplicate", "out", TRUE) \in R
      OBVIOUS
    <3>5. Result("duplicate", "out", TRUE).bad
      BY DEF Result
    <3>6. Flawed(objects, "body") => \E r \in ObjectHasBody(objects, "out") : r.bad
      BY OutputChecks
    <3>7. Flawed(objects, "label") => \E r \in SelectorLabel(objects, "out") : r.bad
      BY OutputChecks
    <3>8. Unkept(objects, chart = "platform")
              => \E r \in ResourcePolicy(objects, "out", chart = "platform") : r.bad
      BY OutputChecks
    <3>9. Contested(objects) => \E r \in CrossObjectFiles(objects, "out") : r.bad
      BY <2>2, DocumentsSound, OutputChecks DEF Objects
    <3> HIDE DEF objects, out
    <3> QED
      BY <3>2, <3>3, <3>4, <3>5, <3>6, <3>7, <3>8, <3>9
  <2>6. Wrong(Current) => Alarm'
    <3> HIDE DEF R
    <3> QED
      BY <2>1, <2>5, ReportAlarms
  <2>7. \A c \in Silent(mode) : \A r \in R : r.check = c => r.bad
    <3>1. \A r \in (IF Duplicated(out.docs) THEN {Result("duplicate", "out", TRUE)} ELSE {}) :
              r.check = "duplicate"
      BY DEF Result
    <3>2. \A r \in ResourcePolicy(objects, "out", chart = "platform") :
              r.check # "kubeletconfig-pool-selector"
      BY OutputChecks
    <3>3. \A r \in ObjectHasBody(objects, "out") \cup SelectorLabel(objects, "out")
                       \cup CrossObjectFiles(objects, "out") \cup Ran("render") :
              r.check # "kubeletconfig-pool-selector"
      BY OutputChecks, RanOf
    <3>4. \A r \in R : r.check = "kubeletconfig-pool-selector" => r \in PoolSelectors(out.docs)
      BY <3>1, <3>2, <3>3
    <3>5. \A c \in Silent(mode) : c = "kubeletconfig-pool-selector" /\ Empty("node")
      BY <2>3, SilentAre
    <3>6. Empty("node") => PoolSelectors(out.docs) = {}
      <4>1. Empty("node") => KubeletConfigs(out.docs) = {}
        BY <1>1, OutputsSound DEF KubeletConfigs
      <4> QED
        BY <4>1 DEF PoolSelectors
    <3> HIDE DEF R
    <3> QED
      BY <3>4, <3>5, <3>6
  <2> HIDE DEF R
  <2>8. Stepped(R, {}, {})
    BY <2>1, <2>3, <2>4, <2>6, <2>7 DEF Stepped
  <2> QED
    BY <1>2, <2>8
<1> QED
  BY <1>3, <1>4, <1>5

\* The digests stand for the payloads, and the skipped checks lack their tools.
LEMMA PayloadsDigested ==
    ASSUME NEW objects, Sound(objects), NEW scope \in {"payload", ScopeOfHosted}
    PROVE  /\ \A f \in FilesOf(objects) : /\ Bad(Digest(scope, f)) => BadPayload(f)
                                          /\ Digest(scope, f)[1] = scope
           /\ scope # "ignition"
           /\ SkippedPayloads(objects, scope) \subseteq Tools \ machine.tools
<1>1. scope # "ignition"
  BY DEF ScopeOfHosted
<1>2. \A f \in FilesOf(objects) : Digest(scope, f) = <<scope, f.path, f.body>>
  BY DEF Digest
<1>3. \A f \in FilesOf(objects) : f = [path |-> f.path, body |-> f.body]
  BY FilesSound
<1>4. ASSUME NEW f \in FilesOf(objects), Bad(Digest(scope, f))
      PROVE  BadPayload(f)
  <2>1. BadPayload([path |-> f.path, body |-> f.body])
    BY <1>1, <1>2, <1>4 DEF Bad
  <2> QED
    BY <1>3, <2>1
<1>5. SkippedPayloads(objects, scope) \subseteq Tools \ machine.tools
  BY DEF SkippedPayloads, Installed
<1> QED
  BY <1>1, <1>2, <1>4, <1>5

LEMMA PayloadsAtSteps ==
    ASSUME TypeOK, TallyInv, ExitInv, SeenInv, PayloadsAt
    PROVE  Tallied /\ \E R, S, D : Stepped(R, S, D)
<1> DEFINE out == Out("node", "direct")
           objects == Objects(out)
           ignition == "ignition-validate" \in machine.tools
           I == IF ignition THEN IgnitionResults(objects) ELSE {}
           R == CrossObjectFiles(objects, "out") \cup FilePayloads(objects, "payload") \cup I
           S == SkippedPayloads(objects, "payload")
                    \cup (IF ignition THEN {} ELSE {"ignition-validate"})
           Configs == IF ignition THEN {<<"ignition", Ignition(d)>> : d \in MachineConfigs(objects)} ELSE {}
           D == {Digest("payload", f) : f \in FilesOf(objects)} \cup Configs
<1>1. Doing("payloads") /\ counts' = counts
  BY DEF PayloadsAt
<1>2. /\ mode = 2 /\ Mode = "payloads" /\ pc = "run" /\ next \in 1..Len(Jobs[Mode])
      /\ Current.kind = "payloads"
  BY <1>1, Located
<1>3. Tallied
  BY <1>1, <1>2 DEF Tallied
<1>4. CASE out.refused # "no"
  BY <1>1, <1>3, <1>4, FailSteps DEF PayloadsAt
<1>5. CASE out.refused = "no"
  <2>1. Report(R, S, D)
    BY <1>5 DEF PayloadsAt
  <2>2. Documents(out.docs) /\ out = Output(Current, "node", "direct")
    BY <1>1, OutputsSound
  <2>3. Sound(objects)
    BY <2>2, DocumentsSound DEF Objects
  <2>4. IsFiniteSet(R)
    <3>1. IsFiniteSet(I)
      BY <2>3, IgnitionFinite, FS_EmptySet
    <3>2. IsFiniteSet(CrossObjectFiles(objects, "out")) /\ IsFiniteSet(FilePayloads(objects, "payload"))
      BY <2>3, OutputChecks, PayloadsFinite
    <3> HIDE DEF I
    <3> QED
      BY <3>1, <3>2, FS_Union
  <2>5. S \subseteq Tools \ machine.tools
    BY <2>3, PayloadsDigested, ValidationAssumption
  <2>6. \A f \in FilesOf(objects) : BadPayload(f) => Alarm'
    <3>1. FilePayloads(objects, "payload") \subseteq R /\ SkippedPayloads(objects, "payload") \subseteq S
      OBVIOUS
    <3> HIDE DEF R, S, D, objects
    <3> QED
      BY <2>1, <2>3, <3>1, PayloadsChecked
  <2>7. ignition => \A d \in MachineConfigs(objects) : Unignitable(Ignition(d)) => Alarm'
    <3>1. ignition => IgnitionResults(objects) \subseteq R
      OBVIOUS
    <3> HIDE DEF R, S, D, objects
    <3> QED
      BY <2>1, <3>1, IgnitionChecked
  <2>8. Contested(objects) => Alarm'
    <3>1. Contested(objects) => \E r \in R : r.bad
      BY <2>3, OutputChecks
    <3> HIDE DEF R, S, D, objects
    <3> QED
      BY <2>1, <3>1, ReportAlarms
  <2>9. Wrong(Current) => Alarm'
    <3>1. Wrong(Current) => \/ Contested(objects) \/ BadPayloads(objects)
                            \/ ignition /\ \E d \in MachineConfigs(objects) : Unignitable(Ignition(d))
      BY <1>2, <1>5, <2>2 DEF Wrong, Refused
    <3> QED
      BY <2>6, <2>7, <2>8, <3>1 DEF BadPayloads
  <2>10. \A x \in D : Bad(x) => Alarm'
    <3>1. \A x \in Configs : Bad(x) => Alarm'
      BY <2>7 DEF Bad
    <3>2. \A f \in FilesOf(objects) : Bad(Digest("payload", f)) => Alarm'
      BY <2>3, <2>6, PayloadsDigested
    <3> QED
      BY <3>1, <3>2
  <2>11. \A r \in R : r.check = "no-template-syntax" => r \in FilePayloads(objects, "payload")
    <3>1. \A r \in I : r.check = "ignition-validate"
      BY DEF IgnitionResults, Result
    <3> HIDE DEF I
    <3> QED
      BY <3>1, OutputChecks
  <2>12. \A c \in Silent(mode) : \A r \in R : r.check = c => r.bad
    <3>1. \A c \in Silent(mode) : c = "no-template-syntax" /\ Empty("node")
      BY <1>2, SilentAre
    <3>2. Empty("node") => FilePayloads(objects, "payload") = {}
      <4>1. Empty("node") => objects = {}
        BY <1>1, OutputsSound DEF Objects, ToSet
      <4>2. objects = {} => Fresh(objects, "payload") = {}
        BY DEF Fresh, FilesOf, MachineConfigs
      <4> QED
        BY <4>1, <4>2 DEF FilePayloads
    <3> HIDE DEF R
    <3> QED
      BY <2>11, <3>1, <3>2
  <2>13. errors' = {} => Worked(R, D)
    <3> SUFFICES ASSUME errors' = {} PROVE Worked(R, D)
      OBVIOUS
    <3>1. PayloadsIn(Current) = FilesOf(objects) /\ ScopeOf[Mode] = "payload"
      BY <1>2, <2>2 DEF PayloadsIn, ScopeOf
    <3>2. Fresh(objects, "payload") = {g \in PayloadsIn(Current) : Digest(ScopeOf[Mode], g) \notin seen}
      BY <3>1 DEF Fresh
    <3>3. \A r \in R : ~ r.bad
      <4> HIDE DEF R
      <4> QED
        BY <2>1, ReportAlarms
    <3>4. FilePayloads(objects, "payload") \subseteq R
      OBVIOUS
    <3>5. {r \in R : r.check = "no-template-syntax" /\ ~ r.bad}
              = {Result("no-template-syntax", f, FALSE) : f \in Fresh(objects, "payload")}
      <4> HIDE DEF R, objects
      <4> QED
        BY <2>11, <3>3, <3>4, PayloadsCounted
    <3>6. {x \in D : x[1] # "ignition"} = {Digest("payload", f) : f \in FilesOf(objects)}
      <4>1. \A f \in FilesOf(objects) : Digest("payload", f)[1] # "ignition"
        BY <2>3, PayloadsDigested
      <4>2. \A x \in Configs : x[1] = "ignition"
        OBVIOUS
      <4> HIDE DEF Configs
      <4> QED
        BY <4>1, <4>2
    <3>7. {Digest("payload", f) : f \in FilesOf(objects)}
              = {Digest(ScopeOf[Mode], f) : f \in PayloadsIn(Current)}
      BY <3>1
    <3>8. {Result("no-template-syntax", f, FALSE) : f \in Fresh(objects, "payload")}
              = {Result("no-template-syntax", f, FALSE) :
                    f \in {g \in PayloadsIn(Current) : Digest(ScopeOf[Mode], g) \notin seen}}
      BY <3>2
    <3> HIDE DEF R, D, objects
    <3> QED
      BY <3>5, <3>6, <3>7, <3>8 DEF Worked
  <2> HIDE DEF R, S, D
  <2>14. Stepped(R, S, D)
    BY <1>2, <2>1, <2>4, <2>5, <2>9, <2>10, <2>12, <2>13 DEF Stepped
  <2> QED
    BY <1>3, <2>14
<1> QED
  BY <1>4, <1>5

LEMMA PayloadNames ==
    ASSUME NEW objects, Sound(objects), NEW scope
    PROVE  \A r \in FilePayloads(objects, scope) : r.check # "hostedcluster-shape"
<1>1. \A f \in FilesOf(objects) : \A c \in OwnersOf(f) : c # "hostedcluster-shape"
  <2> TAKE f \in FilesOf(objects)
  <2>1. Owner[f.path] \in DOMAIN Rejects \cup {"audit", "none"}
    BY FilesSound, ValidationAssumption
  <2>2. \A c \in OwnersOf(f) : c \in {"ausyscall", "audit-rule-shape", "auditctl -R"} \cup DOMAIN Rejects
    BY <2>1 DEF OwnersOf
  <2>3. "hostedcluster-shape" \notin DOMAIN Rejects
    BY ValidationAssumption
  <2> QED
    BY <2>2, <2>3
<1>2. \A r \in FilePayloads(objects, scope) :
          \E f \in FilesOf(objects) : \E c \in OwnersOf(f) \cup {"no-template-syntax"} : r.check = c
  BY DEF FilePayloads, Fresh, Result
<1> QED
  BY <1>1, <1>2

LEMMA InnerSound ==
    ASSUME NEW docs, Documents(docs)
    PROVE  Sound(Wrapped(docs))
<1>1. Sound({})
  BY FS_EmptySet DEF Sound
<1> QED
  BY <1>1, DocumentsSound DEF Wrapped

LEMMA UnwrappingNames ==
    ASSUME NEW docs
    PROVE  \A r \in Unwrapping(docs) : r.check \in {"unwrap", "nodepool-configmap-shape", "foreign object"}
<1>1. \A r \in Ran("nodepool-configmap-shape") : r.check = "nodepool-configmap-shape"
  BY RanOf
<1>2. \A o : Result("foreign object", o, TRUE).check = "foreign object"
  BY DEF Result
<1>3. Result("unwrap", "out", TRUE).check = "unwrap"
  BY DEF Result
<1> QED
  BY <1>1, <1>2, <1>3 DEF Unwrapping

\* What is wrong with the ConfigMaps of a NodePool.
FaultyNodepool(docs) ==
    \/ Unusable(docs)
    \/ \E obj \in Inner(docs) : Foreign(obj)
    \/ Contested(Inner(docs))
    \/ BadPayloads(Inner(docs))

LEMMA WrappedChecked ==
    ASSUME NEW docs, Documents(docs), SeenInv, NEW R, NEW S, NEW D, Report(R, S, D),
           Unwrapping(docs) \subseteq R, WrappedPayloads(Wrapped(docs)) \subseteq R,
           S = SkippedPayloads(Wrapped(docs), ScopeOfHosted), D = DigestsOf(Wrapped(docs)),
           \A r \in R : r.check = "no-template-syntax" => r \in FilePayloads(Wrapped(docs), ScopeOfHosted)
    PROVE  /\ FaultyNodepool(docs) => Alarm'
           /\ \A x \in D : Bad(x) => Alarm'
           /\ S \subseteq Tools \ machine.tools
           /\ Mode = "hosted" /\ errors' = {} /\ PayloadsIn(Current) = FilesOf(Inner(docs)) => Worked(R, D)
<1> DEFINE wrapped == Wrapped(docs)
<1>1. Sound(wrapped)
  BY InnerSound
<1>2. Unusable(docs) => errors' # {}
  <2>1. Unusable(docs) => Result("unwrap", "out", TRUE) \in R
    BY DEF Unwrapping
  <2> QED
    BY <2>1, ReportAlarms DEF Result
<1>3. ~ Unusable(docs) => wrapped = Inner(docs)
  BY DEF Wrapped
<1>4. ASSUME ~ Unusable(docs), NEW obj \in Inner(docs), Foreign(obj)
      PROVE  Alarm'
  <2>1. Result("foreign object", obj, TRUE) \in R
    BY <1>4 DEF Unwrapping
  <2>2. Result("foreign object", obj, TRUE).bad
    BY DEF Result
  <2>3. errors' # {}
    BY <2>1, <2>2, ReportAlarms
  <2> QED
    BY <2>3, ReportAlarms
<1>5. FilePayloads(wrapped, ScopeOfHosted) \subseteq R /\ CrossObjectFiles(wrapped, "inner") \subseteq R
  BY DEF WrappedPayloads
<1> HIDE DEF wrapped
<1>6. \A f \in FilesOf(wrapped) : BadPayload(f) => Alarm'
  BY <1>1, <1>5, PayloadsChecked DEF wrapped
<1>7. Contested(wrapped) => Alarm'
  <2>1. Contested(wrapped) => \E r \in R : r.bad
    BY <1>1, <1>5, OutputChecks
  <2> QED
    BY <2>1, ReportAlarms
<1>8. \A x \in D : Bad(x) => Alarm'
  <2>1. D = {Digest(ScopeOfHosted, f) : f \in FilesOf(wrapped)}
    BY DEF DigestsOf, wrapped
  <2> QED
    BY <1>1, <1>6, <2>1, PayloadsDigested
<1>9. S \subseteq Tools \ machine.tools
  BY <1>1, PayloadsDigested DEF wrapped
<1>10. ASSUME Mode = "hosted", errors' = {}, PayloadsIn(Current) = FilesOf(Inner(docs))
       PROVE  Worked(R, D)
  <2>1. PayloadsIn(Current) = FilesOf(wrapped) /\ ScopeOf[Mode] = ScopeOfHosted
    BY <1>2, <1>3, <1>10 DEF ScopeOf
  <2>2. Fresh(wrapped, ScopeOfHosted) = {g \in PayloadsIn(Current) : Digest(ScopeOf[Mode], g) \notin seen}
    BY <2>1 DEF Fresh
  <2>3. \A r \in R : ~ r.bad
    BY <1>10, ReportAlarms
  <2>4. {r \in R : r.check = "no-template-syntax" /\ ~ r.bad}
            = {Result("no-template-syntax", f, FALSE) : f \in Fresh(wrapped, ScopeOfHosted)}
    BY <1>5, <2>3, PayloadsCounted DEF wrapped
  <2>5. D = {Digest(ScopeOf[Mode], f) : f \in PayloadsIn(Current)}
    BY <2>1 DEF DigestsOf, wrapped
  <2>6. \A x \in D : x[1] # "ignition"
    BY <1>1, PayloadsDigested DEF DigestsOf, wrapped
  <2>7. {x \in D : x[1] # "ignition"} = {Digest(ScopeOf[Mode], f) : f \in PayloadsIn(Current)}
    BY <2>5, <2>6
  <2>8. {Result("no-template-syntax", f, FALSE) : f \in Fresh(wrapped, ScopeOfHosted)}
            = {Result("no-template-syntax", f, FALSE) :
                  f \in {g \in PayloadsIn(Current) : Digest(ScopeOf[Mode], g) \notin seen}}
    BY <2>2
  <2> QED
    BY <2>4, <2>7, <2>8 DEF Worked
<1>11. FaultyNodepool(docs) => Alarm'
  BY <1>2, <1>3, <1>4, <1>6, <1>7, ReportAlarms DEF FaultyNodepool, BadPayloads
<1> QED
  BY <1>8, <1>9, <1>10, <1>11

LEMMA WrappedFinite ==
    ASSUME NEW docs, Documents(docs)
    PROVE  /\ IsFiniteSet(Unwrapping(docs))
           /\ IsFiniteSet(WrappedPayloads(Wrapped(docs)))
<1>1. IsFiniteSet(CrossObjectFiles(Wrapped(docs), "inner"))
  BY OutputChecks
<1>2. IsFiniteSet(FilePayloads(Wrapped(docs), ScopeOfHosted))
  BY InnerSound, PayloadsFinite
<1> QED
  BY <1>1, <1>2, UnwrappingFinite, FS_Union DEF WrappedPayloads

\* A NodePool of nothing is not held to the checks of what it holds.
LEMMA WrappedSilent ==
    ASSUME NEW docs, Documents(docs)
    PROVE  /\ docs = <<>> => \A r \in Unwrapping(docs) \cup WrappedPayloads(Wrapped(docs)) :
                                 r.check # "nodepool-configmap-shape"
           /\ \A r \in Unwrapping(docs) \cup WrappedPayloads(Wrapped(docs)) :
                  r.check # "hostedcluster-shape"
<1>1. docs = <<>> => Inner(docs) = {}
  BY DEF Inner
<1>2. docs = <<>> => Wrapped(docs) = {}
  BY <1>1 DEF Wrapped
<1>3. docs = <<>> => FilePayloads(Wrapped(docs), ScopeOfHosted) = {}
  <2>1. docs = <<>> => Fresh(Wrapped(docs), ScopeOfHosted) = {}
    BY <1>2 DEF Fresh, FilesOf, MachineConfigs
  <2> QED
    BY <2>1 DEF FilePayloads
<1>4. docs = <<>> => \A r \in Unwrapping(docs) : r.check # "nodepool-configmap-shape"
  <2>1. docs = <<>> => Unwrapping(docs) \subseteq {Result("unwrap", "out", TRUE)}
    BY <1>1 DEF Unwrapping
  <2>2. Result("unwrap", "out", TRUE).check # "nodepool-configmap-shape"
    BY DEF Result
  <2> QED
    BY <2>1, <2>2
<1>5. \A r \in FilePayloads(Wrapped(docs), ScopeOfHosted) : r.check # "hostedcluster-shape"
  BY InnerSound, PayloadNames
<1> QED
  BY <1>3, <1>4, <1>5, UnwrappingNames, OutputChecks DEF WrappedPayloads

LEMMA NodepoolAtSteps ==
    ASSUME TypeOK, TallyInv, ExitInv, SeenInv, NodepoolAt
    PROVE  Tallied /\ \E R, S, D : Stepped(R, S, D)
<1> DEFINE out == Out("node", "nodepool")
           R == Unwrapping(out.docs) \cup WrappedPayloads(Wrapped(out.docs))
           S == SkippedPayloads(Wrapped(out.docs), ScopeOfHosted)
           D == DigestsOf(Wrapped(out.docs))
<1>1. Doing("nodepool@") /\ counts' = counts
  BY DEF NodepoolAt
<1>2. /\ mode = 3 /\ Mode = "hosted" /\ pc = "run" /\ next \in 1..Len(Jobs[Mode])
      /\ Current.kind = "nodepool@"
  BY <1>1, Located
<1>3. Tallied
  BY <1>1, <1>2 DEF Tallied
<1>4. CASE out.refused # "no"
  BY <1>1, <1>3, <1>4, FailSteps DEF NodepoolAt
<1>5. CASE out.refused = "no"
  <2>1. Report(R, S, D)
    BY <1>5 DEF NodepoolAt
  <2>2. Documents(out.docs) /\ out = Output(Current, "node", "nodepool")
        /\ (Empty("node") => out.docs = <<>>)
    BY <1>1, OutputsSound
  <2>3. IsFiniteSet(R)
    BY <2>2, WrappedFinite, FS_Union
  <2>4. \A r \in R : r.check = "no-template-syntax"
                         => r \in FilePayloads(Wrapped(out.docs), ScopeOfHosted)
    BY UnwrappingNames, OutputChecks DEF WrappedPayloads
  <2>5. PayloadsIn(Current) = FilesOf(Inner(out.docs))
    BY <1>2, <2>2 DEF PayloadsIn
  <2>6. Unwrapping(out.docs) \subseteq R /\ WrappedPayloads(Wrapped(out.docs)) \subseteq R
    OBVIOUS
  <2>7. \A c \in Silent(mode) : \A r \in R : r.check = c => r.bad
    BY <1>2, <2>2, SilentAre, WrappedSilent
  <2> HIDE DEF R
  <2>8. /\ FaultyNodepool(out.docs) => Alarm'
        /\ \A x \in D : Bad(x) => Alarm'
        /\ S \subseteq Tools \ machine.tools
        /\ errors' = {} => Worked(R, D)
    BY <1>2, <2>1, <2>2, <2>4, <2>5, <2>6, WrappedChecked
  <2>9. Wrong(Current) => Alarm'
    <3>1. Wrong(Current) => FaultyNodepool(out.docs)
      BY <1>2, <1>5, <2>2 DEF Wrong, Refused, FaultyNodepool
    <3> QED
      BY <2>8, <3>1
  <2>10. Stepped(R, S, D)
    BY <1>2, <2>1, <2>3, <2>7, <2>8, <2>9 DEF Stepped
  <2> QED
    BY <1>3, <2>10
<1> QED
  BY <1>4, <1>5

LEMMA NodepoolProfileSteps ==
    ASSUME TypeOK, TallyInv, ExitInv, SeenInv, NodepoolProfile
    PROVE  Tallied /\ \E R, S, D : Stepped(R, S, D)
<1> DEFINE out == Out("node", "nodepool")
           again == Out("node", "again")
           wrapped == Wrapped(out.docs)
           Stable == {Result("nodepool-render-stable", "out", again # out)}
           Outer == Stable \cup SelectorLabel(Objects(out), "out")
                        \cup ResourcePolicy(Objects(out), "out", FALSE)
           Whole == ObjectHasBody(wrapped, "inner") \cup SelectorLabel(wrapped, "inner")
           R == Stable \cup SelectorLabel(Objects(out), "out")
                    \cup ResourcePolicy(Objects(out), "out", FALSE)
                    \cup Unwrapping(out.docs)
                    \cup ObjectHasBody(wrapped, "inner") \cup SelectorLabel(wrapped, "inner")
                    \cup WrappedPayloads(wrapped) \cup Ran("hosted-render")
           S == SkippedPayloads(wrapped, ScopeOfHosted)
           D == DigestsOf(wrapped)
<1>1. Doing("nodepool") /\ counts' = counts
  BY DEF NodepoolProfile
<1>2. /\ mode = 3 /\ Mode = "hosted" /\ pc = "run" /\ next \in 1..Len(Jobs[Mode])
      /\ Current.kind = "nodepool"
  BY <1>1, Located
<1>3. Tallied
  BY <1>1, <1>2 DEF Tallied
<1>4. CASE out.refused # "no" \/ again.refused # "no"
  BY <1>1, <1>3, <1>4, FailSteps DEF NodepoolProfile
<1>5. CASE out.refused = "no" /\ again.refused = "no"
  <2>1. Report(R, S, D)
    BY <1>5 DEF NodepoolProfile
  <2>2. /\ Documents(out.docs) /\ out = Output(Current, "node", "nodepool")
        /\ again = Output(Current, "node", "again")
        /\ (Empty("node") => out.docs = <<>>)
    BY <1>1, OutputsSound
  <2>3. /\ IsFiniteSet(Stable)
        /\ \A r \in Stable : r.check = "nodepool-render-stable"
        /\ again # out => \E r \in Stable : r.bad
    <3>1. IsFiniteSet(Stable)
      BY FS_Singleton
    <3>2. \A v \in BOOLEAN : /\ Result("nodepool-render-stable", "out", v).bad = v
                             /\ Result("nodepool-render-stable", "out", v).check = "nodepool-render-stable"
      BY DEF Result
    <3> QED
      BY <3>1, <3>2
  <2>4. R = Outer \cup Whole \cup Unwrapping(out.docs) \cup WrappedPayloads(wrapped)
                \cup Ran("hosted-render")
    OBVIOUS
  <2>5. IsFiniteSet(Outer) /\ IsFiniteSet(Whole)
    <3> HIDE DEF Stable, wrapped
    <3> QED
      BY <2>3, OutputChecks, FS_Union
  <2>6. \A r \in Outer \cup Whole \cup Ran("hosted-render") :
            r.check \notin {"no-template-syntax", "nodepool-configmap-shape", "hostedcluster-shape"}
    <3> HIDE DEF Stable, wrapped
    <3> QED
      BY <2>3, OutputChecks, RanOf
  <2>7. \/ again # out \/ Flawed(Objects(out), "label") \/ Unkept(Objects(out), FALSE)
            => \E r \in Outer : r.bad
    <3> HIDE DEF Stable, again, out
    <3> QED
      BY <2>3, OutputChecks
  <2>8. Flawed(wrapped, "body") \/ Flawed(wrapped, "label") => \E r \in Whole : r.bad
    <3> HIDE DEF wrapped
    <3>1. Flawed(wrapped, "body") => \E r \in ObjectHasBody(wrapped, "inner") : r.bad
      BY OutputChecks
    <3>2. Flawed(wrapped, "label") => \E r \in SelectorLabel(wrapped, "inner") : r.bad
      BY OutputChecks
    <3> QED
      BY <3>1, <3>2
  <2> HIDE DEF R, Outer, Whole, Stable
  <2>9. IsFiniteSet(R)
    BY <2>2, <2>4, <2>5, WrappedFinite, RanOf, FS_Union
  <2>10. \A r \in R : r.check = "no-template-syntax" => r \in FilePayloads(wrapped, ScopeOfHosted)
    BY <2>4, <2>6, UnwrappingNames, OutputChecks DEF WrappedPayloads
  <2>11. PayloadsIn(Current) = FilesOf(Inner(out.docs))
    BY <1>2, <2>2 DEF PayloadsIn
  <2>12. \A c \in Silent(mode) : \A r \in R : r.check = c => r.bad
    BY <1>2, <2>2, <2>4, <2>6, SilentAre, WrappedSilent
  <2>13. /\ FaultyNodepool(out.docs) => Alarm'
         /\ \A x \in D : Bad(x) => Alarm'
         /\ S \subseteq Tools \ machine.tools
         /\ errors' = {} => Worked(R, D)
    BY <1>2, <2>1, <2>2, <2>4, <2>10, <2>11, WrappedChecked
  <2>14. (\E r \in Outer \cup Whole : r.bad) => Alarm'
    BY <2>1, <2>4, ReportAlarms
  <2>15. Wrong(Current) => Alarm'
    <3>1. Wrong(Current) => \/ FaultyNodepool(out.docs)
                            \/ again # out
                            \/ Flawed(Objects(out), "label") \/ Unkept(Objects(out), FALSE)
                            \/ Flawed(Inner(out.docs), "body") \/ Flawed(Inner(out.docs), "label")
      BY <1>2, <1>5, <2>2 DEF Wrong, Refused, Objects, FaultyNodepool
    <3>2. FaultyNodepool(out.docs) \/ wrapped = Inner(out.docs)
      BY DEF Wrapped, FaultyNodepool
    <3> QED
      BY <2>7, <2>8, <2>13, <2>14, <3>1, <3>2
  <2>16. Stepped(R, S, D)
    BY <1>2, <2>1, <2>9, <2>12, <2>13, <2>15 DEF Stepped
  <2> QED
    BY <1>3, <2>16
<1> QED
  BY <1>4, <1>5

LEMMA SingleSteps ==
    ASSUME TypeOK, TallyInv, ExitInv, NEW kind, Doing(kind),
           NEW check \in {"nodepool-size-refused", "schema-rejects-bad-arch"}, NEW v \in BOOLEAN,
           Report({Result(check, "out", v)}, {}, {}), Wrong(Current) => v, PayloadsIn(Current) = {}
    PROVE  \E R, S, D : Stepped(R, S, D)
<1> DEFINE R == {Result(check, "out", v)}
<1>1. IsFiniteSet(R)
  BY FS_Singleton
<1>2. \A r \in R : r.check = check /\ r.bad = v
  BY DEF Result
<1>3. R # {}
  OBVIOUS
<1> HIDE DEF R
<1>4. Report(R, {}, {})
  BY DEF R
<1>5. pc = "run" /\ mode \in 1..4 /\ next \in 1..Len(Jobs[Mode])
  BY Located
<1>6. Wrong(Current) => Alarm'
  BY <1>2, <1>3, <1>4, ReportAlarms
<1>7. \A c \in Silent(mode) : c # check
  BY <1>5, SilentAre
<1>8. Worked(R, {})
  <2>1. {r \in R : r.check = "no-template-syntax" /\ ~ r.bad} = {}
    BY <1>2
  <2> QED
    BY <2>1 DEF Worked
<1>9. Stepped(R, {}, {})
  BY <1>1, <1>2, <1>4, <1>5, <1>6, <1>7, <1>8 DEF Stepped
<1> QED
  BY <1>9

LEMMA SizeRefusedSteps ==
    ASSUME TypeOK, TallyInv, ExitInv, SizeRefused
    PROVE  Tallied /\ \E R, S, D : Stepped(R, S, D)
<1> DEFINE v == release.size # "over the limit"
<1>1. Doing("size") /\ counts' = counts /\ Current.kind = "size"
  BY Located DEF SizeRefused
<1>2. Wrong(Current) => v
  BY <1>1 DEF Wrong
<1>3. PayloadsIn(Current) = {}
  BY <1>1 DEF PayloadsIn
<1>4. Report({Result("nodepool-size-refused", "out", v)}, {}, {}) /\ v \in BOOLEAN
  BY DEF SizeRefused
<1> HIDE DEF v
<1> QED
  BY <1>1, <1>2, <1>3, <1>4, SingleSteps DEF Tallied

LEMMA SchemaTypoSteps ==
    ASSUME TypeOK, TallyInv, ExitInv, SchemaTypo
    PROVE  Tallied /\ \E R, S, D : Stepped(R, S, D)
<1> DEFINE v == ~ release.schema
<1>1. Doing("schema") /\ counts' = counts /\ Current.kind = "schema"
  BY Located DEF SchemaTypo
<1>2. Wrong(Current) => v
  BY <1>1 DEF Wrong
<1>3. PayloadsIn(Current) = {}
  BY <1>1 DEF PayloadsIn
<1>4. Report({Result("schema-rejects-bad-arch", "out", v)}, {}, {}) /\ v \in BOOLEAN
  BY DEF SchemaTypo
<1> HIDE DEF v
<1> QED
  BY <1>1, <1>2, <1>3, <1>4, SingleSteps DEF Tallied

LEMMA OwnedChecks ==
    ASSUME NEW docs, NEW on
    PROVE  /\ IsFiniteSet(Owned(docs, on))
           /\ \A r \in Owned(docs, on) :
                  r.check \in {"selector-label", "resource-policy-keep", "resource-policy-absent"}
           /\ Flawed(ToSet(docs), "label") \/ Unkept(ToSet(docs), TRUE)
                  => \E r \in Owned(docs, on) : r.bad
<1>1. CASE docs = <<>>
  <2>1. Owned(docs, on) = {} /\ ToSet(docs) = {}
    BY <1>1 DEF Owned, ToSet
  <2> QED
    BY <2>1, FS_EmptySet DEF Flawed, Unkept
<1>2. CASE docs # <<>>
  <2>1. Owned(docs, on) = SelectorLabel(ToSet(docs), on) \cup ResourcePolicy(ToSet(docs), on, TRUE)
    BY <1>2 DEF Owned
  <2>2. IsFiniteSet(SelectorLabel(ToSet(docs), on)) /\ IsFiniteSet(ResourcePolicy(ToSet(docs), on, TRUE))
    BY OutputChecks
  <2>3. IsFiniteSet(Owned(docs, on))
    BY <2>1, <2>2, FS_Union
  <2>4. /\ \A r \in SelectorLabel(ToSet(docs), on) : r.check = "selector-label"
        /\ \A r \in ResourcePolicy(ToSet(docs), on, TRUE) :
               r.check \in {"resource-policy-keep", "resource-policy-absent"}
        /\ Flawed(ToSet(docs), "label") => \E r \in SelectorLabel(ToSet(docs), on) : r.bad
        /\ Unkept(ToSet(docs), TRUE) => \E r \in ResourcePolicy(ToSet(docs), on, TRUE) : r.bad
    BY OutputChecks
  <2> QED
    BY <2>1, <2>3, <2>4
<1> QED
  BY <1>1, <1>2

LEMMA ShapeChecks ==
    ASSUME NEW docs
    PROVE  /\ IsFiniteSet(HostedShape(docs))
           /\ \A r \in HostedShape(docs) : r.check = "hostedcluster-shape" /\ docs # <<>>
           /\ docs # <<>> /\ ~ OneHostedCluster(docs) => \E r \in HostedShape(docs) : r.bad
<1> DEFINE v == ~ OneHostedCluster(docs)
<1>1. HostedShape(docs) = IF docs = <<>> THEN {} ELSE {Result("hostedcluster-shape", "management", v)}
  BY DEF HostedShape
<1>2. v \in BOOLEAN
  OBVIOUS
<1> HIDE DEF v
<1>3. /\ Result("hostedcluster-shape", "management", v).check = "hostedcluster-shape"
      /\ Result("hostedcluster-shape", "management", v).bad = v
  BY DEF Result
<1>4. IsFiniteSet(HostedShape(docs))
  <2>1. IsFiniteSet({}) /\ IsFiniteSet({Result("hostedcluster-shape", "management", v)})
    BY FS_Singleton, FS_EmptySet
  <2> QED
    BY <1>1, <2>1
<1> QED
  BY <1>1, <1>2, <1>3, <1>4 DEF v

LEMMA HostedProfileSteps ==
    ASSUME TypeOK, TallyInv, ExitInv, HostedProfile
    PROVE  Tallied /\ \E R, S, D : Stepped(R, S, D)
<1> DEFINE management == Out("platform", "management").docs
           guest == Out("platform", "guest").docs
           Misplaced == {Result("in the guest", i, TRUE) : i \in OnManagement(guest)}
           R == HostedShape(management) \cup Owned(management, "management")
                    \cup {Result("in the guest", i, TRUE) : i \in OnManagement(guest)}
                    \cup Owned(guest, "guest") \cup Ran("hosted-render")
<1>1. Doing("hosted") /\ counts' = counts
  BY DEF HostedProfile
<1>2. /\ mode = 3 /\ Mode = "hosted" /\ pc = "run" /\ next \in 1..Len(Jobs[Mode])
      /\ Current.kind = "hosted"
  BY <1>1, Located
<1>3. Tallied
  BY <1>1, <1>2 DEF Tallied
<1>4. CASE \E how \in {"management", "guest"} : Out("platform", how).refused # "no"
  BY <1>1, <1>3, <1>4, FailSteps DEF HostedProfile
<1>5. CASE ~ \E how \in {"management", "guest"} : Out("platform", how).refused # "no"
  <2>1. Report(R, {}, {})
    BY <1>5 DEF HostedProfile
  <2>2. /\ Out("platform", "management") = Output(Current, "platform", "management")
        /\ Out("platform", "guest") = Output(Current, "platform", "guest")
        /\ Documents(guest)
        /\ Empty("platform") => management = <<>>
    BY <1>1, OutputsSound
  <2>3. /\ IsFiniteSet(Misplaced)
        /\ \A r \in Misplaced : r.check = "in the guest" /\ r.bad
        /\ OnManagement(guest) # {} => Misplaced # {}
    <3> DEFINE g == [i \in OnManagement(guest) |-> Result("in the guest", i, TRUE)]
    <3>1. IsFiniteSet(OnManagement(guest))
      BY <2>2, DocumentsSound, FS_Subset DEF OnManagement
    <3>2. IsFiniteSet({g[i] : i \in OnManagement(guest)})
      BY <3>1, FiniteImage
    <3>3. {g[i] : i \in OnManagement(guest)} = Misplaced
      OBVIOUS
    <3>4. \A i : /\ Result("in the guest", i, TRUE).check = "in the guest"
                 /\ Result("in the guest", i, TRUE).bad
      BY DEF Result
    <3> QED
      BY <3>2, <3>3, <3>4
  <2>4. R = HostedShape(management) \cup Owned(management, "management") \cup Misplaced
                \cup Owned(guest, "guest") \cup Ran("hosted-render")
    OBVIOUS
  <2>5. Wrong(Current) =>
            \/ management # <<>> /\ ~ OneHostedCluster(management)
            \/ Flawed(ToSet(management), "label") \/ Unkept(ToSet(management), TRUE)
            \/ Flawed(ToSet(guest), "label") \/ Unkept(ToSet(guest), TRUE)
            \/ OnManagement(guest) # {}
    <3>1. ~ Refused(Current, "platform", {"management", "guest"})
      BY <1>5, <2>2 DEF Refused
    <3> QED
      BY <1>2, <2>2, <3>1 DEF Wrong
  <2> HIDE DEF R, Misplaced, management, guest
  <2>6. IsFiniteSet(R)
    BY <2>3, <2>4, ShapeChecks, OwnedChecks, RanOf, FS_Union
  <2>7. Wrong(Current) => Alarm'
    <3>1. Wrong(Current) => \E r \in R : r.bad
      BY <2>3, <2>4, <2>5, ShapeChecks, OwnedChecks
    <3> QED
      BY <2>1, <3>1, ReportAlarms
  <2>8. \A r \in R : /\ r.check \notin {"no-template-syntax", "nodepool-configmap-shape"}
                     /\ r.check = "hostedcluster-shape" => ~ Empty("platform")
    BY <2>2, <2>3, <2>4, ShapeChecks, OwnedChecks, RanOf DEF management
  <2>9. \A c \in Silent(mode) : \A r \in R : r.check = c => r.bad
    BY <1>2, <2>8, SilentAre
  <2>10. Worked(R, {})
    <3>1. PayloadsIn(Current) = {}
      BY <1>2 DEF PayloadsIn
    <3>2. {r \in R : r.check = "no-template-syntax" /\ ~ r.bad} = {}
      BY <2>8
    <3> QED
      BY <3>1, <3>2 DEF Worked
  <2>11. Stepped(R, {}, {})
    BY <1>2, <2>1, <2>6, <2>7, <2>9, <2>10 DEF Stepped
  <2> QED
    BY <1>3, <2>11
<1> QED
  BY <1>4, <1>5

LEMMA ArchRenderSteps ==
    ASSUME TypeOK, TallyInv, ExitInv, ArchRender
    PROVE  Tallied /\ \E R, S, D : Stepped(R, S, D)
<1> DEFINE docs == Out("node", "overlay").docs
           bare == Out("node", "bare").refused
           v == bare # "not applicable"
           Gate == IF Current.name \in release.overlays
                   THEN {Result("arch-gate-fires", "bare", v)} ELSE {}
           R == ObjectHasBody(ToSet(docs), "out") \cup PoolSelectors(docs)
                    \cup CrossObjectFiles(ToSet(docs), "out") \cup Ran("arch-render") \cup Gate
<1>1. Doing("arch")
  BY DEF ArchRender
<1>2. /\ mode = 4 /\ Mode = "arch" /\ pc = "run" /\ next \in 1..Len(Jobs[Mode])
      /\ Current.kind = "arch"
  BY <1>1, Located
<1>3. CASE Out("node", "overlay").refused # "no"
  <2>1. Fail("render failed") /\ counts' = counts
    BY <1>3 DEF ArchRender
  <2>2. errors' # {} /\ \E R_1, S, D : Stepped(R_1, S, D)
    BY <1>1, <2>1, FailSteps
  <2> QED
    BY <2>1, <2>2 DEF Tallied
<1>4. CASE Out("node", "overlay").refused = "no"
  <2>1. Report(R, {}, {})
    BY <1>4 DEF ArchRender
  <2>2. /\ Documents(docs)
        /\ Out("node", "overlay") = Output(Current, "node", "overlay")
        /\ Out("node", "bare") = Output(Current, "node", "bare")
    BY <1>1, OutputsSound
  <2>3. Tallied
    <3>1. docs = Overlaid(Current.name)
      BY DEF Out, Overlaid
    <3>2. counts' = [a \in DOMAIN counts \cup {Current.name} |->
                         IF a = Current.name THEN Len(docs) ELSE counts[a]]
      BY <1>4 DEF ArchRender
    <3> HIDE DEF docs
    <3> QED
      BY <1>2, <3>1, <3>2 DEF Tallied
  <2>4. /\ IsFiniteSet(Gate)
        /\ \A r \in Gate : r.check = "arch-gate-fires"
        /\ Current.name \in release.overlays /\ v => \E r \in Gate : r.bad
    <3>1. v \in BOOLEAN
      OBVIOUS
    <3> HIDE DEF v
    <3>2. IsFiniteSet({}) /\ IsFiniteSet({Result("arch-gate-fires", "bare", v)})
      BY FS_Singleton, FS_EmptySet
    <3>3. /\ Result("arch-gate-fires", "bare", v).check = "arch-gate-fires"
          /\ Result("arch-gate-fires", "bare", v).bad = v
      BY DEF Result
    <3> QED
      BY <3>1, <3>2, <3>3
  <2>5. Wrong(Current) => \/ Flawed(ToSet(docs), "body") \/ Unselected(docs)
                          \/ Contested(ToSet(docs))
                          \/ Current.name \in release.overlays /\ v
    BY <1>2, <1>4, <2>2 DEF Wrong, Refused
  <2> HIDE DEF v, Gate, docs
  <2>6. IsFiniteSet(R)
    <3>1. IsFiniteSet(PoolSelectors(docs))
      BY <2>2, SelectorsFinite
    <3>2. /\ IsFiniteSet(ObjectHasBody(ToSet(docs), "out"))
          /\ IsFiniteSet(CrossObjectFiles(ToSet(docs), "out")) /\ IsFiniteSet(Ran("arch-render"))
      BY OutputChecks, RanOf
    <3> QED
      BY <2>4, <3>1, <3>2, FS_Union
  <2>7. Wrong(Current) => \E r \in R : r.bad
    <3>1. Unselected(docs) => \E r \in PoolSelectors(docs) : r.bad
      BY <2>2, SelectorsChecked
    <3>2. Sound(ToSet(docs))
      BY <2>2, DocumentsSound
    <3> QED
      BY <2>4, <2>5, <3>1, <3>2, OutputChecks
  <2>8. \A r \in R : r.check # "arch-excludes-objects"
    <3>1. \A r \in PoolSelectors(docs) : r.check = "kubeletconfig-pool-selector"
      BY DEF PoolSelectors, Result
    <3> QED
      BY <2>4, <3>1, OutputChecks, RanOf
  <2> HIDE DEF R
  <2>9. Wrong(Current) => Alarm'
    BY <2>1, <2>7, ReportAlarms
  <2>10. \A c \in Silent(mode) : \A r \in R : r.check = c => r.bad
    BY <1>2, <2>8, SilentAre
  <2>11. Stepped(R, {}, {})
    BY <1>2, <2>1, <2>6, <2>9, <2>10 DEF Stepped
  <2> QED
    BY <2>3, <2>11
<1> QED
  BY <1>3, <1>4

LEMMA CompareArchsSteps ==
    ASSUME TypeOK, TallyInv, ExitInv, CountInv, CompareArchs
    PROVE  Tallied /\ \E R, S, D : Stepped(R, S, D)
<1> DEFINE Comparable == {b \in FewerArchs : {b, BaseArch} \subseteq DOMAIN counts}
           More(a) == counts[a] >= counts[BaseArch]
           R == {Result("arch-excludes-objects", a, More(a)) : a \in Comparable}
<1>1. Doing("compare") /\ counts' = counts /\ Report(R, {}, {})
  BY DEF CompareArchs
<1>2. /\ mode = 4 /\ Mode = "arch" /\ pc = "run" /\ next \in 1..Len(Jobs[Mode])
      /\ Current.kind = "compare"
  BY <1>1, Located
<1>3. Tallied
  BY <1>1, <1>2 DEF Tallied
<1>4. FewerArchs \subseteq ToSet(Archs) /\ BaseArch \in ToSet(Archs) /\ Archs \in Seq(STRING)
  BY ValidationAssumption
<1>5. IsFiniteSet(R)
  <2> DEFINE g == [a \in Comparable |-> Result("arch-excludes-objects", a, More(a))]
  <2>1. IsFiniteSet(Comparable)
    BY <1>4, FiniteList, FS_Subset
  <2>2. IsFiniteSet({g[a] : a \in Comparable})
    BY <2>1, FiniteImage
  <2> QED
    BY <2>2
<1>6. \A a \in Comparable : More(a) => \E r \in R : r.bad
  <2> TAKE a \in Comparable
  <2>1. Result("arch-excludes-objects", a, More(a)) \in R
    OBVIOUS
  <2>2. Result("arch-excludes-objects", a, More(a)).bad = More(a)
    BY DEF Result
  <2> QED
    BY <2>1, <2>2
<1>7. \A r \in R : \E a \in Comparable : r.bad = More(a)
  BY DEF Result
<1>8. \A a \in Comparable : /\ counts[a] = Len(Overlaid(a))
                            /\ counts[BaseArch] = Len(Overlaid(BaseArch))
  BY DEF CountInv
<1>9. \A a \in ToSet(Archs) : Alarm \/ a \in DOMAIN counts
  <2>1. next = Len(Archs) + 1
    <3>1. Current = Jobs["arch"][next]
      BY <1>2 DEF Current
    <3>2. Len(Archs) \in Nat /\ next \in 1..(Len(Archs) + 2)
      BY <1>2, ArchJobs
    <3>3. \A name : Job("arch", name).kind # "compare" /\ Job("schema", name).kind # "compare"
      BY DEF Job
    <3>4. \A i \in 1..Len(Archs) : Jobs["arch"][i].kind # "compare"
      BY <3>3, ArchJobs
    <3>5. Jobs["arch"][Len(Archs) + 2].kind # "compare"
      BY <3>3, ArchJobs
    <3> QED
      BY <1>2, <3>1, <3>2, <3>4, <3>5
  <2>2. Wanted(Modes[4])
    BY <1>2 DEF ExitInv, Mode
  <2>3. \A i \in DOMAIN Archs : Behind(4, i)
    BY <1>2, <1>4, <2>1, <2>2 DEF Behind
  <2> QED
    BY <2>3 DEF CountInv, ToSet
<1>10. Wrong(Current) => Alarm'
  <2> SUFFICES ASSUME Wrong(Current) PROVE Alarm'
    OBVIOUS
  <2>1. PICK a \in FewerArchs : Len(Overlaid(a)) >= Len(Overlaid(BaseArch))
    BY <1>2 DEF Wrong
  <2>2. CASE Alarm
    BY <1>1, <2>2, ReportAlarms
  <2>3. CASE ~ Alarm
    <3>1. a \in Comparable
      BY <1>4, <1>9, <2>3
    <3>2. More(a)
      BY <1>8, <2>1, <3>1
    <3>3. \E r \in R : r.bad
      BY <1>6, <3>1, <3>2
    <3> HIDE DEF R
    <3> QED
      BY <1>1, <3>3, ReportAlarms
  <2> QED
    BY <2>2, <2>3
<1>11. \A c \in Silent(mode) : \A r \in R : r.check = c => r.bad
  <2>1. \A c \in Silent(mode) : Empty("node")
    BY <1>2, SilentAre
  <2>2. Empty("node") => \A a \in ToSet(Archs) : Overlaid(a) = <<>>
    <3> SUFFICES ASSUME Empty("node"), NEW a \in ToSet(Archs) PROVE Overlaid(a) = <<>>
      OBVIOUS
    <3>1. Render("node", a, "overlay") \in Renders /\ Render("node", a, "overlay")[1] = "node"
      BY RendersAre DEF Render
    <3> QED
      BY <3>1 DEF Empty, Overlaid
  <2>3. Empty("node") => \A a \in Comparable : More(a)
    <3> SUFFICES ASSUME Empty("node"), NEW a \in Comparable PROVE More(a)
      OBVIOUS
    <3>1. counts[a] = 0 /\ counts[BaseArch] = 0
      BY <1>4, <1>8, <2>2
    <3> QED
      BY <3>1
  <2> HIDE DEF R
  <2> QED
    BY <1>7, <2>1, <2>3
<1> HIDE DEF R
<1>12. Stepped(R, {}, {})
  BY <1>1, <1>2, <1>5, <1>10, <1>11 DEF Stepped
<1> QED
  BY <1>3, <1>12

(***************************************************************************)
(* A job keeps the invariant.                                              *)
(***************************************************************************)
\* What every job leaves as it is.
LEMMA SteppedFrame ==
    ASSUME TypeOK, ExitInv, NEW R, NEW S, NEW D, Stepped(R, S, D)
    PROVE  /\ UNCHANGED input
           /\ mode' = mode /\ before' = before /\ done' = done /\ pc' = pc /\ exit' = exit
           /\ pc = "run" /\ next' = next + 1
           /\ mode \in 1..4 /\ Mode = Modes[mode] /\ Mode' = Mode /\ Mode \in ToSet(Modes)
           /\ next \in 1..Len(Jobs[Mode]) /\ Len(Jobs[Mode]) \in Nat
           /\ Current = Jobs[Mode][next] /\ Current \in JobsIn(Mode)
           /\ Doing(Current.kind)
           /\ Report(R, S, D)
<1>1. Report(R, S, D) /\ pc = "run" /\ mode \in 1..4 /\ next \in 1..Len(Jobs[Mode])
  BY DEF Stepped
<1>2. /\ UNCHANGED input /\ mode' = mode /\ before' = before /\ done' = done /\ pc' = pc
      /\ exit' = exit /\ next' = next + 1
  BY <1>1 DEF Report
<1>3. Mode = Modes[mode] /\ Mode' = Mode
  BY <1>2 DEF Mode
<1>4. Mode \in ToSet(Modes)
  BY <1>1, <1>3, ModesAre DEF ToSet
<1>5. Len(Jobs[Mode]) \in Nat /\ Jobs[Mode][next] \in JobsIn(Mode)
  BY <1>1, <1>4, JobsTyped
<1>6. Current = Jobs[Mode][next]
  BY DEF Current
<1>7. Doing(Current.kind)
  BY <1>1, <1>5 DEF Doing
<1> QED
  BY <1>1, <1>2, <1>3, <1>4, <1>5, <1>6, <1>7

LEMMA SteppedTypes ==
    ASSUME TypeOK, TallyInv, ExitInv, NEW R, NEW S, NEW D, Stepped(R, S, D), Tallied
    PROVE  TypeOK' /\ TallyInv' /\ ExitInv'
<1> USE SteppedFrame
<1>1. release' = release /\ machine' = machine /\ arg' = arg
  BY Steady
<1>2. /\ checked' \in [Checks -> Nat]
      /\ \A c \in Checks : checked'[c] \in Nat /\ checked[c] <= checked'[c]
  <2>1. IsFiniteSet(R) /\ checked \in [Checks -> Nat]
    BY DEF Stepped, TallyInv
  <2>2. checked' \in [Checks -> Nat]
    BY <2>1, ReportCounts
  <2>3. \A c \in Checks : checked[c] \in Nat
    BY <2>1
  <2>4. \A c \in Checks : \E n \in Nat : checked'[c] = checked[c] + n
    BY <2>1, ReportCounts
  <2> QED
    BY <2>2, <2>3, <2>4
<1>3. \A e \in errors' : \E m \in ToSet(Modes) : e[1] \in ToSet(Jobs[m])
  <2>1. Current \in ToSet(Jobs[Mode])
    BY JobsTyped DEF ToSet
  <2>2. \A e \in errors' : e \in errors \/ e[1] = Current
    BY DEF Report
  <2> QED
    BY <2>1, <2>2 DEF TypeOK
<1>4. skipped' \subseteq Tools \ machine.tools
  BY DEF Report, Stepped, TypeOK
<1>5. DOMAIN counts' \subseteq ToSet(Archs)
  <2>1. Current.kind = "arch" => Current.name \in ToSet(Archs)
    BY Located
  <2> QED
    BY <2>1 DEF Tallied, TypeOK
<1>6. \A c \in Checks : DoneIn(c)' = DoneIn(c)
  BY DEF DoneIn
<1>7. \A c \in Checks : before[c] \in Nat /\ checked[c] \in Nat /\ DoneIn(c) \in Nat
  BY ModesAre DEF TallyInv, DoneIn
<1>8. \A c \in Checks : /\ 0 <= before'[c] /\ before'[c] <= checked'[c]
                        /\ DoneIn(c)' <= checked'[c]
  <2> TAKE c \in Checks
  <2>1. before[c] <= checked[c] /\ DoneIn(c) <= checked[c]
    BY DEF TypeOK
  <2> QED
    BY <1>2, <1>6, <1>7, <2>1
<1>9. TypeOK'
  <2>1. DOMAIN release'.out = Renders /\ arg' \in ToSet(Modes) \cup {"all"}
    BY <1>1 DEF TypeOK
  <2>2. mode' \in 1..(Len(Modes) + 1) /\ pc' \in {"mode", "run", "exited"} /\ exit' \in {0, 1}
    BY DEF TypeOK
  <2>3. next' \in 1..(Len(Jobs[Mode']) + 1)
    OBVIOUS
  <2> QED
    BY <1>1, <1>3, <1>4, <1>5, <1>8, <2>1, <2>2, <2>3 DEF TypeOK
<1>10. TallyInv'
  BY <1>1, <1>2, <1>6 DEF TallyInv
<1>11. ExitInv'
  <2>1. \A m : Wanted(m)' <=> Wanted(m)
    BY Steady
  <2> QED
    BY <2>1 DEF ExitInv
<1> QED
  BY <1>9, <1>10, <1>11

LEMMA SteppedFaults ==
    ASSUME TypeOK, ExitInv, FaultInv, NEW R, NEW S, NEW D, Stepped(R, S, D)
    PROVE  FaultInv'
<1> USE SteppedFrame
<1> SUFFICES ASSUME NEW k \in DOMAIN Modes, NEW i \in DOMAIN Jobs[Modes[k]],
                    Behind(k, i)', Wrong(Jobs[Modes[k]][i])'
             PROVE  Alarm'
  BY DEF FaultInv
<1>1. Wrong(Jobs[Modes[k]][i])
  BY Steady
<1>2. k \in 1..4 /\ i \in Nat
  BY ModesAre, JobsTyped DEF ToSet
<1>3. Behind(k, i) \/ (k = mode /\ i = next)
  <2>1. \A m : Wanted(m)' <=> Wanted(m)
    BY Steady
  <2> QED
    BY <1>2, <2>1 DEF Behind
<1>4. CASE Behind(k, i)
  BY <1>1, <1>4, ReportAlarms DEF FaultInv
<1>5. CASE k = mode /\ i = next
  BY <1>1, <1>5 DEF Stepped
<1> QED
  BY <1>3, <1>4, <1>5

LEMMA SteppedSeen ==
    ASSUME TypeOK, ExitInv, SeenInv, NEW R, NEW S, NEW D, Stepped(R, S, D)
    PROVE  SeenInv'
<1> USE SteppedFrame
<1>1. \A x \in seen : Bad(x) => Alarm'
  BY ReportAlarms DEF SeenInv, Bad
<1>2. \A x \in seen' : Bad(x) => Alarm'
  <2>1. seen' = seen \cup D
    BY DEF Report
  <2> QED
    BY <1>1, <2>1 DEF Stepped
<1>3. machine' = machine /\ \A f : BadPayload(f)' <=> BadPayload(f)
  BY Steady
<1> QED
  BY <1>2, <1>3 DEF SeenInv, Bad

LEMMA SteppedTallies ==
    ASSUME TypeOK, ExitInv, CountInv, NEW R, NEW S, NEW D, Stepped(R, S, D), Tallied
    PROVE  CountInv'
<1> USE SteppedFrame
<1>1. \A a : Overlaid(a)' = Overlaid(a)
  BY Steady
<1>2. \A a \in DOMAIN counts' : counts'[a] = Len(Overlaid(a))
  BY DEF Tallied, CountInv
<1>3. DOMAIN counts \subseteq DOMAIN counts'
  BY DEF Tallied
<1>4. ASSUME NEW i \in DOMAIN Archs, Behind(4, i)'
      PROVE  Alarm' \/ Archs[i] \in DOMAIN counts'
  <2>1. DOMAIN Archs = 1..Len(Archs) /\ Len(Archs) \in Nat
    BY ValidationAssumption
  <2>2. Behind(4, i) \/ (4 = mode /\ i = next)
    <3>1. \A m : Wanted(m)' <=> Wanted(m)
      BY Steady
    <3> QED
      BY <1>4, <2>1, <3>1 DEF Behind
  <2>3. CASE Behind(4, i)
    BY <1>3, <2>3, ReportAlarms DEF CountInv
  <2>4. CASE 4 = mode /\ i = next
    <3>1. Current = Job("arch", Archs[i])
      BY <2>1, <2>4, ModesAre, ArchJobs
    <3>2. Current.kind = "arch" /\ Current.name = Archs[i]
      BY <3>1 DEF Job
    <3> QED
      BY <3>2, ReportAlarms DEF Tallied
  <2> QED
    BY <2>2, <2>3, <2>4
<1> QED
  BY <1>1, <1>2, <1>4 DEF CountInv

\* The payloads of a job are finitely many.
LEMMA JobPayloads ==
    ASSUME TallyInv, NEW m \in ToSet(Modes), NEW job \in JobsIn(m)
    PROVE  /\ IsFiniteSet(PayloadsIn(job))
           /\ \A f \in PayloadsIn(job) : f = [path |-> f.path, body |-> f.body]
<1>1. CASE job.kind = "payloads"
  <2>1. job.name \in ToSet(Versions)
    BY <1>1, ModesAre DEF JobsIn, Named, Job
  <2>2. Documents(Output(job, "node", "direct").docs)
    BY <2>1, RendersAre DEF Output, TallyInv, Charts
  <2> QED
    BY <1>1, <2>2, DocumentsSound, FilesSound DEF PayloadsIn, Objects
<1>2. CASE job.kind \in {"nodepool", "nodepool@"}
  <2>1. \/ job.name \in ToSet(Versions)
        \/ job.name \in ToSet(NodeProfiles)
    BY <1>2, ModesAre DEF JobsIn, Named, Job
  <2>2. Documents(Output(job, "node", "nodepool").docs)
    BY <2>1, RendersAre DEF Output, TallyInv, Charts
  <2> QED
    BY <1>2, <2>2, DocumentsSound, FilesSound DEF PayloadsIn
<1>3. CASE job.kind \notin {"payloads", "nodepool", "nodepool@"}
  <2>1. PayloadsIn(job) = {}
    BY <1>3 DEF PayloadsIn
  <2> QED
    BY <2>1, FS_EmptySet
<1> QED
  BY <1>1, <1>2, <1>3

LEMMA PayloadsBehindFinite ==
    ASSUME TallyInv, NEW k \in 1..4
    PROVE  /\ IsFiniteSet(PayloadsBehind(k))
           /\ \A f \in PayloadsBehind(k) : f = [path |-> f.path, body |-> f.body]
<1> DEFINE J == Jobs[Modes[k]]
           I == {j \in DOMAIN J : Behind(k, j)}
           g == [i \in I |-> PayloadsIn(J[i])]
<1>1. Modes[k] \in ToSet(Modes)
  BY ModesAre DEF ToSet
<1>2. /\ DOMAIN J = 1..Len(J) /\ Len(J) \in Nat
      /\ \A i \in DOMAIN J : J[i] \in JobsIn(Modes[k])
  BY <1>1, JobsTyped
<1>3. \A i \in I : /\ IsFiniteSet(PayloadsIn(J[i]))
                   /\ \A f \in PayloadsIn(J[i]) : f = [path |-> f.path, body |-> f.body]
  BY <1>1, <1>2, JobPayloads
<1>4. IsFiniteSet(I)
  <2>1. IsFiniteSet(DOMAIN J)
    BY <1>2, FS_Interval
  <2>2. I \subseteq DOMAIN J
    OBVIOUS
  <2> HIDE DEF I, J
  <2> QED
    BY <2>1, <2>2, FS_Subset
<1>5. IsFiniteSet({g[i] : i \in I})
  BY <1>4, FiniteImage
<1>6. PayloadsBehind(k) = UNION {g[i] : i \in I}
  BY DEF PayloadsBehind
<1>7. \A T \in {g[i] : i \in I} : IsFiniteSet(T)
  BY <1>3
<1>8. IsFiniteSet(PayloadsBehind(k))
  BY <1>5, <1>6, <1>7, FS_UNION
<1> QED
  BY <1>3, <1>6, <1>8

\* The results for what is fresh.
FreshOf(check, Old, Now) == {Result(check, f, FALSE) : f \in Now \ Old}

\* Counting the fresh ones counts each once.
LEMMA FreshCounted ==
    ASSUME NEW Old, IsFiniteSet(Old), NEW Now, IsFiniteSet(Now), NEW check
    PROVE  /\ Cardinality(FreshOf(check, Old, Now)) \in Nat /\ Cardinality(Old) \in Nat
           /\ Cardinality(Old \cup Now) = Cardinality(Old) + Cardinality(FreshOf(check, Old, Now))
<1> DEFINE Fr == Now \ Old
           New == {Result(check, f, FALSE) : f \in Fr}
           b == [f \in Fr |-> Result(check, f, FALSE)]
<1>1. IsFiniteSet(Fr)
  BY FS_Difference
<1>2. \A f : Result(check, f, FALSE).on = f
  BY DEF Result
<1>3. b \in Bijection(Fr, New)
  <2>1. b \in [Fr -> New]
    OBVIOUS
  <2>2. \A f, g \in Fr : b[f] = b[g] => f = g
    <3>1. \A f \in Fr : b[f].on = f
      BY <1>2
    <3> HIDE DEF b
    <3> QED
      BY <3>1
  <2>3. \A r \in New : \E f \in Fr : b[f] = r
    OBVIOUS
  <2> HIDE DEF b, New, Fr
  <2> QED
    BY <2>1, <2>2, <2>3 DEF Bijection, Injection, Surjection, IsInjective
<1>4. IsFiniteSet(New) /\ Cardinality(New) = Cardinality(Fr)
  BY <1>1, <1>3, FS_Bijection DEF ExistsBijection
<1>5. Old \cup Now = Old \cup Fr /\ Old \cap Fr = {}
  OBVIOUS
<1>6. Cardinality(Old) \in Nat /\ Cardinality(New) \in Nat
  BY <1>4, FS_CardinalityType
<1> HIDE DEF New, Fr
<1>7. Cardinality(Old \cup Fr) = Cardinality(Old) + Cardinality(Fr) - Cardinality(Old \cap Fr)
  BY <1>1, FS_Union
<1>8. Cardinality({}) = 0
  BY FS_EmptySet
<1>9. Cardinality(Old \cup Now) = Cardinality(Old) + Cardinality(New)
  <2>1. Cardinality(Old \cap Fr) = 0
    BY <1>5, <1>8
  <2>2. Cardinality(Old \cup Now) = Cardinality(Old \cup Fr)
    BY <1>5
  <2> QED
    BY <1>4, <1>6, <1>7, <2>1, <2>2
<1> QED
  BY <1>6, <1>9 DEF New, Fr, FreshOf

LEMMA ChecksAre ==
    /\ "no-template-syntax" \in Checks
    /\ \A k \in 1..4 : Silent(k) \subseteq Checks
<1>1. \A m \in ToSet(Modes) : Telltale[m] \subseteq DOMAIN FLOORS[m]
  BY ValidationAssumption
<1>2. \A k \in 1..4 : Modes[k] \in ToSet(Modes) /\ Telltale[Modes[k]] \subseteq Checks
  BY <1>1, ModesAre DEF Checks
<1>3. "no-template-syntax" \in Telltale[Modes[2]]
  BY ModesAre DEF Telltale
<1>4. "hostedcluster-shape" \in Telltale[Modes[3]]
  BY ModesAre DEF Telltale
<1> QED
  BY <1>2, <1>3, <1>4 DEF Silent

\* The payloads behind after a job.
LEMMA SteppedBehind ==
    ASSUME TypeOK, ExitInv, NEW R, NEW S, NEW D, Stepped(R, S, D), NEW k \in 1..4
    PROVE  PayloadsBehind(k)'
               = PayloadsBehind(k) \cup (IF k = mode THEN PayloadsIn(Current) ELSE {})
<1> USE SteppedFrame
<1> DEFINE J == Jobs[Modes[k]]
<1>1. Modes[k] \in ToSet(Modes) /\ DOMAIN J = 1..Len(J) /\ Len(J) \in Nat
  BY ModesAre, JobsTyped DEF ToSet
<1>2. Wanted(Mode) /\ \A m : Wanted(m)' <=> Wanted(m)
  BY Steady DEF ExitInv
<1>3. \A i \in DOMAIN J : Behind(k, i)' <=> Behind(k, i) \/ (k = mode /\ i = next)
  BY <1>1, <1>2 DEF Behind
<1>4. \A f : f \in PayloadsBehind(k) <=> \E i \in DOMAIN J : Behind(k, i) /\ f \in PayloadsIn(J[i])
  BY DEF PayloadsBehind
<1>5. \A f : f \in PayloadsBehind(k)' <=> \E i \in DOMAIN J : Behind(k, i)' /\ f \in PayloadsIn(J[i])
  <2>1. \A job : PayloadsIn(job)' = PayloadsIn(job)
    BY Steady
  <2>2. PayloadsBehind(k)' = UNION {PayloadsIn(J[i])' : i \in {j \in DOMAIN J : Behind(k, j)'}}
    BY DEF PayloadsBehind
  <2> HIDE DEF J
  <2> QED
    BY <2>1, <2>2
<1>6. k = mode => next \in DOMAIN J /\ Current = J[next]
  BY <1>1
<1> HIDE DEF J
<1>7. \A f : f \in PayloadsBehind(k)'
                 <=> f \in PayloadsBehind(k) \/ (k = mode /\ f \in PayloadsIn(Current))
  BY <1>3, <1>4, <1>5, <1>6
<1> QED
  BY <1>7

\* What a job counts.
LEMMA SteppedCounts ==
    ASSUME TypeOK, TallyInv, ExitInv, NEW R, NEW S, NEW D, Stepped(R, S, D), NEW c \in Checks
    PROVE  checked'[c] = checked[c] + Cardinality({r \in R : r.check = c /\ ~ r.bad})
<1>1. IsFiniteSet(R) /\ checked \in [Checks -> Nat] /\ Report(R, S, D)
  BY SteppedFrame DEF Stepped, TallyInv
<1> QED
  BY <1>1, ReportCounts

LEMMA SteppedWork ==
    ASSUME TypeOK, TallyInv, ExitInv, WorkInv, NEW R, NEW S, NEW D, Stepped(R, S, D)
    PROVE  WorkInv'
<1>0. checked'["no-template-syntax"] = checked["no-template-syntax"]
          + Cardinality({r \in R : r.check = "no-template-syntax" /\ ~ r.bad})
  BY ChecksAre, SteppedCounts
<1> USE SteppedFrame
<1> DEFINE syntax == "no-template-syntax"
           Seen(k) == {x \in seen : x[1] = ScopeOf[Modes[k]]}
           Seen1(k) == {x \in seen' : x[1] = ScopeOf[Modes[k]]}
           Count == checked[syntax] - before[syntax]
           Count1 == checked'[syntax] - before[syntax]
<1> SUFFICES ASSUME errors' = {}, NEW k \in {2, 3}
             PROVE  /\ Seen1(k) = {Digest(ScopeOf[Modes[k]], f) : f \in PayloadsBehind(k)'}
                    /\ mode = k => Count1 = Cardinality(PayloadsBehind(k)')
                    /\ mode > k /\ Wanted(Modes[k]) =>
                           done[Modes[k]][syntax] = Cardinality(PayloadsBehind(k)')
  <2>1. \A m : Wanted(m)' <=> Wanted(m)
    BY Steady
  <2>2. Counted'[syntax] = Count1
    BY ChecksAre DEF Counted
  <2> HIDE DEF Count1
  <2> QED
    BY <2>1, <2>2 DEF WorkInv
<1>1. errors = {}
  BY ReportAlarms
<1>2. /\ Seen(k) = {Digest(ScopeOf[Modes[k]], f) : f \in PayloadsBehind(k)}
      /\ mode = k => Count = Cardinality(PayloadsBehind(k))
      /\ mode > k /\ Wanted(Modes[k]) => done[Modes[k]][syntax] = Cardinality(PayloadsBehind(k))
  <2>1. Counted[syntax] = Count
    BY ChecksAre DEF Counted
  <2> HIDE DEF Count
  <2> QED
    BY <1>1, <2>1 DEF WorkInv
<1>3. seen' = seen \cup D
  BY DEF Report
<1>4. k \in 1..4 /\ Modes[k] \in {"payloads", "hosted"} /\ ScopeOf[Modes[k]] # "ignition"
  BY ModesAre DEF ScopeOf, ScopeOfHosted
<1>5. CASE k # mode
  <2>1. PayloadsBehind(k)' = PayloadsBehind(k)
    BY <1>4, <1>5, SteppedBehind
  <2>2. \A x \in D : x[1] # ScopeOf[Modes[k]]
    <3>1. CASE Mode \notin {"payloads", "hosted"}
      BY <3>1 DEF Stepped
    <3>2. CASE Mode \in {"payloads", "hosted"}
      <4>1. Worked(R, D)
        BY <3>2 DEF Stepped
      <4>2. \A x \in D : x[1] = "ignition" \/ \E f : x = Digest(ScopeOf[Mode], f)
        BY <4>1 DEF Worked
      <4>3. \A f : Digest(ScopeOf[Mode], f)[1] = ScopeOf[Mode]
        BY DEF Digest
      <4>4. ScopeOf[Mode] # ScopeOf[Modes[k]]
        BY <1>4, <1>5, <3>2, ModesAre DEF ScopeOf, ScopeOfHosted
      <4> QED
        BY <1>4, <4>2, <4>3, <4>4
    <3> QED
      BY <3>1, <3>2
  <2>3. Seen1(k) = Seen(k)
    BY <1>3, <2>2
  <2> QED
    BY <1>2, <1>5, <2>1, <2>3
<1>6. CASE k = mode
  <2> DEFINE sc == ScopeOf[Mode]
             P == PayloadsIn(Current)
             Old == PayloadsBehind(k)
             New == FreshOf(syntax, Old, P)
  <2>1. Worked(R, D) /\ sc # "ignition"
    BY <1>4, <1>6 DEF Stepped
  <2>2. PayloadsBehind(k)' = Old \cup P
    BY <1>4, <1>6, SteppedBehind
  <2>3. /\ IsFiniteSet(Old) /\ \A f \in Old : f = [path |-> f.path, body |-> f.body]
        /\ IsFiniteSet(P) /\ \A f \in P : f = [path |-> f.path, body |-> f.body]
    BY <1>4, PayloadsBehindFinite, JobPayloads
  <2>4. \A f, g : Digest(sc, f) = Digest(sc, g) => f.path = g.path /\ f.body = g.body
    BY DEF Digest
  <2>5. \A f \in Old : \A g \in P : Digest(sc, f) = Digest(sc, g) => f = g
    <3> SUFFICES ASSUME NEW f \in Old, NEW g \in P, Digest(sc, f) = Digest(sc, g) PROVE f = g
      OBVIOUS
    <3>1. f.path = g.path /\ f.body = g.body
      BY <2>4
    <3>2. f = [path |-> f.path, body |-> f.body] /\ g = [path |-> g.path, body |-> g.body]
      BY <2>3
    <3> HIDE DEF Old, P
    <3> QED
      BY <3>1, <3>2
  <2>6. \A f : Digest(sc, f)[1] = sc
    BY DEF Digest
  <2>7. Seen(k) = {Digest(sc, f) : f \in Old}
    BY <1>2, <1>6
  <2>8. \A g \in P : Digest(sc, g) \in seen <=> g \in Old
    <3> TAKE g \in P
    <3>1. Digest(sc, g) \in seen <=> Digest(sc, g) \in Seen(k)
      BY <1>6, <2>6
    <3> HIDE DEF sc, Old, P, Seen
    <3> QED
      BY <2>5, <2>7, <3>1
  <2>9. {g \in P : Digest(sc, g) \notin seen} = P \ Old
    <3> HIDE DEF sc, Old, P
    <3> QED
      BY <2>8
  <2>10. {r \in R : r.check = syntax /\ ~ r.bad} = New
    <3>1. {r \in R : r.check = syntax /\ ~ r.bad}
              = {Result(syntax, f, FALSE) : f \in {g \in P : Digest(sc, g) \notin seen}}
      BY <2>1 DEF Worked
    <3>2. New = {Result(syntax, f, FALSE) : f \in P \ Old}
      BY DEF FreshOf
    <3> HIDE DEF sc, Old, P
    <3> QED
      BY <2>9, <3>1, <3>2
  <2>11. Seen1(k) = {Digest(sc, f) : f \in Old \cup P}
    <3>1. {x \in D : x[1] # "ignition"} = {Digest(sc, f) : f \in P}
      BY <2>1 DEF Worked
    <3>2. {x \in D : x[1] = sc} = {Digest(sc, f) : f \in P}
      <4> HIDE DEF sc, P
      <4> QED
        BY <2>1, <2>6, <3>1
    <3>3. Seen1(k) = Seen(k) \cup {x \in D : x[1] = sc}
      BY <1>3, <1>6
    <3> HIDE DEF sc, P, Old, Seen, Seen1
    <3> QED
      BY <2>7, <3>2, <3>3
  <2>12. Count1 = Cardinality(PayloadsBehind(k)')
    <3>1. /\ Cardinality(New) \in Nat /\ Cardinality(Old) \in Nat
          /\ Cardinality(Old \cup P) = Cardinality(Old) + Cardinality(New)
      <4> HIDE DEF Old, P
      <4> QED
        BY <2>3, FreshCounted
    <3>2. checked'[syntax] = checked[syntax] + Cardinality({r \in R : r.check = syntax /\ ~ r.bad})
      BY <1>0
    <3>3. checked'[syntax] = checked[syntax] + Cardinality(New)
      BY <2>10, <3>2
    <3>4. Count = Cardinality(Old)
      BY <1>2, <1>6
    <3>5. checked[syntax] \in Nat /\ before[syntax] \in Nat
      BY ChecksAre DEF TallyInv
    <3> HIDE DEF Old, P, New, syntax
    <3> QED
      BY <2>2, <3>1, <3>3, <3>4, <3>5
  <2> QED
    BY <1>6, <2>2, <2>11, <2>12
<1> QED
  BY <1>5, <1>6

LEMMA SteppedSilence ==
    ASSUME TypeOK, TallyInv, ExitInv, EmptyInv, NEW R, NEW S, NEW D, Stepped(R, S, D)
    PROVE  EmptyInv'
<1> USE SteppedFrame
<1> SUFFICES ASSUME NEW k \in 1..4, NEW c \in Silent(k)
             PROVE  /\ mode = k => Alarm' \/ Counted'[c] = 0
                    /\ mode > k /\ Wanted(Modes[k]) => Alarm' \/ done[Modes[k]][c] = 0
  <2>1. /\ \A m : Wanted(m)' <=> Wanted(m)
        /\ \A k_1 : Silent(k_1)' = Silent(k_1)
    BY Steady
  <2> QED
    BY <2>1, ModesAre DEF EmptyInv
<1>1. c \in Checks
  BY ChecksAre
<1>2. Alarm => Alarm'
  BY ReportAlarms
<1>3. mode > k /\ Wanted(Modes[k]) => Alarm' \/ done[Modes[k]][c] = 0
  BY <1>2, ModesAre DEF EmptyInv
<1>4. ASSUME mode = k, ~ Alarm'
      PROVE  Counted'[c] = 0
  <2>1. Counted[c] = 0
    BY <1>2, <1>4, ModesAre DEF EmptyInv
  <2>2. checked[c] - before[c] = 0
    BY <1>1, <2>1 DEF Counted
  <2>3. \A r \in R : ~ r.bad
    BY <1>4, ReportAlarms
  <2>4. {r \in R : r.check = c /\ ~ r.bad} = {}
    BY <1>4, <2>3 DEF Stepped
  <2>5. checked'[c] = checked[c] + Cardinality({r \in R : r.check = c /\ ~ r.bad})
    BY <1>1, SteppedCounts
  <2>6. checked'[c] = checked[c] + 0
    BY <2>4, <2>5, FS_EmptySet
  <2>7. checked[c] \in Nat /\ before[c] \in Nat
    BY <1>1 DEF TallyInv
  <2>8. Counted'[c] = checked'[c] - before[c]
    BY <1>1 DEF Counted
  <2> QED
    BY <2>2, <2>6, <2>7, <2>8
<1> QED
  BY <1>3, <1>4

\* Every job keeps the invariant.
LEMMA SteppedKeeps ==
    ASSUME IInv, NEW R, NEW S, NEW D, Stepped(R, S, D), Tallied
    PROVE  IInv'
BY SteppedTypes, SteppedFaults, SteppedSeen, SteppedTallies, SteppedWork, SteppedSilence DEF IInv

(***************************************************************************)
(* The steps between the jobs keep the invariant.                          *)
(***************************************************************************)
\* As long as nothing is reported.
LEMMA Quiet ==
    ASSUME UNCHANGED input, UNCHANGED findings
    PROVE  /\ errors' = errors /\ skipped' = skipped /\ checked' = checked /\ seen' = seen
           /\ Alarm' <=> Alarm
           /\ SeenInv => SeenInv'
<1>1. errors' = errors /\ skipped' = skipped /\ checked' = checked /\ seen' = seen
  BY DEF findings
<1>2. machine' = machine /\ \A f : BadPayload(f)' <=> BadPayload(f)
  BY Steady
<1>3. Alarm' <=> Alarm
  BY <1>1, <1>2 DEF Alarm, MissingTools
<1>4. SeenInv => SeenInv'
  BY <1>1, <1>2, <1>3 DEF SeenInv
<1> QED
  BY <1>1, <1>3, <1>4

\* The same jobs are behind, so nothing is new about them.
LEMMA QuietBehind ==
    ASSUME UNCHANGED input, UNCHANGED findings, counts' = counts, mode \in 1..5,
           FaultInv, CountInv,
           \A k \in 1..4 : \A i \in DOMAIN Jobs[Modes[k]] : Behind(k, i)' <=> Behind(k, i)
    PROVE  /\ FaultInv' /\ CountInv'
           /\ \A k \in 1..4 : PayloadsBehind(k)' = PayloadsBehind(k)
<1>1. Alarm' <=> Alarm
  BY Quiet
<1>2. /\ \A job : Wrong(job)' <=> Wrong(job)
      /\ \A a : Overlaid(a)' = Overlaid(a)
      /\ \A job : PayloadsIn(job)' = PayloadsIn(job)
  BY Steady
<1>3. FaultInv'
  BY <1>1, <1>2, ModesAre DEF FaultInv
<1>4. CountInv'
  <2>1. \A i \in DOMAIN Archs : i \in DOMAIN Jobs[Modes[4]]
    <3>1. DOMAIN Archs = 1..Len(Archs) /\ Len(Archs) \in Nat
      BY ValidationAssumption
    <3>2. DOMAIN Jobs["arch"] = 1..(Len(Archs) + 2)
      BY ModesAre, JobsTyped, ArchJobs
    <3> QED
      BY <3>1, <3>2, ModesAre
  <2> QED
    BY <1>1, <1>2, <2>1 DEF CountInv
<1>5. \A k \in 1..4 : PayloadsBehind(k)' = PayloadsBehind(k)
  <2> TAKE k \in 1..4
  <2> DEFINE J == Jobs[Modes[k]]
  <2>1. PayloadsBehind(k)' = UNION {PayloadsIn(J[i])' : i \in {j \in DOMAIN J : Behind(k, j)'}}
    BY DEF PayloadsBehind
  <2>2. PayloadsBehind(k) = UNION {PayloadsIn(J[i]) : i \in {j \in DOMAIN J : Behind(k, j)}}
    BY DEF PayloadsBehind
  <2>3. \A j \in DOMAIN J : Behind(k, j)' <=> Behind(k, j)
    OBVIOUS
  <2>4. \A i : PayloadsIn(J[i])' = PayloadsIn(J[i])
    BY <1>2
  <2> HIDE DEF J
  <2> QED
    BY <2>1, <2>2, <2>3, <2>4
<1> QED
  BY <1>3, <1>4, <1>5

\* A mode that has not begun has no payloads behind.
LEMMA NoneBehind ==
    ASSUME NEW k, k = mode, pc # "run", mode \in 1..5
    PROVE  PayloadsBehind(k) = {}
<1>1. \A i : ~ Behind(k, i)
  BY DEF Behind
<1> QED
  BY <1>1 DEF PayloadsBehind

\* A mode begins, or is passed over.
LEMMA BeginModeKeeps ==
    ASSUME IInv, BeginMode
    PROVE  IInv'
<1> USE DEF IInv
<1>1. /\ UNCHANGED input /\ UNCHANGED findings /\ counts' = counts
      /\ done' = done /\ exit' = exit /\ before' = checked
      /\ pc = "mode" /\ mode \in 1..4
  BY ModesAre DEF BeginMode, TypeOK
<1>2. /\ errors' = errors /\ skipped' = skipped /\ checked' = checked /\ seen' = seen
      /\ Alarm' <=> Alarm
      /\ SeenInv'
  BY <1>1, Quiet
<1>3. /\ release' = release /\ machine' = machine /\ arg' = arg
      /\ \A m : Wanted(m)' <=> Wanted(m)
      /\ \A k : Silent(k)' = Silent(k)
  BY <1>1, Steady
<1>4. \/ Wanted(Modes[mode]) /\ pc' = "run" /\ next' = 1 /\ mode' = mode
      \/ ~ Wanted(Modes[mode]) /\ pc' = "mode" /\ mode' = mode + 1
  BY <1>1 DEF BeginMode, Mode
<1>5. \A k \in 1..4 : \A i \in DOMAIN Jobs[Modes[k]] : Behind(k, i)' <=> Behind(k, i)
  <2> TAKE k \in 1..4
  <2> TAKE i \in DOMAIN Jobs[Modes[k]]
  <2>1. i \in Nat /\ i >= 1
    BY ModesAre, JobsTyped DEF ToSet
  <2> QED
    BY <1>1, <1>3, <1>4, <2>1 DEF Behind
<1>6. FaultInv' /\ CountInv' /\ \A k \in 1..4 : PayloadsBehind(k)' = PayloadsBehind(k)
  BY <1>1, <1>5, QuietBehind
<1>7. \A c \in Checks : checked[c] \in Nat /\ DoneIn(c) <= checked[c] /\ DoneIn(c)' = DoneIn(c)
  BY <1>1 DEF TallyInv, TypeOK, DoneIn
<1>8. TypeOK'
  <2>1. mode' \in 1..(Len(Modes) + 1)
    BY <1>1, <1>4, ModesAre
  <2>2. pc' = "run" => next' \in 1..(Len(Jobs[Mode']) + 1)
    <3>1. pc' = "run" => Mode' \in ToSet(Modes)
      BY <1>1, <1>4, ModesAre DEF Mode
    <3>2. pc' = "run" => Len(Jobs[Mode']) \in Nat
      BY <3>1, JobsTyped
    <3> QED
      BY <1>4, <3>2
  <2>3. \A c \in Checks : /\ 0 <= before'[c] /\ before'[c] <= checked'[c]
                          /\ DoneIn(c)' <= checked'[c]
    BY <1>1, <1>2, <1>7
  <2>4. pc' \in {"mode", "run", "exited"}
    BY <1>4
  <2> QED
    BY <1>1, <1>2, <1>3, <2>1, <2>2, <2>3, <2>4 DEF TypeOK
<1>9. TallyInv'
  <2>1. \A k \in DOMAIN Modes : k >= mode' => done'[Modes[k]] = [c \in Checks |-> 0]
    BY <1>1, <1>4, ModesAre DEF TallyInv
  <2>2. \A c \in Checks : DoneIn(c)' <= before'[c]
    BY <1>1, <1>7
  <2> QED
    BY <1>1, <1>2, <1>3, <2>1, <2>2 DEF TallyInv
<1>10. ExitInv'
  BY <1>1, <1>3, <1>4, ModesAre DEF ExitInv, Mode
<1>11. \A c \in Checks : Counted'[c] = 0
  BY <1>1, <1>2, <1>7 DEF Counted
<1>12. \A k \in 1..4 : mode' > k /\ Wanted(Modes[k])' => mode > k /\ Wanted(Modes[k])
  BY <1>1, <1>3, <1>4
<1>13. WorkInv'
  <2> SUFFICES ASSUME errors' = {}, NEW k \in {2, 3}
               PROVE  /\ {x \in seen' : x[1] = ScopeOf[Modes[k]]}
                             = {Digest(ScopeOf[Modes[k]], f) : f \in PayloadsBehind(k)'}
                      /\ mode' = k /\ pc' = "run" =>
                             Counted'["no-template-syntax"] = Cardinality(PayloadsBehind(k)')
                      /\ mode' > k /\ Wanted(Modes[k])' =>
                             done'[Modes[k]]["no-template-syntax"] = Cardinality(PayloadsBehind(k)')
    BY DEF WorkInv
  <2>1. errors = {} /\ PayloadsBehind(k)' = PayloadsBehind(k)
    BY <1>2, <1>6
  <2>2. {x \in seen : x[1] = ScopeOf[Modes[k]]} = {Digest(ScopeOf[Modes[k]], f) : f \in PayloadsBehind(k)}
    BY <2>1 DEF WorkInv
  <2>3. mode' = k /\ pc' = "run" => Counted'["no-template-syntax"] = Cardinality(PayloadsBehind(k)')
    <3>1. ASSUME mode' = k, pc' = "run"
          PROVE  PayloadsBehind(k) = {}
      BY <1>1, <1>4, <3>1, NoneBehind
    <3> QED
      BY <1>11, <2>1, <3>1, ChecksAre, FS_EmptySet
  <2>4. mode' > k /\ Wanted(Modes[k])' =>
            done'[Modes[k]]["no-template-syntax"] = Cardinality(PayloadsBehind(k)')
    BY <1>1, <1>12, <2>1 DEF WorkInv
  <2> QED
    BY <1>2, <2>1, <2>2, <2>3, <2>4
<1>14. EmptyInv'
  <2> SUFFICES ASSUME NEW k \in 1..4, NEW c \in Silent(k)
               PROVE  /\ mode' = k /\ pc' = "run" => Alarm' \/ Counted'[c] = 0
                      /\ mode' > k /\ Wanted(Modes[k])' => Alarm' \/ done'[Modes[k]][c] = 0
    BY <1>3, ModesAre DEF EmptyInv
  <2>1. c \in Checks
    BY ChecksAre
  <2> QED
    BY <1>1, <1>2, <1>11, <1>12, <2>1, ModesAre DEF EmptyInv
<1> QED
  BY <1>2, <1>6, <1>8, <1>9, <1>10, <1>13, <1>14

\* A mode ends, and what it counted is its own.
LEMMA EndModeKeeps ==
    ASSUME IInv, EndMode
    PROVE  IInv'
<1> USE DEF IInv
<1>1. /\ UNCHANGED input /\ UNCHANGED findings /\ counts' = counts
      /\ next' = next /\ exit' = exit /\ before' = before
      /\ pc = "run" /\ mode \in 1..4 /\ mode' = mode + 1 /\ pc' = "mode"
      /\ Mode = Modes[mode] /\ Mode \in ToSet(Modes)
      /\ done' = [done EXCEPT ![Modes[mode]] = Counted]
      /\ next > Len(Jobs[Modes[mode]])
  BY ModesAre DEF EndMode, TypeOK, ExitInv, Mode
<1>2. /\ errors' = errors /\ skipped' = skipped /\ checked' = checked /\ seen' = seen
      /\ Alarm' <=> Alarm
      /\ SeenInv'
  BY <1>1, Quiet
<1>3. /\ release' = release /\ machine' = machine /\ arg' = arg
      /\ \A m : Wanted(m)' <=> Wanted(m)
      /\ \A k : Silent(k)' = Silent(k)
  BY <1>1, Steady
<1>4. Wanted(Modes[mode])
  BY <1>1 DEF ExitInv
<1>5. \A k \in 1..4 : \A i \in DOMAIN Jobs[Modes[k]] : Behind(k, i)' <=> Behind(k, i)
  <2> TAKE k \in 1..4
  <2> TAKE i \in DOMAIN Jobs[Modes[k]]
  <2>1. i \in Nat /\ i <= Len(Jobs[Modes[k]]) /\ Len(Jobs[Modes[k]]) \in Nat
    BY ModesAre, JobsTyped DEF ToSet
  <2>2. next \in Int
    BY <1>1, JobsTyped DEF TypeOK
  <2> QED
    BY <1>1, <1>3, <2>1, <2>2 DEF Behind
<1>6. FaultInv' /\ CountInv' /\ \A k \in 1..4 : PayloadsBehind(k)' = PayloadsBehind(k)
  BY <1>1, <1>5, QuietBehind
<1>7. \A c \in Checks : /\ checked[c] \in Nat /\ before[c] \in Nat /\ before[c] <= checked[c]
                        /\ DoneIn(c) <= before[c]
  BY <1>1 DEF TallyInv, TypeOK
<1>8. Counted \in [Checks -> Nat] /\ \A c \in Checks : Counted[c] = checked[c] - before[c]
  BY <1>7 DEF Counted
<1>9. /\ done \in [ToSet(Modes) -> [Checks -> Nat]]
      /\ done[Modes[mode]] = [c \in Checks |-> 0]
  <2>1. \A k \in DOMAIN Modes : k >= mode => done[Modes[k]] = [c \in Checks |-> 0]
    BY DEF TallyInv
  <2>2. mode \in DOMAIN Modes /\ mode >= mode
    BY <1>1, ModesAre
  <2> QED
    BY <2>1, <2>2 DEF TallyInv
<1>10. /\ done' \in [ToSet(Modes) -> [Checks -> Nat]]
       /\ done'[Modes[mode]] = Counted
       /\ \A k \in 1..4 : k # mode => done'[Modes[k]] = done[Modes[k]]
  <2>1. \A k \in 1..4 : k # mode => Modes[k] # Modes[mode]
    BY <1>1, ModesAre
  <2>2. \A k \in 1..4 : Modes[k] \in ToSet(Modes)
    BY ModesAre
  <2> QED
    BY <1>1, <1>8, <1>9, <2>1, <2>2
<1>11. \A c \in Checks : DoneIn(c)' <= checked'[c]
  <2> TAKE c \in Checks
  <2>1. /\ done["render"][c] \in Nat /\ done["payloads"][c] \in Nat
        /\ done["hosted"][c] \in Nat /\ done["arch"][c] \in Nat
    BY <1>9, ModesAre
  <2>2. done[Modes[mode]][c] = 0 /\ done'[Modes[mode]][c] = checked[c] - before[c]
    BY <1>8, <1>9, <1>10
  <2>3. DoneIn(c)' = DoneIn(c) + (checked[c] - before[c])
    <3>1. DoneIn(c)' = done'["render"][c] + done'["payloads"][c] + done'["hosted"][c] + done'["arch"][c]
      BY DEF DoneIn
    <3>2. DoneIn(c) = done["render"][c] + done["payloads"][c] + done["hosted"][c] + done["arch"][c]
      BY DEF DoneIn
    <3>3. CASE mode = 1
      BY <1>7, <1>10, <2>1, <2>2, <3>1, <3>2, <3>3, ModesAre
    <3>4. CASE mode = 2
      BY <1>7, <1>10, <2>1, <2>2, <3>1, <3>2, <3>4, ModesAre
    <3>5. CASE mode = 3
      BY <1>7, <1>10, <2>1, <2>2, <3>1, <3>2, <3>5, ModesAre
    <3>6. CASE mode = 4
      BY <1>7, <1>10, <2>1, <2>2, <3>1, <3>2, <3>6, ModesAre
    <3> QED
      BY <1>1, <3>3, <3>4, <3>5, <3>6
  <2>4. DoneIn(c) \in Nat
    BY <2>1 DEF DoneIn
  <2> QED
    BY <1>2, <1>7, <2>3, <2>4
<1>12. TypeOK'
  <2>1. mode' \in 1..(Len(Modes) + 1)
    BY <1>1, ModesAre
  <2>2. \A c \in Checks : 0 <= before'[c] /\ before'[c] <= checked'[c]
    BY <1>1, <1>2, <1>7
  <2> QED
    BY <1>1, <1>2, <1>3, <1>11, <2>1, <2>2 DEF TypeOK
<1>13. TallyInv'
  <2>1. \A k \in DOMAIN Modes : k >= mode' => done'[Modes[k]] = [c \in Checks |-> 0]
    <3>1. \A k \in 1..4 : k >= mode' => k >= mode /\ k # mode
      BY <1>1
    <3>2. \A k \in 1..4 : k >= mode => done[Modes[k]] = [c \in Checks |-> 0]
      BY ModesAre DEF TallyInv
    <3> QED
      BY <1>10, <3>1, <3>2, ModesAre
  <2> QED
    BY <1>1, <1>2, <1>3, <1>10, <2>1 DEF TallyInv
<1>14. ExitInv'
  BY <1>1 DEF ExitInv
<1>15. \A k \in 1..4 : mode' > k <=> mode > k \/ mode = k
  BY <1>1
<1>16. WorkInv'
  <2> SUFFICES ASSUME errors' = {}, NEW k \in {2, 3}
               PROVE  /\ {x \in seen' : x[1] = ScopeOf[Modes[k]]}
                             = {Digest(ScopeOf[Modes[k]], f) : f \in PayloadsBehind(k)'}
                      /\ mode' > k /\ Wanted(Modes[k])' =>
                             done'[Modes[k]]["no-template-syntax"] = Cardinality(PayloadsBehind(k)')
    BY <1>1 DEF WorkInv
  <2>1. errors = {} /\ PayloadsBehind(k)' = PayloadsBehind(k)
    BY <1>2, <1>6
  <2>2. /\ {x \in seen : x[1] = ScopeOf[Modes[k]]} = {Digest(ScopeOf[Modes[k]], f) : f \in PayloadsBehind(k)}
        /\ mode = k => Counted["no-template-syntax"] = Cardinality(PayloadsBehind(k))
        /\ mode > k /\ Wanted(Modes[k]) =>
               done[Modes[k]]["no-template-syntax"] = Cardinality(PayloadsBehind(k))
    BY <1>1, <2>1 DEF WorkInv
  <2>3. mode' > k /\ Wanted(Modes[k])' =>
            done'[Modes[k]]["no-template-syntax"] = Cardinality(PayloadsBehind(k)')
    <3>1. mode = k => done'[Modes[k]] = Counted
      BY <1>10
    <3>2. mode > k => done'[Modes[k]] = done[Modes[k]]
      BY <1>1, <1>10
    <3> QED
      BY <1>3, <1>15, <2>1, <2>2, <3>1, <3>2
  <2> QED
    BY <1>2, <2>1, <2>2, <2>3
<1>17. EmptyInv'
  <2> SUFFICES ASSUME NEW k \in 1..4, NEW c \in Silent(k)
               PROVE  mode' > k /\ Wanted(Modes[k])' => Alarm' \/ done'[Modes[k]][c] = 0
    BY <1>1, <1>3, ModesAre DEF EmptyInv
  <2>1. /\ mode = k => Alarm \/ Counted[c] = 0
        /\ mode > k /\ Wanted(Modes[k]) => Alarm \/ done[Modes[k]][c] = 0
    BY <1>1, ModesAre DEF EmptyInv
  <2>2. mode = k => done'[Modes[k]] = Counted
    BY <1>10
  <2>3. mode > k => done'[Modes[k]] = done[Modes[k]]
    BY <1>1, <1>10
  <2> QED
    BY <1>2, <1>3, <1>15, <2>1, <2>2, <2>3
<1> QED
  BY <1>2, <1>6, <1>12, <1>13, <1>14, <1>16, <1>17

\* The verdict, or nothing at all.
LEMMA VerdictKeeps ==
    ASSUME IInv, Verdict \/ UNCHANGED vars
    PROVE  IInv'
<1> USE DEF IInv
<1>1. /\ UNCHANGED input /\ UNCHANGED findings
      /\ mode' = mode /\ next' = next /\ before' = before /\ done' = done /\ counts' = counts
  BY DEF Verdict, vars
<1>2. /\ errors' = errors /\ skipped' = skipped /\ checked' = checked /\ seen' = seen
      /\ Alarm' <=> Alarm
      /\ SeenInv'
  BY <1>1, Quiet
<1>3. /\ release' = release /\ machine' = machine /\ arg' = arg
      /\ \A m : Wanted(m)' <=> Wanted(m)
      /\ \A k : Silent(k)' = Silent(k)
  BY <1>1, Steady
<1>4. mode \in 1..5
  BY ModesAre DEF TypeOK
<1>5. \/ pc' = pc /\ exit' = exit
      \/ /\ pc = "mode" /\ pc' = "exited" /\ mode = 5 /\ exit' \in {0, 1}
         /\ exit' = 0 <=> ~ Alarm /\ \A m \in ToSet(Modes) : Wanted(m) => BelowFloor(m) = {}
  <2>1. ASSUME Verdict
        PROVE  /\ pc = "mode" /\ pc' = "exited" /\ mode = 5 /\ exit' \in {0, 1}
               /\ exit' = 0 <=> ~ Alarm /\ \A m \in ToSet(Modes) : Wanted(m) => BelowFloor(m) = {}
    <3>1. ~ Alarm <=> errors = {} /\ MissingTools = {}
      BY DEF Alarm
    <3> QED
      BY <1>4, <2>1, <3>1, ModesAre DEF Verdict
  <2> QED
    BY <2>1 DEF vars
<1>6. pc' = "run" <=> pc = "run"
  BY <1>5
<1>7. \A k \in 1..4 : \A i \in DOMAIN Jobs[Modes[k]] : Behind(k, i)' <=> Behind(k, i)
  BY <1>1, <1>3, <1>6 DEF Behind
<1>8. FaultInv' /\ CountInv' /\ \A k \in 1..4 : PayloadsBehind(k)' = PayloadsBehind(k)
  BY <1>1, <1>4, <1>7, QuietBehind
<1>9. Mode' = Mode /\ Counted' = Counted /\ \A c : DoneIn(c)' = DoneIn(c)
  BY <1>1, <1>2 DEF Mode, Counted, DoneIn
<1>10. TypeOK'
  BY <1>1, <1>2, <1>3, <1>5, <1>9 DEF TypeOK
<1>11. TallyInv'
  BY <1>1, <1>2, <1>3, <1>6, <1>9 DEF TallyInv
<1>12. ExitInv'
  <2>1. \A m : BelowFloor(m)' = BelowFloor(m)
    BY <1>1 DEF BelowFloor
  <2>2. pc' = "run" => mode' <= Len(Modes) /\ Wanted(Mode)'
    BY <1>1, <1>3, <1>6, <1>9 DEF ExitInv
  <2>3. pc' = "exited" =>
            /\ mode' = Len(Modes) + 1
            /\ exit' = 0 <=> ~ Alarm' /\ \A m \in ToSet(Modes) : Wanted(m)' => BelowFloor(m)' = {}
    BY <1>1, <1>2, <1>3, <1>5, <2>1, ModesAre DEF ExitInv
  <2> QED
    BY <2>2, <2>3 DEF ExitInv
<1>13. WorkInv'
  BY <1>1, <1>2, <1>3, <1>6, <1>8, <1>9 DEF WorkInv
<1>14. EmptyInv'
  BY <1>1, <1>2, <1>3, <1>6, <1>9, ModesAre DEF EmptyInv
<1> QED
  BY <1>2, <1>8, <1>10, <1>11, <1>12, <1>13, <1>14

(***************************************************************************)
(* The invariant, and what follows from it.                                *)
(***************************************************************************)
\* A run begins with nothing counted, seen or failed.
LEMMA InitEstablishes ==
    ASSUME Init
    PROVE  IInv
<1> USE DEF Init
<1>1. Charts(release) /\ machine.tools \subseteq Tools
  BY ValidationAssumption
<1>2. \A k \in 1..4 : \A i : ~ Behind(k, i)
  BY DEF Behind
<1>3. \A k \in 1..4 : PayloadsBehind(k) = {}
  BY <1>2 DEF PayloadsBehind
<1>4. \A c \in Checks : DoneIn(c) = 0
  BY ModesAre DEF DoneIn
<1>5. TypeOK
  BY <1>1, <1>4, ModesAre DEF TypeOK, Charts
<1>6. TallyInv
  BY <1>1, ModesAre DEF TallyInv
<1>7. ExitInv
  BY DEF ExitInv
<1>8. FaultInv /\ CountInv
  BY <1>2, ModesAre DEF FaultInv, CountInv
<1>9. SeenInv
  BY DEF SeenInv
<1>10. WorkInv
  BY <1>3 DEF WorkInv
<1>11. EmptyInv
  BY ModesAre DEF EmptyInv
<1> QED
  BY <1>5, <1>6, <1>7, <1>8, <1>9, <1>10, <1>11 DEF IInv

\* Every job of the script is such a step.
LEMMA JobSteps ==
    ASSUME IInv,
           \/ \E chart \in {"platform", "node"} : RenderProfile(chart)
           \/ PayloadsAt \/ NodepoolProfile \/ NodepoolAt \/ SizeRefused \/ HostedProfile
           \/ ArchRender \/ CompareArchs \/ SchemaTypo
    PROVE  Tallied /\ \E R, S, D : Stepped(R, S, D)
<1>1. TypeOK /\ TallyInv /\ ExitInv /\ SeenInv /\ FaultInv /\ CountInv
  BY DEF IInv
<1>2. CASE \E chart \in {"platform", "node"} : RenderProfile(chart)
  BY <1>1, <1>2, RenderProfileSteps
<1>3. CASE PayloadsAt
  BY <1>1, <1>3, PayloadsAtSteps
<1>4. CASE NodepoolProfile
  BY <1>1, <1>4, NodepoolProfileSteps
<1>5. CASE NodepoolAt
  BY <1>1, <1>5, NodepoolAtSteps
<1>6. CASE SizeRefused
  BY <1>1, <1>6, SizeRefusedSteps
<1>7. CASE HostedProfile
  BY <1>1, <1>7, HostedProfileSteps
<1>8. CASE ArchRender
  BY <1>1, <1>8, ArchRenderSteps
<1>9. CASE CompareArchs
  BY <1>1, <1>9, CompareArchsSteps
<1>10. CASE SchemaTypo
  BY <1>1, <1>10, SchemaTypoSteps
<1> QED
  BY <1>2, <1>3, <1>4, <1>5, <1>6, <1>7, <1>8, <1>9, <1>10

\* Every step keeps the invariant.
LEMMA NextKeeps ==
    ASSUME IInv, [Next]_vars
    PROVE  IInv'
<1>1. CASE BeginMode
  BY <1>1, BeginModeKeeps
<1>2. CASE EndMode
  BY <1>2, EndModeKeeps
<1>3. CASE Verdict \/ UNCHANGED vars
  BY <1>3, VerdictKeeps
<1>4. CASE \/ \E chart \in {"platform", "node"} : RenderProfile(chart)
           \/ PayloadsAt \/ NodepoolProfile \/ NodepoolAt \/ SizeRefused \/ HostedProfile
           \/ ArchRender \/ CompareArchs \/ SchemaTypo
  <2>1. Tallied
    BY <1>4, JobSteps
  <2>2. PICK R, S, D : Stepped(R, S, D)
    BY <1>4, JobSteps
  <2> QED
    BY <2>1, <2>2, SteppedKeeps
<1> QED
  BY <1>1, <1>2, <1>3, <1>4 DEF Next

\* What has been checked, seen and counted so far accounts for every job that
\* has run, in every run of the script.
THEOREM IInvCorrect == Spec => []IInv
<1>1. Init => IInv
  BY InitEstablishes
<1>2. IInv /\ [Next]_vars => IInv'
  BY NextKeeps
<1> QED
  BY <1>1, <1>2, PTL DEF Spec

\* The run stays within its lists, and what the modes count adds up.
THEOREM TypeCorrect == Spec => []TypeOK
<1>1. IInv => TypeOK
  BY DEF IInv
<1> QED
  BY <1>1, IInvCorrect, PTL

\* A run that passes has gone through its modes without an alarm.
LEMMA PassIsQuiet ==
    ASSUME IInv, Exited, exit = 0
    PROVE  /\ ~ Alarm /\ mode = 5
           /\ \A m \in ToSet(Modes) : Wanted(m) => BelowFloor(m) = {}
BY ModesAre DEF IInv, ExitInv, Exited

\* All jobs of a wanted mode are behind at the end.
LEMMA AllBehind ==
    ASSUME IInv, Exited, NEW k \in 1..4, Wanted(Modes[k])
    PROVE  mode = 5 /\ \A i : Behind(k, i)
BY ModesAre DEF IInv, ExitInv, Exited, Behind

\* A run that passes has checked renders with nothing wrong in them, whatever
\* stopped early, was seen before, was refused or had no parser
\* (validate_payloads.py, main and all it calls).
THEOREM NoFaultPassesCorrect == Spec => []NoFaultPasses
<1>1. IInv => NoFaultPasses
  <2> SUFFICES ASSUME IInv, Exited, exit = 0, NEW k \in 1..4, Wanted(Modes[k]),
                      NEW i \in DOMAIN Jobs[Modes[k]], Wrong(Jobs[Modes[k]][i])
               PROVE  FALSE
    <3>1. \A m \in ToSet(Modes) : \E k \in 1..4 : m = Modes[k]
      BY ModesAre
    <3> QED
      BY <3>1 DEF NoFaultPasses
  <2>1. Behind(k, i)
    BY AllBehind
  <2>2. Alarm
    BY <2>1, ModesAre DEF IInv, FaultInv
  <2> QED
    BY <2>2, PassIsQuiet
<1> QED
  BY <1>1, IInvCorrect, PTL

\* No run passes over a chart that renders nothing (the floors, 73-109).
THEOREM CollapseNoticedCorrect == Spec => []CollapseNoticed
<1>1. ASSUME IInv, Exited, exit = 0, NEW k \in 1..4, Wanted(Modes[k]), NEW c \in Silent(k)
      PROVE  FALSE
  <2>1. ~ Alarm /\ mode = 5 /\ BelowFloor(Modes[k]) = {}
    BY <1>1, ModesAre, PassIsQuiet
  <2>2. done[Modes[k]][c] = 0
    BY <1>1, <2>1, ModesAre DEF IInv, EmptyInv
  <2>3. c \in Telltale[Modes[k]]
    <3>1. k = 3 => "hostedcluster-shape" \in Telltale[Modes[k]]
      BY ModesAre DEF Telltale
    <3> QED
      BY <1>1, <3>1 DEF Silent
  <2>4. c \in DOMAIN FLOORS[Modes[k]] /\ FLOORS[Modes[k]][c] \in Nat /\ FLOORS[Modes[k]][c] > 0
    BY <2>3, ModesAre, ValidationAssumption
  <2> QED
    BY <2>1, <2>2, <2>4 DEF BelowFloor
<1>2. IInv => CollapseNoticed
  <2> SUFFICES ASSUME IInv, Exited, Empty("node") \/ (Empty("platform") /\ Wanted("hosted")), exit # 1
               PROVE  FALSE
    BY DEF CollapseNoticed
  <2>1. exit = 0 /\ arg \in ToSet(Modes) \cup {"all"}
    BY DEF IInv, TypeOK
  <2>2. CASE Empty("platform") /\ Wanted("hosted")
    <3>1. "hostedcluster-shape" \in Silent(3)
      BY <2>2 DEF Silent
    <3>2. Wanted(Modes[3])
      BY <2>2, ModesAre
    <3> QED
      BY <1>1, <2>1, <3>1, <3>2
  <2>3. CASE Empty("node")
    <3>1. \E k \in 1..4 : Wanted(Modes[k])
      BY <2>1, ModesAre DEF Wanted
    <3>2. \A k \in 1..4 : \E c : c \in Silent(k)
      <4>1. /\ "kubeletconfig-pool-selector" \in Silent(1)
            /\ "no-template-syntax" \in Silent(2)
            /\ "nodepool-configmap-shape" \in Silent(3)
            /\ "arch-excludes-objects" \in Silent(4)
        BY <2>3, ModesAre DEF Silent, Telltale
      <4> QED
        BY <4>1
    <3> QED
      BY <1>1, <2>1, <3>1, <3>2
  <2> QED
    BY <2>2, <2>3
<1> QED
  BY <1>2, IInvCorrect, PTL

\* Each mode has counted its own payloads, each once, whichever modes ran
\* before it (first_time, the scopes, and the counts taken between the modes).
THEOREM WorkCountedPerModeCorrect == Spec => []WorkCountedPerMode
<1>1. ASSUME IInv, Exited, errors = {}, NEW k \in {2, 3}, Wanted(Modes[k])
      PROVE  done[Modes[k]]["no-template-syntax"] = Cardinality(PayloadsOf(Modes[k]))
  <2> DEFINE J == Jobs[Modes[k]]
  <2>1. mode = 5 /\ \A i : Behind(k, i)
    BY <1>1, AllBehind
  <2>2. PayloadsBehind(k) = UNION {PayloadsIn(J[i]) : i \in {j \in DOMAIN J : Behind(k, j)}}
    BY DEF PayloadsBehind
  <2>3. PayloadsOf(Modes[k]) = UNION {PayloadsIn(job) : job \in {J[i] : i \in DOMAIN J}}
    BY DEF PayloadsOf, ToSet
  <2>4. {j \in DOMAIN J : Behind(k, j)} = DOMAIN J
    BY <2>1
  <2> HIDE DEF J
  <2>5. PayloadsBehind(k) = PayloadsOf(Modes[k])
    BY <2>2, <2>3, <2>4
  <2> QED
    BY <1>1, <2>1, <2>5 DEF IInv, WorkInv
<1>2. IInv => WorkCountedPerMode
  <2>1. Modes[2] = "payloads" /\ Modes[3] = "hosted"
    BY ModesAre
  <2>2. \A m \in {"payloads", "hosted"} : \E k \in {2, 3} : m = Modes[k]
    BY <2>1
  <2> QED
    BY <1>1, <2>2 DEF WorkCountedPerMode
<1> QED
  BY <1>2, IInvCorrect, PTL
=============================================================================
