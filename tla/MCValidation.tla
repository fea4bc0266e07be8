---------------------------- MODULE MCValidation ----------------------------
(***************************************************************************)
(* A small instance of Validation: two profiles per chart, two versions,   *)
(* two architectures, a release without fault, and from it one release for *)
(* every fault in every render, and for every collapse.                    *)
(***************************************************************************)
EXTENDS Validation, TLC

MCPlatformProfiles == <<"pcis", "pstig">>
MCNodeProfiles == <<"ncis", "nstig">>
MCVersions == <<"v12", "v18">>
MCArchs == <<"x86_64", "s390x">>

MCOwner == [sshd |-> "sshd -t", rules |-> "audit", auditd |-> "keyvalue-conf",
            sysctl |-> "sysctl-syntax", unit |-> "none"]

\* "keys" is fine for auditd.conf and sysctl.d, and nothing sshd reads;
\* "stime" is a rule with a syscall that does not exist.
MCRejects ==
    [c \in {"sshd -t", "ausyscall", "audit-rule-shape", "auditctl -R", "keyvalue-conf",
            "sysctl-syntax", "no-template-syntax", "ignition-validate"} |->
        CASE c = "sshd -t" -> {"keys", "rule", "stime"}
          [] c = "ausyscall" -> {"stime"}
          [] c = "audit-rule-shape" -> {"keys", "words"}
          [] c = "auditctl -R" -> {"unloadable"}
          [] c \in {"keyvalue-conf", "sysctl-syntax"} -> {"words", "rule", "stime"}
          [] c = "no-template-syntax" -> {"templated"}
          [] c = "ignition-validate" -> {"unignitable"}]

MCTools == {"sshd -t", "ausyscall", "auditctl -R", "ignition-validate"}

MCFLOORS ==
    [render |-> [x \in {"render", "object-has-body", "selector-label",
                        "no-cross-object-file-collisions"} |-> 3]
                    @@ [x \in {"resource-policy-keep", "resource-policy-absent",
                               "kubeletconfig-pool-selector"} |-> 1],
     payloads |-> ("no-template-syntax" :> 4) @@ ("no-cross-object-file-collisions" :> 2)
                    @@ [x \in {"audit-rule-shape", "sysctl-syntax", "keyvalue-conf", "sshd -t"} |-> 1],
     hosted |-> ("hosted-render" :> 3) @@ ("no-template-syntax" :> 4)
                    @@ [x \in {"nodepool-configmap-shape", "nodepool-render-stable",
                               "nodepool-size-refused", "hostedcluster-shape", "sshd -t",
                               "resource-policy-keep", "resource-policy-absent"} |-> 1],
     arch |-> ("arch-render" :> 2)
                    @@ [x \in {"arch-gate-fires", "arch-excludes-objects",
                               "schema-rejects-bad-arch"} |-> 1]]

Obj(kind, role, kept) ==
    [kind |-> kind, name |-> kind, role |-> role, kept |-> kept, flaws |-> {}, files |-> {},
     units |-> {}, inner |-> <<>>]

File(path, body) == [path |-> path, body |-> body]

\* sshd_config differs between the versions.
FilesAt(name) ==
    {File("sshd", IF name = "v12" THEN "old" ELSE "words"), File("rules", "rule"),
     File("auditd", "keys"), File("sysctl", "keys")}

Units == {File("unit", "words")}

MachineConfig(name) ==
    [Obj("MachineConfig", "worker", FALSE) EXCEPT !.files = FilesAt(name), !.units = Units]
Kubelet == Obj("KubeletConfig", "worker", FALSE)
ConfigMap(inner) == [Obj("ConfigMap", "", FALSE) EXCEPT !.inner = <<inner>>]

Rendered(docs) == [refused |-> "no", blank |-> FALSE, docs |-> docs]
Refusal(why) == [refused |-> why, blank |-> FALSE, docs |-> <<>>]

Good(id) ==
    CASE id[1] = "platform" /\ id[3] = "direct" ->
            Rendered(<<Obj("APIServer", "", TRUE), Obj("IngressController", "", TRUE)>>)
      [] id[3] = "management" -> Rendered(<<Obj("HostedCluster", "", TRUE)>>)
      [] id[3] = "guest" -> Rendered(<<Obj("IngressController", "", TRUE)>>)
      [] id[3] \in {"nodepool", "again"} ->
            Rendered(<<ConfigMap(MachineConfig(id[2])), ConfigMap(Kubelet)>>)
      [] id[3] = "bare" /\ id[2] = "s390x" -> Refusal("not applicable")
      [] id[3] = "overlay" /\ id[2] = "s390x" -> Rendered(<<MachineConfig(id[2])>>)
      [] OTHER -> Rendered(<<MachineConfig(id[2]), Kubelet>>)

GoodRelease == [out |-> [id \in Renders |-> Good(id)], overlays |-> {"s390x"}, schema |-> TRUE,
                size |-> "over the limit"]

\* The outputs that a fault of one kind makes of a rendered one.
WithFirst(out, obj) == Rendered(<<obj>> \o Tail(out.docs))
First(out) == out.docs[1]

Flaws(out) ==
    {WithFirst(out, [First(out) EXCEPT !.flaws = {flaw}]) :
        flaw \in {"body", "label", "keys", "fields", "pool"}}
    \cup {Rendered(<<First(out), [out.docs[Len(out.docs)] EXCEPT !.flaws = {"selector"}]>>)}
    \cup {WithFirst(out, [First(out) EXCEPT !.kept = ~ @]), WithFirst(out, [First(out) EXCEPT !.role = "master"]),
          Rendered(out.docs \o <<First(out)>>), [out EXCEPT !.blank = TRUE], Refusal("other")}

Instead(files, f) == {g \in files : g.path # f.path} \cup {f}

Payload(docs, f) ==
    [docs EXCEPT ![1] = IF f.path = "unit" THEN [@ EXCEPT !.units = Instead(@, f)]
                                           ELSE [@ EXCEPT !.files = Instead(@, f)]]

BadFiles == {File("sshd", "keys"), File("rules", "stime"), File("rules", "words"),
             File("rules", "unloadable"), File("sysctl", "words"), File("auditd", "words"),
             File("unit", "templated"), File("unit", "unignitable"), File("sshd", "opaque")}

Payloads(out) ==
    IF out.docs = <<>> THEN {}
    ELSE IF First(out).kind = "MachineConfig" THEN {Rendered(Payload(out.docs, f)) : f \in BadFiles}
         ELSE IF First(out).kind = "ConfigMap"
         THEN {WithFirst(out, [First(out) EXCEPT !.inner = Payload(@, f)]) : f \in BadFiles}
                  \cup {WithFirst(out, [First(out) EXCEPT !.inner = @ \o <<Kubelet>>])}
         ELSE {}

Faults(id) == IF Good(id).docs = <<>> THEN {Rendered(<<MachineConfig(id[2])>>), Refusal("other")}
              ELSE Flaws(Good(id)) \cup Payloads(Good(id))

\* Two MachineConfigs that write one file, or just one unit, differently.
Second(name) == [MachineConfig(name) EXCEPT !.name = "second"]

DisagreeOnFile == Rendered(<<MachineConfig("v12"), Second("v18")>>)
DisagreeOnUnit ==
    Rendered(<<MachineConfig("v18"), [Second("v18") EXCEPT !.units = {File("unit", "other")}]>>)

\* The objects of one chart are gone.
Collapsed(chart) == [GoodRelease EXCEPT !.out = [id \in Renders |->
    IF id[1] = chart THEN [@[id] EXCEPT !.docs = <<>>] ELSE @[id]]]

MCReleases ==
    {GoodRelease, Collapsed("node"), Collapsed("platform"),
     [GoodRelease EXCEPT !.schema = FALSE], [GoodRelease EXCEPT !.size = "rendered"],
     [GoodRelease EXCEPT !.out[Render("node", "s390x", "overlay")] = Good(Render("node", "x86_64", "overlay"))],
     [GoodRelease EXCEPT !.out[Render("node", "v12", "direct")] = DisagreeOnFile],
     [GoodRelease EXCEPT !.out[Render("node", "v18", "direct")] = DisagreeOnUnit]}
    \cup UNION {{[GoodRelease EXCEPT !.out[id] = bad] : bad \in Faults(id)} :
                    id \in {i \in Renders : i[2] \notin {"pcis", "ncis", "v12"}}}

MCMachines == {[tools |-> MCTools, require |-> TRUE], [tools |-> MCTools \ {"auditctl -R"}, require |-> TRUE],
               [tools |-> MCTools \ {"ausyscall"}, require |-> TRUE],
               [tools |-> {"sshd -t"}, require |-> FALSE]}
=============================================================================
