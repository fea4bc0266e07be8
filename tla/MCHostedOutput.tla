---------------------------- MODULE MCHostedOutput ----------------------------
(***************************************************************************)
(* A small instance of HostedOutput: one rule of every kind of target, a   *)
(* rule for master pools and one that is excluded from hosted clusters,    *)
(* all values of either chart, and the umbrella with at most one extra     *)
(* manifest or TailoredProfile.                                            *)
(***************************************************************************)
EXTENDS HostedOutput, TLC

MCTargetOf == [tls |-> "mapped", ingress |-> "unmapped", excluded |-> "unmapped",
               eviction |-> "kubelet", audit |-> "machineconfig",
               sshd |-> "machineconfig", etcd |-> "machineconfig"]
MCLimitOf == [r \in Rules |-> IF r = "etcd" THEN {"master"} ELSE {}]
MCHostedOK == [r \in Rules |-> IF r = "excluded" THEN {FALSE} ELSE BOOLEAN]

MCSelections == {{}, {"tls"}, {"ingress"}, {"sshd"}, {"tls", "ingress"}, {"tls", "excluded"},
                 {"tls", "ingress", "eviction", "audit", "sshd", "etcd"}}

Plain(v) == ~ v.tailored /\ v.extra = "none"

\* The roles matter to the standalone output only; a missing name once per chart.
MCNodeValues ==
    {v \in NodeFile : /\ v.roles \in {{"worker"}, {"master", "worker"}}
                      /\ v.roles # Roles => Plain(v) /\ v.named
                      /\ ~ v.named => Plain(v)}
MCPlatformValues == {v \in PlatformFile : ~ v.named => Plain(v)}

MCUmbrellaValues ==
    {<<n, p>> \in MCNodeValues \X MCPlatformValues :
        /\ n.named /\ p.named /\ n.roles = Roles
        /\ Plain(n) \/ Plain(p)
        /\ ~ (n.tailored /\ n.extra # "none") /\ ~ (p.tailored /\ p.extra # "none")}
=============================================================================
