---------------------------- MODULE MCChartValues -----------------------------
(***************************************************************************)
(* A small instance of ChartValues: a few contents of two products, with   *)
(* every form of reference, every kind of value and both charts.           *)
(***************************************************************************)
EXTENDS ChartValues

MCProducts == <<"ocp4", "rhcos4">>
MCUnprefixed == [var_x |-> "x"]

Value(type, default, options, first) ==
    [type |-> type, default |-> default, options |-> options, first |-> first]
Ref(v, form) == [var |-> v, form |-> form]
Fix(layer, refs) == [layer |-> layer, refs |-> refs]
Rule(fixes, dependsOn) == [fixes |-> fixes, dependsOn |-> dependsOn]
Content(values, profiles, rules) == [values |-> values, profiles |-> profiles, rules |-> rules]

\* The oauth timeout of the API server, offered with a weak default; the audit
\* profile; a setting without a fix of its own.
Oauth == Rule(<<Fix("platform", {Ref("var_x", "bare")})>>, {})
Audit == Rule(<<Fix("platform", {Ref("profile", "quoted")})>>, {"oauth"})
Kubelet == Rule(<<Fix("node", {Ref("qps", "bare")})>>, {"sysctl", "manual"})
Sysctl == Rule(<<Fix("node", {Ref("banner", "encoded")})>>, {"audit"})
Manual == Rule(<<>>, {"oauth"})

\* profiles: one of each chart, one of both, one of neither.
Ocp4Profiles(refined) ==
    ("ocp4-cis" :> [rules |-> {"oauth", "audit"}, refined |-> refined])
        @@ ("ocp4-cis-node" :> [rules |-> {"kubelet", "sysctl"}, refined |-> <<>>])
        @@ ("ocp4-high" :> [rules |-> {"oauth", "kubelet", "manual"}, refined |-> refined])
        @@ ("ocp4-none" :> [rules |-> {"manual"}, refined |-> <<>>])

Ocp4Rules == [oauth |-> Oauth, audit |-> Audit, kubelet |-> Kubelet,
              sysctl |-> Sysctl, manual |-> Manual]

Ocp4Values == [x |-> Value("string", "word", <<"no", "30">>, 2),
               profile |-> Value("string", "None", <<"two words", "word">>, 2),
               qps |-> Value("number", "30", <<"30", "5">>, 1),
               banner |-> Value("string", "no", <<"two words">>, 1)]

Ocp4 == Content(Ocp4Values, Ocp4Profiles([x |-> 2]), Ocp4Rules)

\* The same, refined by the name instead of the id, with words offered among
\* the numbers, a value nobody gave and one that is not clean.
Suffixed == Content([Ocp4Values EXCEPT !.qps = Value("number", "30", <<"word", "5">>, 1)],
                    Ocp4Profiles([var_x |-> 2, qps |-> 9]), Ocp4Rules)
Missing == Content([v \in DOMAIN Ocp4Values \ {"x"} |-> Ocp4Values[v]],
                   Ocp4Profiles(<<>>), Ocp4Rules)
Unclean == Content([Ocp4Values EXCEPT !.banner = Value("string", "#", <<>>, 1)],
                   Ocp4Profiles([x |-> 1]), Ocp4Rules)

\* auditd on the nodes; sshd shares a variable with the other product or not.
Rhcos4(shared) ==
    Content([space |-> Value("number", "5", <<"30">>, 1)]
                @@ (IF shared THEN [banner |-> Value("string", "word", <<"two words">>, 1)]
                    ELSE <<>>),
            ("rhcos4-high" :> [rules |-> {"auditd"}, refined |-> [space |-> 1]]),
            [auditd |-> Rule(<<Fix("node", {Ref("space", "encoded")}
                                       \cup (IF shared THEN {Ref("banner", "encoded")} ELSE {}))>>,
                             {})])

MCDatastreams == {[ocp4 |-> o, rhcos4 |-> Rhcos4(shared)] :
                     o \in {Ocp4, Suffixed, Missing, Unclean}, shared \in BOOLEAN}
=============================================================================
