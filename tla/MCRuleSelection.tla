---------------------------- MODULE MCRuleSelection ----------------------------
(***************************************************************************)
(* A small instance of RuleSelection: three rules, two overlapping         *)
(* profiles, two architectures and one alias, and one content release per  *)
(* feature of the content, the last of them with several at once.          *)
(***************************************************************************)
EXTENDS RuleSelection, TLC

Named == {"a", "b", "c"}
Both  == {"old", "new"}
None  == [r \in Named |-> {}]

Own(r) == [rule |-> r, object |-> r, window |-> Both]

Plain == [layer |-> "platform", fragments |-> {Own(r) : r \in Named},
          selects |-> [p |-> {"a", "b"}, q |-> {"b", "c"}],
          alternatives |-> {}, writes |-> {}, depends |-> None,
          archs |-> [r \in Named |-> {"x86_64", "aarch64"}],
          hosted |-> [r \in Named |-> BOOLEAN],
          never |-> {}, optIn |-> {}, broken |-> {}]

Writes(r, object, source, window) ==
    [rule |-> r, object |-> object, path |-> "sshd_config", source |-> source, window |-> window]

Pair     == [Plain EXCEPT !.alternatives = {{"a", "b"}}]
Chain    == [Plain EXCEPT !.alternatives = {{"a", "b"}, {"b", "c"}}]
Three    == [Plain EXCEPT !.alternatives = {Named}]
Needs    == [Plain EXCEPT !.depends["a"] = {"b"}, !.depends["b"] = {"c"}]
ByArch   == [Plain EXCEPT !.archs["a"] = {"x86_64"}, !.archs["b"] = {"aarch64"}]
ByHost   == [Plain EXCEPT !.hosted["a"] = {FALSE}, !.hosted["b"] = {TRUE}]
Unusable == [Plain EXCEPT !.never = {"a"}, !.optIn = {"b"}, !.broken = {"c"}]
TwoFiles == [Plain EXCEPT !.writes = {Writes("a", "m", "s1", Both), Writes("b", "n", "s2", {"old"}),
                                      Writes("b", "n", "s1", {"new"})}]
Windowed == [Plain EXCEPT !.writes = {Writes("a", "m", "s1", {"old"}), Writes("b", "n", "s2", {"old"})}]
Covered == [Windowed EXCEPT !.broken = {"a"}, !.never = {"c"}, !.optIn = {"c"}]
ThreeFiles == [Plain EXCEPT !.writes = {Writes("a", "m", "s1", Both), Writes("b", "n", "s2", Both),
                                        Writes("c", "o", "s3", Both)}]
Alike == [Plain EXCEPT !.writes = {Writes("a", "m", "s1", Both), Writes("b", "n", "s1", Both),
                                   Writes("c", "o", "s2", Both)}, !.broken = {"a"}]
Mixed == [Pair EXCEPT !.depends["c"] = {"a"}, !.archs["c"] = {"aarch64"},
                      !.hosted["b"] = {FALSE}, !.broken = {"a"}]
Variants == [Plain EXCEPT !.fragments =
    {[rule |-> "a", object |-> "m", window |-> Both], [rule |-> "b", object |-> "m", window |-> {"new"}],
     [rule |-> "c", object |-> "n", window |-> {"old"}]}]
Nodes == [Pair EXCEPT !.layer = "node", !.fragments = Variants.fragments]

MCContents == {Pair, Chain, Three, Needs, ByArch, ByHost, Unusable, TwoFiles, Windowed,
               Covered, ThreeFiles, Alike, Mixed, Variants, Nodes}

MCSpellings == {"x86_64", "aarch64", "amd64"}
MCCanonical == [s \in MCSpellings |-> IF s = "aarch64" THEN s ELSE "x86_64"]
MCRank == [a |-> 2, b |-> 1, c |-> 3]

\* node.enabled is given where the cluster's facts are not.
MCUserFiles ==
    {u \in [file : [profiles : SUBSET Profiles, rules : [Rules -> Setting],
                     arch : {"unset", "aarch64", "amd64"}, hosted : {"unset", "true"},
                     enabled : {"unset", "true"}],
             version : Versions] :
        u.file.enabled = "unset" \/ (u.file.arch = "unset" /\ u.file.hosted = "unset")}

MCCommands ==
    {<<"user">>, <<"user", "aarch64">>, <<"aarch64", "user">>, <<"user", "x86_64">>,
     <<"user", "hypershift">>, <<"hypershift", "aarch64", "user">>}
=============================================================================
