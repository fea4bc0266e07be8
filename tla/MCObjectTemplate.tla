-------------------------- MODULE MCObjectTemplate --------------------------
(***************************************************************************)
(* Small instances of ObjectTemplate: one plain leaf, one leaf of a union, *)
(* two files, two contents, and every body that writes one path plus one   *)
(* that writes a leaf and a file, as the MachineConfig fixes do.           *)
(***************************************************************************)
EXTENDS ObjectTemplate, FiniteSets, TLC

CONSTANTS a, b, c, master, worker, leaf, union, file1, file2, v1, v2, none

MCPaths == {leaf, union, file1, file2}
MCFiles == {file1, file2}

Writes(ps, v) == [p \in MCPaths |-> IF p \in ps THEN v ELSE none]

MCBodies == {Writes({}, v1), Writes({leaf}, v1), Writes({leaf}, v2),
             Writes({union}, v1), Writes({file1}, v1), Writes({file1}, v2),
             Writes({leaf, file2}, v1)}

Unrestricted == [r \in Rules |-> {}]
OneRestricted == [r \in Rules |-> IF r = a THEN {master} ELSE {}]

MCVersions == {"old", "new"}
MCWindows == {{"old"}, {"new"}, {"old", "new"}}

File(active, version, broken) ==
    [active |-> active, version |-> version, enabled |-> TRUE,
     roles |-> {master, worker}, broken |-> broken]

MCShipped == File({}, "new", {})

\* Every selection at every version; a broken variable and node.enabled=false
\* once each.
MCValuesFiles ==
    {File(act, ver, {}) : act \in SUBSET Rules \ {{}}, ver \in MCVersions}
        \cup {MCShipped, File(Rules, "new", {a}), [File(Rules, "new", {}) EXCEPT !.enabled = FALSE]}

MCRuleLimits == {Unrestricted, OneRestricted}
NoLimits == {Unrestricted}

=============================================================================
