----------------------------- MODULE Publication -----------------------------
(***************************************************************************)
(* What the generator promises whoever maintains the charts.  The tree     *)
(* holds one release as a whole, or no release.  A run that has not begun  *)
(* to build leaves it alone; one that has may spoil it, and then does not  *)
(* report success; a run that reports success has published, in one piece, *)
(* the release that was wanted when it started; and only what such a run   *)
(* published is ever committed.                                            *)
(*                                                                         *)
(* Regeneration implements this specification (ImplementsPublication).     *)
(***************************************************************************)
CONSTANTS Releases, NoRelease, Initial

VARIABLES
    wanted,     \* the release the pin asks for
    published,  \* the release charts/ and RULES.md hold, or NoRelease
    committed,  \* the release of the commit
    phase,      \* "idle", "trying" (the tree is not touched), "building"
    target,     \* the release the run is for
    report      \* how the last run ended, for who looks at the tree

vars == <<wanted, published, committed, phase, target, report>>

Init ==
    /\ wanted = Initial
    /\ published = Initial
    /\ committed = Initial
    /\ phase = "idle"
    /\ target = Initial
    /\ report = "none"

Ask(v) ==
    /\ phase = "idle"
    /\ wanted' = v
    /\ report' = "none"
    /\ UNCHANGED <<published, committed, phase, target>>

Start ==
    /\ phase = "idle"
    /\ phase' = "trying"
    /\ target' = wanted
    /\ report' = "none"
    /\ UNCHANGED <<wanted, published, committed>>

\* A run that was not meant to build, or found it must not: nothing happened.
GiveUp ==
    /\ phase = "trying"
    /\ phase' = "idle"
    /\ report' \in {"none", "failed"}
    /\ UNCHANGED <<wanted, published, committed, target>>

\* The content has been verified and read.
Trust ==
    /\ phase = "trying"
    /\ phase' = "building"
    /\ UNCHANGED <<wanted, published, committed, target, report>>

\* While a run builds, the tree is nobody's.
Disturb ==
    /\ phase = "building"
    /\ published' \in Releases \cup {NoRelease}
    /\ UNCHANGED <<wanted, committed, phase, target, report>>

Break ==
    /\ phase = "building"
    /\ phase' = "idle"
    /\ published' \in Releases \cup {NoRelease}
    /\ report' = "failed"
    /\ UNCHANGED <<wanted, committed, target>>

Succeed ==
    /\ phase = "building"
    /\ phase' = "idle"
    /\ published' = target
    /\ report' = "ok"
    /\ UNCHANGED <<wanted, committed, target>>

Commit ==
    /\ phase = "idle"
    /\ report = "ok"
    /\ committed' = published
    /\ UNCHANGED <<wanted, published, phase, target, report>>

\* The advice to restore the tree brings back the committed release or none.
Restore ==
    /\ phase = "idle"
    /\ report = "failed"
    /\ published' \in {committed, NoRelease}
    /\ report' = "none"
    /\ UNCHANGED <<wanted, committed, phase, target>>

Next ==
    \/ \E v \in Releases : Ask(v)
    \/ Start
    \/ GiveUp
    \/ Trust
    \/ Disturb
    \/ Break
    \/ Succeed
    \/ Commit
    \/ Restore

Spec == Init /\ [][Next]_vars
=============================================================================
