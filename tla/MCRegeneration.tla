--------------------------- MODULE MCRegeneration ---------------------------
(***************************************************************************)
(* A small instance of Regeneration: one layer's chart and the umbrella,   *)
(* and releases of which the second drops a template and an overlay of the *)
(* first and adds a template, the third is rejected half way, the fourth   *)
(* lacks a datastream and the fifth cannot be parsed.                      *)
(***************************************************************************)
EXTENDS Regeneration, TLC

CONSTANTS r1, r2, r3, r4, r5, other, layer, umbrella, t1, t2, t3, arm, ocp, rhcos

MCChartOrder == <<layer, umbrella>>

MCTemplatesOf == [a \in Artifacts |-> [c \in Charts |->
    IF c = umbrella \/ a = other THEN {}
    ELSE IF a = r1 THEN {t1, t2} ELSE {t2, t3}]]

MCOverlaysOf == [a \in Artifacts |-> [c \in Charts |-> IF a = r1 THEN {arm} ELSE {}]]

MCRejected == [a \in Artifacts |-> IF a = r3 THEN {t2} ELSE {}]

MCHolds == [a \in Artifacts |-> IF a = r4 THEN {ocp} ELSE {ocp, rhcos}]
=============================================================================
