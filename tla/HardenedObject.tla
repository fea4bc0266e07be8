--------------------------- MODULE HardenedObject ---------------------------
(***************************************************************************)
(* What a user may expect of one target object.  Each render, with the     *)
(* values asked for, either leaves the object out because nothing in it is *)
(* wanted, or refuses for a reason that lies in the fixes and the values,  *)
(* or renders at once everything the selected fixes write, and nothing     *)
(* else.  There is no order of fragments here, no accumulator, no table of *)
(* conflicts and no memory from one render to the next.                    *)
(*                                                                         *)
(* ObjectTemplate implements this specification (ImplementsHardening).     *)
(***************************************************************************)
EXTENDS Naturals, Sequences

CONSTANTS Paths, Files, UnionPaths, NoContent, ValuesFiles

VARIABLES
    docs, limits,  \* the fixes of the object, and the role limit of each rule
    values,        \* what the user asks for
    status,        \* "none", "working", "absent", "refused", "rendered"
    object,        \* path -> content, as rendered
    emitted        \* the roles it is rendered for

vars == <<docs, limits, values, status, object, emitted>>

Documents == {docs[i] : i \in DOMAIN docs}

Nothing == [p \in Paths |-> NoContent]

Writes(d, p) == d.body[p] # NoContent

HasBody(d) == \E p \in Paths : Writes(d, p)

Active(v) == {d \in Documents : d.rule \in v.active}

Selected(v) == {d \in Active(v) : HasBody(d) /\ v.version \in d.window}

-----------------------------------------------------------------------------
Unwanted(v) == ~ v.enabled \/ Active(v) = {}

Contested(p) ==
    \E d, e \in Documents : /\ d.rule # e.rule
                            /\ Writes(d, p) /\ Writes(e, p) /\ d.body[p] # e.body[p]

\* Two active rules write a path on which rules differ, or parts of one union.
Rivals(v) ==
    \E d, e \in Active(v) :
        /\ d.rule # e.rule
        /\ \/ \E p \in Paths : Contested(p) /\ Writes(d, p) /\ Writes(e, p)
           \/ \E p, q \in UnionPaths : Writes(d, p) /\ Writes(e, q)

Clashing(v) ==
    \E d, e \in Selected(v), f \in Files :
        Writes(d, f) /\ Writes(e, f) /\ d.body[f] # e.body[f]

Unreadable(v) == \E d \in Selected(v) : d.rule \in v.broken

\* The only reasons to refuse a render.
Excused(v) == Rivals(v) \/ Clashing(v) \/ Unreadable(v) \/ Selected(v) = {}

\* The versions of each rule agree on p wherever both write it.
Consistent(p) ==
    \A d, e \in Documents : d.rule = e.rule /\ Writes(d, p) /\ Writes(e, p) => d.body[p] = e.body[p]

\* The object holds all that is selected, and only that, for the right roles.
Faithful(v, obj, roles) ==
    /\ obj # Nothing
    /\ \A p \in Paths :
           /\ obj[p] # NoContent => \E d \in Selected(v) : d.body[p] = obj[p]
           /\ \A d \in Selected(v) : Writes(d, p) => obj[p] # NoContent
           /\ p \in Files \/ (\A q \in Paths \ Files : Consistent(q)) =>
                  \A d \in Selected(v) : Writes(d, p) => obj[p] = d.body[p]
    /\ \A d \in Selected(v) :
           roles = {r \in v.roles : limits[d.rule] = {} \/ r \in limits[d.rule]}

-----------------------------------------------------------------------------
Init == status = "none" /\ object = Nothing /\ emitted = {}

Refused == status' = "refused" /\ object' = Nothing /\ emitted' = {}

\* A new render, which may be over at once.
Ask(v) ==
    /\ status # "working"
    /\ values' = v
    /\ \/ ~ Unwanted(v) /\ status' = "working" /\ object' = Nothing /\ emitted' = {}
       \/ Unwanted(v) /\ status' = "absent" /\ object' = Nothing /\ emitted' = {}
       \/ ~ Unwanted(v) /\ Excused(v) /\ Refused
    /\ UNCHANGED <<docs, limits>>

Refuse ==
    /\ status = "working"
    /\ Excused(values)
    /\ Refused
    /\ UNCHANGED <<docs, limits, values>>

Render ==
    /\ status = "working"
    /\ Faithful(values, object', emitted')
    /\ status' = "rendered"
    /\ UNCHANGED <<docs, limits, values>>

Next == (\E v \in ValuesFiles : Ask(v)) \/ Refuse \/ Render

Spec == Init /\ [][Next]_vars
=============================================================================
