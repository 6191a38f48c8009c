---------------------------- MODULE EntityTable ----------------------------
(***************************************************************************)
(* What a zone promises to whoever looks at it: entities with an id and a  *)
(* place.  An id appears once and never comes back after its entity has    *)
(* gone, so a client may keep what it knows of an entity under its id.     *)
(* Zone.tla is shown to implement this module.                             *)
(***************************************************************************)
EXTENDS Naturals

CONSTANT Places

VARIABLES
    where,  \* the place of each entity
    used    \* the ids given away so far

vars == <<where, used>>

Init ==
    /\ where \in [used -> Places]

Appear(e, p) ==
    /\ e \notin used
    /\ used' = used \cup {e}
    /\ where' = [x \in DOMAIN where \cup {e} |-> IF x = e THEN p ELSE where[x]]

Move(e, p) ==
    /\ where' = [where EXCEPT ![e] = p]
    /\ UNCHANGED used

Vanish(e) ==
    /\ where' = [x \in DOMAIN where \ {e} |-> where[x]]
    /\ UNCHANGED used

Next ==
    \/ \E e \in used' \ used, p \in Places : Appear(e, p)
    \/ \E e \in DOMAIN where : Vanish(e) \/ \E p \in Places : Move(e, p)

Spec == Init /\ [][Next]_vars
=============================================================================
