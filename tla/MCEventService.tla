--------------------------- MODULE MCEventService ---------------------------
(* EventService on a small instance.                                       *)
EXTENDS EventService, TLC

CONSTANTS ana, beto, e1, e2, f1, f2, a, b, padded, malformed, r1, r2

MCClean == [v \in Value |-> IF v = padded THEN a ELSE v]

MCItem(i, v, s) == [id |-> i, data |-> [f \in Field |-> v], status |-> s]

MCOneItem == {<<MCItem(e1, a, "absent")>>}

(* Backups of up to two events, with an item that brings no id, items that *)
(* may be there or not, and items with a status that does not exist, an id *)
(* that is not a UUID, or a value that is stored trimmed.                  *)
MCDocument ==
    {<<>>,
     <<MCItem(malformed, a, "absent")>>,
     <<MCItem(e1, padded, "realizado"), MCItem(Nil, a, "absent")>>,
     <<MCItem(e1, a, "absent"), MCItem(e2, a, "unknown")>>}

MCSymmetry == Permutations(User) \cup Permutations(EventRequest)
=============================================================================
