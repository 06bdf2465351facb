----------------------------- MODULE MCBackend ------------------------------
(* The composition on a small instance: two accounts ever, one email that  *)
(* is registered again, two events.                                        *)
EXTENDS Backend, TLC

CONSTANTS u1, u2, ana, g1, pw8, e1, e2, f1, a, bad, nul, malformed, r1, r2

MCLower == [e \in RawEmail |-> e]

MCPasswordLen == [p \in Password |-> 8]

MCClean == [v \in Value |-> v]

MCItem(i, v, s) == [id |-> i, data |-> [f \in Field |-> v], status |-> s]

(* Items that are there or not, and one that Postgres refuses: its id is   *)
(* no UUID, or its text has a U+0000.                                      *)
MCDocument ==
    {<<MCItem(e1, a, "realizado")>>,
     <<MCItem(Nil, a, "absent"), MCItem(e2, a, "absent")>>,
     <<MCItem(malformed, a, "absent")>>,
     <<MCItem(e1, nul, "absent")>>}

MCSymmetry == Permutations(UserId)
=============================================================================
