--------------------------- MODULE MCAuthService ----------------------------
(* AuthService on a small instance: two accounts ever, two people with an  *)
(* email each (one of them spelled in two ways), an email with a U+0000,   *)
(* two Google identities.                                                  *)
EXTENDS AuthService, TLC

CONSTANTS u1, u2, ana, ANA, beto, anaNul, g1, g2, pw8, pw73, r1, r2

MCLower == [e \in RawEmail |-> IF e = ANA THEN ana ELSE e]

MCPasswordLen == [p \in Password |-> IF p = pw73 THEN 73 ELSE 8]

MCSymmetry ==
    Permutations(UserId) \cup Permutations(Sub) \cup Permutations(Request)
=============================================================================
