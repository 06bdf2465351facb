----------------------------- MODULE MCAccounts -----------------------------
(* The composition on a small instance.                                    *)
EXTENDS Accounts, TLC

CONSTANTS u1, u2, ana, g1, pw8, t1, t2, r1, v1, v2

MCLower == [e \in RawEmail |-> e]

MCPasswordLen == [p \in Password |-> 8]

MCSymmetry == Permutations(TokenId) \cup Permutations(VRequest)
=============================================================================
