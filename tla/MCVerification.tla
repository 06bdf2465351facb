--------------------------- MODULE MCVerification ---------------------------
(* VerificationService on a small instance.                                *)
EXTENDS VerificationService

CONSTANTS u1, u2, ana, beto, pw8, t1, t2, t3, r1, r2

MCLower == [e \in RawEmail |-> e]

MCPasswordLen == [p \in Password |-> 8]
=============================================================================
