------------------------------ MODULE MCAccess ------------------------------
(***************************************************************************)
(* Instances of Access for TLC.                                            *)
(***************************************************************************)
EXTENDS Access, TLC

CONSTANTS u1, r1, r2, p1, p2, b1, b2, d1, d2

Alike == Permutations(Roles) \cup Permutations(Web) \cup Permutations(Readers)

=============================================================================
