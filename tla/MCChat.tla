------------------------------- MODULE MCChat -------------------------------
(***************************************************************************)
(* Instances of Chat for TLC.                                              *)
(***************************************************************************)
EXTENDS Chat, TLC

CONSTANTS u1, u2

Alike == Permutations(Users)

=============================================================================
