----------------------------- MODULE MCAccounts -----------------------------
(***************************************************************************)
(* An instance of Accounts for TLC: one user, who may lead, be a member or *)
(* a broker's login, two teams, one broker, one agency with two names.     *)
(***************************************************************************)
EXTENDS Accounts, TLC

CONSTANTS u1, t1, t2, b1, g1, n1, n2, x1, x2

Alike == Permutations(Users) \cup Permutations(Teams) \cup Permutations(Names) \cup Permutations(Admins)

=============================================================================
