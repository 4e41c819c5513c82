----------------------------- MODULE MCReminders -----------------------------
(***************************************************************************)
(* Instances of Reminders for TLC.                                         *)
(***************************************************************************)
EXTENDS Reminders, TLC

CONSTANTS l1, w1, w2

=============================================================================
