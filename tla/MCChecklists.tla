---------------------------- MODULE MCChecklists ----------------------------
(* Instances of TaskReminders for TLC. *)
EXTENDS TaskReminders

CONSTANTS w1, w2, ann, bob, s1
=============================================================================
