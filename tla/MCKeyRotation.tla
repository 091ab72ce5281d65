---------------------------- MODULE MCKeyRotation ----------------------------
(* Small instances of KeyRotation. *)
EXTENDS KeyRotation, TLC

CONSTANTS s1, s2, e1, u, v, p1, p2, k1

(* The people are interchangeable. *)
People == Permutations(Writers)
=============================================================================
