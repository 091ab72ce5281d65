---------------------------- MODULE MCAuditChain ----------------------------
(* Instances of AuditChain for TLC. *)
EXTENDS AuditChain, TLC

CONSTANTS e1, e2, e3, a1, a2

Symmetry == Permutations(Events) \cup Permutations(Anchorers)
=============================================================================
