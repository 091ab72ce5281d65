------------------------------ MODULE MCSyncRuns ------------------------------
(* Small instances of SyncRuns. *)
EXTENDS SyncRuns

CONSTANTS c1, w1, w2, old, new
=============================================================================
