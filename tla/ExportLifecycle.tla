--------------------------- MODULE ExportLifecycle ---------------------------
(***************************************************************************)
(* What the export engine promises about one handover export, without      *)
(* workers, storage or clocks: it is requested once, it may be offered for  *)
(* download once, and once it is closed (revoked, past its TTL, failed) it  *)
(* is never offered again.  Downloads are granted only while it is offered. *)
(***************************************************************************)
EXTENDS Naturals

CONSTANT Jobs

VARIABLES phase,    \* what a user sees of an export
          granted   \* how many downloads have been granted

lifecycleVars == <<phase, granted>>

Init ==
    /\ phase = [j \in Jobs |-> "none"]
    /\ granted = [j \in Jobs |-> 0]

Request(j) ==
    /\ phase[j] = "none"
    /\ phase' = [phase EXCEPT ![j] = "requested"]
    /\ UNCHANGED granted

Offer(j) ==
    /\ phase[j] = "requested"
    /\ phase' = [phase EXCEPT ![j] = "offered"]
    /\ UNCHANGED granted

Grant(j) ==
    /\ phase[j] = "offered"
    /\ granted' = [granted EXCEPT ![j] = @ + 1]
    /\ UNCHANGED phase

Close(j) ==
    /\ phase[j] \in {"requested", "offered"}
    /\ phase' = [phase EXCEPT ![j] = "closed"]
    /\ UNCHANGED granted

Next == \E j \in Jobs : Request(j) \/ Offer(j) \/ Grant(j) \/ Close(j)

Spec == Init /\ [][Next]_lifecycleVars
=============================================================================
