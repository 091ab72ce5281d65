------------------------------- MODULE JobLock -------------------------------
(* What the runtimes promise about their jobs: each is run by nobody or by     *)
(* one client, and passes from one client to another only through being free. *)

CONSTANTS Jobs, Clients

VARIABLE owner   \* the clients that are running each job

Init == owner = [j \in Jobs |-> {}]

Acquired(j) == owner[j] = {} /\ \E c \in Clients : owner'[j] = {c}

Released(j) == owner'[j] = {}

(* A client that dies releases everything it held. *)
Next ==
    /\ DOMAIN owner' = Jobs
    /\ \A j \in Jobs : owner'[j] = owner[j] \/ Acquired(j) \/ Released(j)

Spec == Init /\ [][Next]_owner
=============================================================================
