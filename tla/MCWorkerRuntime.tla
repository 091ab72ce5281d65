--------------------------- MODULE MCWorkerRuntime ---------------------------
(* Small instances of WorkerRuntime: three jobs, in the order a, b, c. *)
EXTENDS WorkerRuntime

CONSTANTS a, b, c, r1, r2

InOrder == [j \in Jobs |-> CASE j = a -> 1 [] j = b -> 2 [] j = c -> 3]

EveryTick == [j \in Jobs |-> 1]
=============================================================================
