---------------------------- MODULE WorkerRuntime ----------------------------
(***************************************************************************)
(* The background job runtime (src/workers/runtime.ts, main.ts): the tick,  *)
(* the cap on running jobs, the pool of database connections they share,    *)
(* the advisory lock that keeps a job to one runtime, --once, and shutdown. *)
(*                                                                          *)
(* Time is counted in ticks: wait[r][j] is how many ticks of runtime r are   *)
(* left before job j is due.  A job is reduced to what it asks of the        *)
(* runtime: one connection held for its lock, then one more to work with.    *)
(***************************************************************************)
EXTENDS Naturals, FiniteSets

CONSTANTS
    Jobs,       \* allJobs()
    Position,   \* the index of a job in that array
    Every,      \* ticks from the end of a run to the first tick that finds it due
    Runtimes,   \* worker processes
    Once,       \* those started with --once
    PoolMax,    \* DATABASE_POOL_MAX
    None,       \* NULL
    Faults      \* what the environment may do wrong

ASSUME JobsAssumption ==
    /\ IsFiniteSet(Jobs)
    /\ Position \in [Jobs -> Nat]
    /\ \A i, j \in Jobs : Position[i] = Position[j] => i = j
    /\ Every \in [Jobs -> Nat \ {0}]
ASSUME PoolAssumption == PoolMax \in Nat /\ PoolMax >= 2
ASSUME RuntimeAssumption == None \notin Runtimes /\ Once \subseteq Runtimes
ASSUME FaultKinds == Faults \subseteq {"kill", "conn_lost"}

VARIABLES
    mode,    \* "down", "up", "once" or "stopping", per runtime
    wait,    \* ticks until each job is due (lastRunAt and everyMs)
    queue,   \* jobs a --once run has not started
    awaited, \* the runs that stop() waits for: #inFlight when it was called
    phase,   \* where each job's run is
    lost,    \* the reserved connection of the run is gone
    holder   \* whose session holds each advisory lock, on the server

vars == <<mode, wait, queue, awaited, phase, lost, holder>>

Phases == {"idle", "reserve", "lock", "start", "work", "unlock"}

TypeOK ==
    /\ mode \in [Runtimes -> {"down", "up", "once", "stopping"}]
    /\ wait \in [Runtimes -> [Jobs -> Nat]]
    /\ \A r \in Runtimes, j \in Jobs : wait[r][j] <= Every[j]
    /\ queue \in [Runtimes -> SUBSET Jobs]
    /\ awaited \in [Runtimes -> SUBSET Jobs]
    /\ phase \in [Runtimes -> [Jobs -> Phases]]
    /\ lost \in [Runtimes -> [Jobs -> BOOLEAN]]
    /\ holder \in [Jobs -> Runtimes \cup {None}]

Init ==
    /\ mode = [r \in Runtimes |-> "down"]
    /\ wait = [r \in Runtimes |-> [j \in Jobs |-> 0]]
    /\ queue = [r \in Runtimes |-> {}]
    /\ awaited = [r \in Runtimes |-> {}]
    /\ phase = [r \in Runtimes |-> [j \in Jobs |-> "idle"]]
    /\ lost = [r \in Runtimes |-> [j \in Jobs |-> FALSE]]
    /\ holder = [j \in Jobs |-> None]

-----------------------------------------------------------------------------
(* Math.max(1, Math.floor(poolMax() / 2)) *)
MaxConcurrent == IF PoolMax \div 2 >= 1 THEN PoolMax \div 2 ELSE 1

InFlight(r) == {j \in Jobs : phase[r][j] # "idle"}

(* The connections of r's pool that are out: one per lock, one per worker.   *)
Reserved(r) ==
    {j \in Jobs : phase[r][j] \in {"lock", "start", "work", "unlock"} /\ ~lost[r][j]}
Working(r) == {j \in Jobs : phase[r][j] = "work"}

(* Mutant: the pool has a connection per slot, where a run needs two. *)
HasFreeSlot(r) == Cardinality(Reserved(r)) + Cardinality(Working(r)) < MaxConcurrent

HasFreeConnection(r) == Cardinality(Reserved(r)) + Cardinality(Working(r)) < PoolMax

(* #due *)
Due(r, w) == {j \in Jobs : phase[r][j] = "idle" /\ w[j] = 0}

(* Mutant: the array is walked from its end. *)
StartsFromEnd(r, due, S) ==
    /\ Cardinality(InFlight(r)) + Cardinality(S) <= MaxConcurrent
    /\ S # due => Cardinality(InFlight(r)) + Cardinality(S) = MaxConcurrent
    /\ \A i \in S, j \in due \ S : Position[i] > Position[j]

(* The jobs one tick starts: the first of the due ones, in array order, until *)
(* the runtime is full.                                                       *)
Starts(r, due, S) ==
    /\ Cardinality(InFlight(r)) + Cardinality(S) <= MaxConcurrent
    /\ S # due => Cardinality(InFlight(r)) + Cardinality(S) = MaxConcurrent
    /\ \A i \in S, j \in due \ S : Position[i] < Position[j]

Begin(r, S) ==
    phase' = [phase EXCEPT ![r] =
                [j \in Jobs |-> IF j \in S THEN "reserve" ELSE phase[r][j]]]

(* start(): every job counts as never run, and the first tick is immediate. *)
Start(r) ==
    /\ r \notin Once
    /\ mode[r] = "down"
    /\ mode' = [mode EXCEPT ![r] = "up"]
    /\ wait' = [wait EXCEPT ![r] = [j \in Jobs |-> 0]]
    /\ \E S \in SUBSET Jobs : Starts(r, Jobs, S) /\ Begin(r, S)
    /\ UNCHANGED <<queue, awaited, lost, holder>>

(* Mutant: the timer's callback does not look at #stopping. *)
TickWhileStopping(r) ==
    LET elapsed == [j \in Jobs |-> IF wait[r][j] = 0 THEN 0 ELSE wait[r][j] - 1]
    IN
    /\ mode[r] \in {"up", "stopping"}
    /\ wait' = [wait EXCEPT ![r] = elapsed]
    /\ \E S \in SUBSET Due(r, elapsed) :
         Starts(r, Due(r, elapsed), S) /\ Begin(r, S)
    /\ UNCHANGED <<mode, queue, awaited, lost, holder>>

(* The timer: time passes, and whatever is due starts while there is room. *)
Tick(r) ==
    LET elapsed == [j \in Jobs |-> IF wait[r][j] = 0 THEN 0 ELSE wait[r][j] - 1]
    IN
    /\ mode[r] = "up"
    /\ wait' = [wait EXCEPT ![r] = elapsed]
    /\ \E S \in SUBSET Due(r, elapsed) :
         Starts(r, Due(r, elapsed), S) /\ Begin(r, S)
    /\ UNCHANGED <<mode, queue, awaited, lost, holder>>

(* runOnce(): lanes take the jobs in order, due or not. *)
StartOnce(r) ==
    /\ r \in Once
    /\ mode[r] = "down"
    /\ mode' = [mode EXCEPT ![r] = "once"]
    /\ queue' = [queue EXCEPT ![r] = Jobs]
    /\ UNCHANGED <<wait, awaited, phase, lost, holder>>

TakeLane(r, j) ==
    /\ mode[r] = "once"
    /\ j \in queue[r]
    /\ \A i \in queue[r] : Position[j] <= Position[i]
    /\ Cardinality(InFlight(r)) < MaxConcurrent
    /\ queue' = [queue EXCEPT ![r] = @ \ {j}]
    /\ Begin(r, {j})
    /\ UNCHANGED <<mode, wait, awaited, lost, holder>>

EndOnce(r) ==
    /\ mode[r] = "once"
    /\ queue[r] = {}
    /\ InFlight(r) = {}
    /\ mode' = [mode EXCEPT ![r] = "down"]
    /\ UNCHANGED <<wait, queue, awaited, phase, lost, holder>>

-----------------------------------------------------------------------------
(* One run of a job: withJobLock around job.run. *)

Goto(r, j, p) == phase' = [phase EXCEPT ![r][j] = p]

(* sql.reserve() waits for a connection of the pool. *)
Reserve(r, j) ==
    /\ phase[r][j] = "reserve"
    /\ HasFreeConnection(r)
    /\ Goto(r, j, "lock")
    /\ UNCHANGED <<mode, wait, queue, awaited, lost, holder>>

(* The end of #runJob, whatever the outcome: lastRunAt is now. *)
EndRun(r, j) ==
    /\ Goto(r, j, "idle")
    /\ wait' = [wait EXCEPT ![r][j] = Every[j]]
    /\ awaited' = [awaited EXCEPT ![r] = @ \ {j}]
    /\ lost' = [lost EXCEPT ![r][j] = FALSE]

(* Mutant: the answer of pg_try_advisory_lock is not looked at. *)
LockUnchecked(r, j) ==
    /\ phase[r][j] = "lock"
    /\ Goto(r, j, "start")
    /\ holder' = [holder EXCEPT ![j] = IF @ = None THEN r ELSE @]
    /\ UNCHANGED <<mode, wait, queue, awaited, lost>>

(* pg_try_advisory_lock never waits: a lock another session holds skips this *)
(* run.                                                                      *)
TryLock(r, j) ==
    /\ phase[r][j] = "lock"
    /\ IF holder[j] = None
       THEN /\ holder' = [holder EXCEPT ![j] = r]
            /\ Goto(r, j, "start")
            /\ UNCHANGED <<wait, awaited, lost>>
       ELSE /\ EndRun(r, j)
            /\ UNCHANGED holder
    /\ UNCHANGED <<mode, queue>>

(* The job's own transactions, one at a time, each on a pooled connection.   *)
BeginWork(r, j) ==
    /\ phase[r][j] = "start"
    /\ HasFreeConnection(r)
    /\ Goto(r, j, "work")
    /\ UNCHANGED <<mode, wait, queue, awaited, lost, holder>>

(* The job returns or throws; either way the finally block is next. *)
EndWork(r, j) ==
    /\ phase[r][j] = "work"
    /\ Goto(r, j, "unlock")
    /\ UNCHANGED <<mode, wait, queue, awaited, lost, holder>>

(* pg_advisory_unlock on the reserved connection, then release().  With the  *)
(* connection gone the unlock throws, and the session's locks go with it.    *)
Unlock(r, j) ==
    /\ phase[r][j] = "unlock"
    /\ holder' = IF lost[r][j] THEN holder ELSE [holder EXCEPT ![j] = None]
    /\ EndRun(r, j)
    /\ UNCHANGED <<mode, queue>>

-----------------------------------------------------------------------------
(* Shutdown. *)

(* stop() takes a snapshot of the runs in flight, and waits for those.        *)
Stop(r) ==
    /\ mode[r] = "up"
    /\ mode' = [mode EXCEPT ![r] = "stopping"]
    /\ awaited' = [awaited EXCEPT ![r] = InFlight(r)]
    /\ UNCHANGED <<wait, queue, phase, lost, holder>>

(* The process ends and takes with it whatever else it was running; sessions  *)
(* that held a lock are left to the server.                                   *)
Die(r) ==
    /\ mode' = [mode EXCEPT ![r] = "down"]
    /\ queue' = [queue EXCEPT ![r] = {}]
    /\ awaited' = [awaited EXCEPT ![r] = {}]
    /\ phase' = [phase EXCEPT ![r] = [j \in Jobs |-> "idle"]]
    /\ lost' = [lost EXCEPT ![r] = [j \in Jobs |-> FALSE]]
    /\ UNCHANGED <<wait, holder>>

(* The runs that were awaited have ended: the pools close, the process exits. *)
Exit(r) ==
    /\ mode[r] = "stopping"
    /\ awaited[r] = {}
    /\ Die(r)

-----------------------------------------------------------------------------
(* Faults. *)

Holds(r, j) == phase[r][j] \in {"start", "work", "unlock"} /\ ~lost[r][j]

(* The process is killed: its sessions are dead, its locks not yet released. *)
Kill(r) ==
    /\ "kill" \in Faults
    /\ mode[r] # "down"
    /\ Die(r)

(* reserve() gets no connection to the server, and the run is over. *)
ReserveFails(r, j) ==
    /\ "conn_lost" \in Faults
    /\ phase[r][j] = "reserve"
    /\ EndRun(r, j)
    /\ UNCHANGED <<mode, queue, holder>>

(* The connection drops under the lock query: the run is over, and the server *)
(* may have given its dead session the lock.                                  *)
LockQueryFails(r, j) ==
    /\ "conn_lost" \in Faults
    /\ phase[r][j] = "lock"
    /\ EndRun(r, j)
    /\ \/ UNCHANGED holder
       \/ holder[j] = None /\ holder' = [holder EXCEPT ![j] = r]
    /\ UNCHANGED <<mode, queue>>

(* The reserved connection drops under a job that goes on running: it works  *)
(* on other connections and asks nothing of this one until it ends.          *)
LoseConnection(r, j) ==
    /\ "conn_lost" \in Faults
    /\ Holds(r, j)
    /\ lost' = [lost EXCEPT ![r][j] = TRUE]
    /\ UNCHANGED <<mode, wait, queue, awaited, phase, holder>>

(* The server notices a dead session and releases its locks. *)
ReapSession(j) ==
    /\ holder[j] # None
    /\ ~Holds(holder[j], j)
    /\ holder' = [holder EXCEPT ![j] = None]
    /\ UNCHANGED <<mode, wait, queue, awaited, phase, lost>>

RunStep(r, j) ==
    \/ Reserve(r, j) \/ TryLock(r, j) \/ BeginWork(r, j) \/ EndWork(r, j)
    \/ Unlock(r, j) \/ TakeLane(r, j)

Next ==
    \/ \E r \in Runtimes :
         \/ Start(r) \/ Tick(r) \/ StartOnce(r) \/ EndOnce(r)
         \/ Stop(r) \/ Exit(r) \/ Kill(r)
    \/ \E r \in Runtimes, j \in Jobs :
         \/ RunStep(r, j)
         \/ ReserveFails(r, j) \/ LockQueryFails(r, j) \/ LoseConnection(r, j)
    \/ \E j \in Jobs : ReapSession(j)

Spec == Init /\ [][Next]_vars

(* The timer keeps firing; a run that can go on goes on; the pool serves its  *)
(* waiters in turn, so one that finds a connection free again and again gets  *)
(* one; the server notices dead sessions.                                     *)
Fairness ==
    /\ \A r \in Runtimes \ Once : WF_vars(Tick(r)) /\ WF_vars(Exit(r))
    /\ \A r \in Once : WF_vars(EndOnce(r))
    /\ \A r \in Runtimes, j \in Jobs :
         WF_vars(RunStep(r, j)) /\ SF_vars(Reserve(r, j) \/ BeginWork(r, j))
    /\ \A j \in Jobs : WF_vars(ReapSession(j))

FairSpec == Spec /\ Fairness

-----------------------------------------------------------------------------
(* Safety. *)

Runs(r, j) == phase[r][j] \in {"start", "work", "unlock"}

(* Two runtimes never run one job at once: "exactly one of them does the     *)
(* work" (runtime.ts), but for a run whose reserved connection was lost under *)
(* it: the server has let go of its lock, and it goes on to its end.         *)
OneRunner ==
    \A r1, r2 \in Runtimes, j \in Jobs :
        Runs(r1, j) /\ Runs(r2, j) => r1 = r2 \/ lost[r1][j] \/ lost[r2][j]

(* The runs in progress never all wait for each other's connections: one of   *)
(* them is past waiting, or there is a connection for any that waits.        *)
SomeRunGoesOn ==
    \A r \in Runtimes :
        InFlight(r) # {} =>
            \/ HasFreeConnection(r)
            \/ \E j \in InFlight(r) : phase[r][j] \in {"lock", "work", "unlock"}

(* Whatever the ticks started, the locks that are held leave a connection of *)
(* the pool to work with.                                                    *)
LocksLeaveRoom ==
    \A r \in Runtimes : Cardinality(Reserved(r)) <= MaxConcurrent /\ MaxConcurrent < PoolMax

(* The pools close only when nothing runs: no job has started between the     *)
(* snapshot stop() waits for and the exit ("SIGTERM closed the pools under a  *)
(* long export render or sync", runtime.ts of the time before #inFlight).     *)
ShutdownIsClean == [][\A r \in Runtimes : Exit(r) => InFlight(r) = {}]_vars

-----------------------------------------------------------------------------
(* Liveness. *)

(* No run waits for ever: the jobs that hold locks cannot all be waiting for *)
(* a connection.                                                             *)
RunsEnd == \A r \in Runtimes, j \in Jobs : phase[r][j] # "idle" ~> phase[r][j] = "idle"

(* Shutdown ends. *)
StopEnds == \A r \in Runtimes \ Once : mode[r] = "stopping" ~> mode[r] = "down"

(* The slots of r are all taken by jobs ahead of j in the array. *)
CrowdedOut(r, j) ==
    Cardinality({i \in InFlight(r) : Position[i] < Position[j]}) >= MaxConcurrent

(* A job the tick passes over "is still due" (runtime.ts): it is started,     *)
(* unless the runtime goes down or jobs ahead of it in the array fill every   *)
(* slot, again and again.  No run that ends, and no job behind it, can keep    *)
(* it waiting.                                                                *)
OnlyJobsAheadDelay ==
    \A r \in Runtimes \ Once, j \in Jobs :
        mode[r] = "up" /\ wait[r][j] = 0
            ~> phase[r][j] = "reserve" \/ mode[r] # "up" \/ CrowdedOut(r, j)

-----------------------------------------------------------------------------
(* The runtimes implement a lock per job, for as long as its connection lasts. *)

Lock == INSTANCE JobLock WITH
    Clients <- Runtimes,
    owner <- [j \in Jobs |-> {r \in Runtimes : Holds(r, j)}]

(* The lock of each job passes from runtime to runtime as JobLock says. *)
LockIsExclusive == Lock!Spec
=============================================================================
