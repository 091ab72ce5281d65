------------------------- MODULE WorkerRuntime_proofs -------------------------
(***************************************************************************)
(* Proofs about WorkerRuntime, for any number of runtimes and jobs, any pool *)
(* of at least two connections and any periods.                              *)
(***************************************************************************)
EXTENDS WorkerRuntime, FiniteSetTheorems, TLAPS

-----------------------------------------------------------------------------
(* Type correctness. *)

(* A runtime that is down has the types. *)
LEMMA TypeInit == Init => TypeOK
BY JobsAssumption DEF Init, TypeOK, Phases

(* A tick leaves no wait below zero or above its job's interval. *)
LEMMA ElapsedIsType ==
    ASSUME TypeOK, NEW r \in Runtimes
    PROVE  LET elapsed == [j \in Jobs |-> IF wait[r][j] = 0 THEN 0 ELSE wait[r][j] - 1]
           IN  elapsed \in [Jobs -> Nat] /\ \A j \in Jobs : elapsed[j] <= Every[j]
BY JobsAssumption DEF TypeOK

(* Starting jobs puts them in a phase. *)
LEMMA BeginIsType ==
    ASSUME TypeOK, NEW r \in Runtimes, NEW S, Begin(r, S)
    PROVE  phase' \in [Runtimes -> [Jobs -> Phases]]
BY DEF TypeOK, Begin, Phases

(* So does moving one run on. *)
LEMMA GotoIsType ==
    ASSUME TypeOK, NEW r \in Runtimes, NEW j \in Jobs, NEW p \in Phases, Goto(r, j, p)
    PROVE  phase' \in [Runtimes -> [Jobs -> Phases]]
BY DEF TypeOK, Goto

(* The end of a run sets the wait to the job's interval, no more. *)
LEMMA EndRunIsType ==
    ASSUME TypeOK, NEW r \in Runtimes, NEW j \in Jobs, EndRun(r, j)
    PROVE  /\ phase' \in [Runtimes -> [Jobs -> Phases]]
           /\ wait' \in [Runtimes -> [Jobs -> Nat]]
           /\ \A q \in Runtimes, i \in Jobs : wait'[q][i] <= Every[i]
           /\ lost' \in [Runtimes -> [Jobs -> BOOLEAN]]
           /\ awaited' \in [Runtimes -> SUBSET Jobs]
BY JobsAssumption DEF TypeOK, EndRun, Goto, Phases

(* The type invariant is inductive. *)
LEMMA TypeNext == TypeOK /\ [Next]_vars => TypeOK'
<1> SUFFICES ASSUME TypeOK, [Next]_vars PROVE TypeOK'
  OBVIOUS
<1>1. ASSUME NEW r \in Runtimes, Start(r) PROVE TypeOK'
  BY <1>1, BeginIsType, JobsAssumption DEF Start, TypeOK
<1>2. ASSUME NEW r \in Runtimes, Tick(r) PROVE TypeOK'
  <2> DEFINE elapsed == [j \in Jobs |-> IF wait[r][j] = 0 THEN 0 ELSE wait[r][j] - 1]
  <2>1. elapsed \in [Jobs -> Nat] /\ \A j \in Jobs : elapsed[j] <= Every[j]
    BY ElapsedIsType
  <2>2. phase' \in [Runtimes -> [Jobs -> Phases]]
    BY <1>2, BeginIsType DEF Tick
  <2>3. wait' = [wait EXCEPT ![r] = elapsed] /\ UNCHANGED <<mode, queue, awaited, lost, holder>>
    BY <1>2 DEF Tick
  <2> HIDE DEF elapsed
  <2>4. QED
    BY <2>1, <2>2, <2>3 DEF TypeOK
<1>3. ASSUME NEW r \in Runtimes, StartOnce(r) \/ EndOnce(r) \/ Stop(r) PROVE TypeOK'
  <2>1. InFlight(r) \in SUBSET Jobs
    BY DEF InFlight
  <2>2. CASE Stop(r)
    BY <2>1, <2>2 DEF Stop, TypeOK
  <2>3. CASE StartOnce(r)
    BY <2>3 DEF StartOnce, TypeOK
  <2>4. CASE EndOnce(r)
    BY <2>4 DEF EndOnce, TypeOK
  <2>5. QED
    BY <1>3, <2>2, <2>3, <2>4
<1>4. ASSUME NEW r \in Runtimes, Kill(r) \/ Exit(r) PROVE TypeOK'
  <2>1. Die(r)
    BY <1>4 DEF Kill, Exit
  <2>2. /\ mode' \in [Runtimes -> {"down", "up", "once", "stopping"}]
        /\ queue' \in [Runtimes -> SUBSET Jobs]
        /\ awaited' \in [Runtimes -> SUBSET Jobs]
    BY <2>1 DEF Die, TypeOK
  <2>3. phase' \in [Runtimes -> [Jobs -> Phases]]
    BY <2>1 DEF Die, TypeOK, Phases
  <2>4. lost' \in [Runtimes -> [Jobs -> BOOLEAN]]
    BY <2>1 DEF Die, TypeOK
  <2>5. QED
    BY <2>1, <2>2, <2>3, <2>4 DEF Die, TypeOK
<1>5. ASSUME NEW r \in Runtimes, NEW j \in Jobs, RunStep(r, j) PROVE TypeOK'
  <2>1. CASE Reserve(r, j) \/ BeginWork(r, j) \/ EndWork(r, j)
    <3>1. phase' \in [Runtimes -> [Jobs -> Phases]]
      BY <2>1, GotoIsType DEF Reserve, BeginWork, EndWork, Phases
    <3>2. QED
      BY <2>1, <3>1 DEF Reserve, BeginWork, EndWork, TypeOK
  <2>2. CASE TryLock(r, j)
    <3>1. CASE holder[j] = None
      <4>1. phase' \in [Runtimes -> [Jobs -> Phases]]
        BY <2>2, <3>1, GotoIsType DEF TryLock, Phases
      <4>2. QED
        BY <2>2, <3>1, <4>1 DEF TryLock, TypeOK
    <3>2. CASE holder[j] # None
      BY <2>2, <3>2, EndRunIsType DEF TryLock, TypeOK
    <3>3. QED
      BY <3>1, <3>2
  <2>3. CASE Unlock(r, j)
    <3>1. holder' \in [Jobs -> Runtimes \cup {None}]
      BY <2>3 DEF Unlock, TypeOK
    <3>2. QED
      BY <2>3, <3>1, EndRunIsType DEF Unlock, TypeOK
  <2>4. CASE TakeLane(r, j)
    BY <2>4, BeginIsType DEF TakeLane, TypeOK
  <2>5. QED
    BY <1>5, <2>1, <2>2, <2>3, <2>4 DEF RunStep
<1>6. ASSUME NEW r \in Runtimes, NEW j \in Jobs, LoseConnection(r, j) PROVE TypeOK'
  BY <1>6 DEF LoseConnection, TypeOK
<1>7. ASSUME NEW r \in Runtimes, NEW j \in Jobs, ReserveFails(r, j) \/ LockQueryFails(r, j)
      PROVE  TypeOK'
  <2>1. EndRun(r, j) /\ UNCHANGED <<mode, queue>>
    BY <1>7 DEF ReserveFails, LockQueryFails
  <2>2. holder' \in [Jobs -> Runtimes \cup {None}]
    BY <1>7 DEF ReserveFails, LockQueryFails, TypeOK
  <2>3. QED
    BY <2>1, <2>2, EndRunIsType DEF TypeOK
<1>8. ASSUME NEW j \in Jobs, ReapSession(j) PROVE TypeOK'
  BY <1>8 DEF ReapSession, TypeOK
<1>9. CASE UNCHANGED vars
  BY <1>9 DEF vars, TypeOK
<1>10. QED
  BY <1>1, <1>2, <1>3, <1>4, <1>5, <1>6, <1>7, <1>8, <1>9 DEF Next

(* The runtime is type-correct; in particular no job ever waits longer than  *)
(* its period (TypeOK).                                                      *)
THEOREM TypeCorrect == Spec => []TypeOK
BY TypeInit, TypeNext, PTL DEF Spec

-----------------------------------------------------------------------------
(* The advisory locks.  What a runtime believes it holds, the server holds   *)
(* for it, until the reserved connection is gone.                            *)

HolderInv == \A r \in Runtimes, j \in Jobs : Holds(r, j) => holder[j] = r
LostInv == "conn_lost" \notin Faults => \A r \in Runtimes, j \in Jobs : ~lost[r][j]

LockInv == HolderInv /\ LostInv

(* A step that lets nobody in keeps the locks, if it releases none.          *)
LEMMA LocksKept ==
    ASSUME LockInv, holder' = holder,
           \A r \in Runtimes, j \in Jobs : Holds(r, j)' => Holds(r, j),
           \A r \in Runtimes, j \in Jobs : lost'[r][j] => lost[r][j]
    PROVE  LockInv'
BY DEF LockInv, HolderInv, LostInv

(* Starting a run holds no lock yet. *)
LEMMA BeginHolds ==
    ASSUME TypeOK, NEW r \in Runtimes, NEW S, Begin(r, S), lost' = lost
    PROVE  \A q \in Runtimes, j \in Jobs : Holds(q, j)' => Holds(q, j)
BY DEF TypeOK, Begin, Holds

(* The end of a run lets go of its lock and of nothing else. *)
LEMMA EndRunHolds ==
    ASSUME TypeOK, NEW r \in Runtimes, NEW j \in Jobs, EndRun(r, j)
    PROVE  /\ ~Holds(r, j)'
           /\ \A q \in Runtimes, i \in Jobs : Holds(q, i)' => Holds(q, i)
           /\ \A q \in Runtimes, i \in Jobs : lost'[q][i] => lost[q][i]
BY DEF TypeOK, EndRun, Goto, Holds

(* The locks a runtime believes it holds stay its own in every step. *)
LEMMA LockInvNext == TypeOK /\ LockInv /\ [Next]_vars => LockInv'
<1> SUFFICES ASSUME TypeOK, LockInv, [Next]_vars PROVE LockInv'
  OBVIOUS
<1>1. ASSUME NEW r \in Runtimes, Start(r) \/ Tick(r) PROVE LockInv'
  BY <1>1, BeginHolds, LocksKept DEF Start, Tick
<1>2. ASSUME NEW r \in Runtimes, StartOnce(r) \/ EndOnce(r) \/ Stop(r) PROVE LockInv'
  BY <1>2, LocksKept DEF StartOnce, EndOnce, Stop, Holds
<1>3. ASSUME NEW r \in Runtimes, Kill(r) \/ Exit(r) PROVE LockInv'
  <2> Die(r)
    BY <1>3 DEF Kill, Exit
  <2>1. \A q \in Runtimes, j \in Jobs : Holds(q, j)' => Holds(q, j)
    BY DEF Die, Holds, TypeOK
  <2>2. \A q \in Runtimes, j \in Jobs : lost'[q][j] => lost[q][j]
    BY DEF Die, TypeOK
  <2>3. QED
    BY <2>1, <2>2, LocksKept DEF Die
<1>4. ASSUME NEW r \in Runtimes, NEW j \in Jobs, RunStep(r, j) PROVE LockInv'
  <2>1. CASE Reserve(r, j) \/ EndWork(r, j) \/ BeginWork(r, j)
    <3>1. \A q \in Runtimes, i \in Jobs : Holds(q, i)' => Holds(q, i)
      <4>1. CASE Reserve(r, j)
        BY <4>1 DEF Reserve, Goto, Holds, TypeOK
      <4>2. CASE EndWork(r, j)
        BY <4>2 DEF EndWork, Goto, Holds, TypeOK
      <4>3. CASE BeginWork(r, j)
        BY <4>3 DEF BeginWork, Goto, Holds, TypeOK
      <4>4. QED
        BY <2>1, <4>1, <4>2, <4>3
    <3>2. QED
      BY <2>1, <3>1, LocksKept DEF Reserve, EndWork, BeginWork
  <2>2. CASE TryLock(r, j)
    <3>1. CASE holder[j] = None
      <4>1. /\ holder' = [holder EXCEPT ![j] = r]
            /\ phase' = [phase EXCEPT ![r][j] = "start"]
            /\ lost' = lost
        BY <2>2, <3>1 DEF TryLock, Goto
      <4>2. \A q \in Runtimes : ~Holds(q, j)
        BY <3>1, RuntimeAssumption DEF LockInv, HolderInv
      <4>3. \A q \in Runtimes, i \in Jobs : Holds(q, i)' => Holds(q, i) \/ (q = r /\ i = j)
        BY <4>1 DEF Holds, TypeOK
      <4>4. HolderInv'
        BY <4>1, <4>2, <4>3 DEF LockInv, HolderInv, TypeOK
      <4>5. QED
        BY <4>1, <4>4 DEF LockInv, LostInv
    <3>2. CASE holder[j] # None
      BY <2>2, <3>2, EndRunHolds, LocksKept DEF TryLock
    <3>3. QED
      BY <3>1, <3>2
  <2>3. CASE Unlock(r, j)
    <3>1. EndRun(r, j)
      BY <2>3 DEF Unlock
    <3>2. CASE lost[r][j]
      BY <2>3, <3>1, <3>2, EndRunHolds, LocksKept DEF Unlock
    <3>3. CASE ~lost[r][j]
      <4>1. Holds(r, j) /\ holder' = [holder EXCEPT ![j] = None]
        BY <2>3, <3>3 DEF Unlock, Holds
      <4>2. \A q \in Runtimes : ~Holds(q, j)'
        BY <3>1, <4>1, EndRunHolds DEF LockInv, HolderInv
      <4>3. HolderInv'
        BY <3>1, <4>1, <4>2, EndRunHolds DEF LockInv, HolderInv, TypeOK
      <4>4. QED
        BY <3>1, <4>3, EndRunHolds DEF LockInv, LostInv
    <3>4. QED
      BY <3>2, <3>3
  <2>4. CASE TakeLane(r, j)
    BY <2>4, BeginHolds, LocksKept DEF TakeLane
  <2>5. QED
    BY <1>4, <2>1, <2>2, <2>3, <2>4 DEF RunStep
<1>5. ASSUME NEW r \in Runtimes, NEW j \in Jobs, LoseConnection(r, j) PROVE LockInv'
  <2>1. \A q \in Runtimes, i \in Jobs : Holds(q, i)' => Holds(q, i)
    BY <1>5 DEF LoseConnection, Holds, TypeOK
  <2>2. QED
    BY <1>5, <2>1 DEF LoseConnection, LockInv, HolderInv, LostInv
<1>9. ASSUME NEW r \in Runtimes, NEW j \in Jobs, ReserveFails(r, j) \/ LockQueryFails(r, j)
      PROVE  LockInv'
  <2>1. EndRun(r, j)
    BY <1>9 DEF ReserveFails, LockQueryFails
  <2>2. CASE holder' = holder
    BY <2>1, <2>2, EndRunHolds, LocksKept
  <2>3. CASE holder[j] = None /\ holder' = [holder EXCEPT ![j] = r]
    <3>1. \A q \in Runtimes : ~Holds(q, j)
      BY <2>3, RuntimeAssumption DEF LockInv, HolderInv
    <3>2. HolderInv'
      BY <2>1, <2>3, <3>1, EndRunHolds DEF LockInv, HolderInv, TypeOK
    <3>3. QED
      BY <2>1, <3>2, EndRunHolds DEF LockInv, LostInv
  <2>4. QED
    BY <1>9, <2>2, <2>3 DEF ReserveFails, LockQueryFails
<1>6. ASSUME NEW j \in Jobs, ReapSession(j) PROVE LockInv'
  <2>1. \A q \in Runtimes : ~Holds(q, j)
    BY <1>6 DEF ReapSession, LockInv, HolderInv
  <2>2. \A q \in Runtimes, i \in Jobs : Holds(q, i)' = Holds(q, i)
    BY <1>6 DEF ReapSession, Holds
  <2>3. QED
    BY <1>6, <2>1, <2>2 DEF ReapSession, LockInv, HolderInv, LostInv, TypeOK
<1>7. CASE UNCHANGED vars
  BY <1>7, LocksKept DEF vars, Holds
<1>8. QED
  BY <1>1, <1>2, <1>3, <1>4, <1>5, <1>6, <1>7, <1>9 DEF Next

(* Nobody holds a lock at first. *)
LEMMA LockInvInit == Init => LockInv
BY DEF Init, LockInv, HolderInv, LostInv, Holds

(* A run that still has its reserved connection holds the lock, and a lock   *)
(* has one holder.                                                           *)
LEMMA HoldersRun == LockInv => OneRunner
BY DEF LockInv, HolderInv, Holds, Runs, OneRunner

(* A job runs on one runtime at a time, whatever is killed and however late  *)
(* the server notices, but for runs that have lost the connection of their   *)
(* lock (OneRunner).                                                         *)
THEOREM JobsRunOnce == Spec => []OneRunner
BY HoldersRun, TypeInit, TypeNext, LockInvInit, LockInvNext, PTL DEF Spec

(* Where no lock's connection drops under its job, that is no exception:      *)
(* "exactly one of them does the work" (runtime.ts).                         *)
THEOREM ConnectedJobsRunOnce ==
    ASSUME "conn_lost" \notin Faults
    PROVE  Spec => [](\A r1, r2 \in Runtimes, j \in Jobs :
                          Runs(r1, j) /\ Runs(r2, j) => r1 = r2)
<1>1. LockInv => \A r1, r2 \in Runtimes, j \in Jobs : Runs(r1, j) /\ Runs(r2, j) => r1 = r2
  BY DEF LockInv, HolderInv, LostInv, Holds, Runs
<1>2. QED
  BY <1>1, TypeInit, TypeNext, LockInvInit, LockInvNext, PTL DEF Spec

-----------------------------------------------------------------------------
(* The runtimes implement JobLock. *)

owners == [j \in Jobs |-> {r \in Runtimes : Holds(r, j)}]

(* A runtime that comes to hold a job's lock found it held by nobody. *)
LEMMA EntryIsExclusive ==
    ASSUME TypeOK, LockInv, [Next]_vars,
           NEW r \in Runtimes, NEW j \in Jobs, Holds(r, j)', ~Holds(r, j)
    PROVE  \A q \in Runtimes : ~Holds(q, j)
<1>1. SUFFICES holder[j] = None
  BY <1>1, RuntimeAssumption DEF LockInv, HolderInv
<1>2. ASSUME NEW q \in Runtimes, Start(q) \/ Tick(q) PROVE FALSE
  BY <1>2, BeginHolds DEF Start, Tick
<1>3. ASSUME NEW q \in Runtimes, StartOnce(q) \/ EndOnce(q) \/ Stop(q) PROVE FALSE
  BY <1>3 DEF StartOnce, EndOnce, Stop, Holds
<1>4. ASSUME NEW q \in Runtimes, Kill(q) \/ Exit(q) PROVE FALSE
  <2>1. Die(q)
    BY <1>4 DEF Kill, Exit
  <2>2. QED
    BY <2>1 DEF Die, Holds, TypeOK
<1>5. ASSUME NEW q \in Runtimes, NEW i \in Jobs, RunStep(q, i) PROVE holder[j] = None
  <2>1. CASE Reserve(q, i)
    BY <2>1 DEF Reserve, Goto, Holds, TypeOK
  <2>2. CASE BeginWork(q, i)
    BY <2>2 DEF BeginWork, Goto, Holds, TypeOK
  <2>3. CASE EndWork(q, i)
    BY <2>3 DEF EndWork, Goto, Holds, TypeOK
  <2>4. CASE TryLock(q, i)
    <3>1. CASE holder[i] = None
      <4>1. phase' = [phase EXCEPT ![q][i] = "start"] /\ lost' = lost
        BY <2>4, <3>1 DEF TryLock, Goto
      <4>2. r = q /\ j = i
        BY <4>1 DEF Holds, TypeOK
      <4>3. QED
        BY <3>1, <4>2
    <3>2. CASE holder[i] # None
      <4>1. EndRun(q, i)
        BY <2>4, <3>2 DEF TryLock
      <4>2. QED
        BY <4>1, EndRunHolds
    <3>3. QED
      BY <3>1, <3>2
  <2>5. CASE Unlock(q, i)
    <3>1. EndRun(q, i)
      BY <2>5 DEF Unlock
    <3>2. QED
      BY <3>1, EndRunHolds
  <2>6. CASE TakeLane(q, i)
    BY <2>6, BeginHolds DEF TakeLane
  <2>7. QED
    BY <1>5, <2>1, <2>2, <2>3, <2>4, <2>5, <2>6 DEF RunStep
<1>6. ASSUME NEW q \in Runtimes, NEW i \in Jobs, LoseConnection(q, i) PROVE FALSE
  BY <1>6 DEF LoseConnection, Holds, TypeOK
<1>7. ASSUME NEW i \in Jobs, ReapSession(i) PROVE FALSE
  BY <1>7 DEF ReapSession, Holds
<1>8. CASE UNCHANGED vars
  BY <1>8 DEF vars, Holds
<1>9. ASSUME NEW q \in Runtimes, NEW i \in Jobs, ReserveFails(q, i) \/ LockQueryFails(q, i)
      PROVE  FALSE
  BY <1>9, EndRunHolds DEF ReserveFails, LockQueryFails
<1>10. QED
  BY <1>2, <1>3, <1>4, <1>5, <1>6, <1>7, <1>8, <1>9 DEF Next

(* Every step of the runtimes is a step of JobLock or leaves it alone. *)
LEMMA LockStep ==
    ASSUME TypeOK, LockInv, TypeOK', LockInv', [Next]_vars
    PROVE  [Lock!Next]_owners
<1>1. SUFFICES ASSUME NEW j \in Jobs
               PROVE  \/ owners'[j] = owners[j]
                      \/ owners[j] = {} /\ \E c \in Runtimes : owners'[j] = {c}
                      \/ owners'[j] = {}
  BY <1>1 DEF Lock!Next, Lock!Acquired, Lock!Released, owners
<1>2. owners[j] = {r \in Runtimes : Holds(r, j)}
      /\ owners'[j] = {r \in Runtimes : Holds(r, j)'}
  BY DEF owners
<1>3. \A q, r \in Runtimes : /\ Holds(q, j) /\ Holds(r, j) => q = r
                             /\ Holds(q, j)' /\ Holds(r, j)' => q = r
  BY DEF LockInv, HolderInv
<1>4. CASE \E r \in Runtimes : Holds(r, j)' /\ ~Holds(r, j)
  <2>1. PICK r \in Runtimes : Holds(r, j)' /\ ~Holds(r, j)
    BY <1>4
  <2>2. \A q \in Runtimes : ~Holds(q, j)
    BY <2>1, EntryIsExclusive
  <2>3. owners[j] = {}
    BY <1>2, <2>2
  <2>4. owners'[j] = {r}
    BY <1>2, <1>3, <2>1
  <2>5. QED
    BY <2>3, <2>4
<1>5. CASE \A r \in Runtimes : Holds(r, j)' => Holds(r, j)
  <2>1. owners'[j] = {} \/ owners'[j] = owners[j]
    BY <1>2, <1>3, <1>5
  <2>2. QED
    BY <2>1
<1>6. QED
  BY <1>4, <1>5

(* The lock of a job passes from one runtime to another only through being   *)
(* free, under every fault (LockIsExclusive).                                *)
THEOREM RuntimesAreALock == Spec => LockIsExclusive
<1>1. Init => Lock!Init
  BY DEF Init, Lock!Init, Holds
<1>2. TypeOK /\ LockInv /\ TypeOK' /\ LockInv' /\ [Next]_vars => [Lock!Next]_owners
  BY LockStep
<1>3. QED
  BY <1>1, <1>2, TypeInit, TypeNext, LockInvInit, LockInvNext, PTL
  DEF Spec, LockIsExclusive, Lock!Spec, owners

-----------------------------------------------------------------------------
(* The cap.  Every connection a lock holds belongs to a run the cap counts,  *)
(* so it is enough that each way to start a run respects it.                 *)

CapInv == \A r \in Runtimes : Cardinality(InFlight(r)) <= MaxConcurrent

(* Half the pool, and always fewer than all of it, as the pool has at least  *)
(* two.                                                                      *)
LEMMA CapIsNat == MaxConcurrent \in Nat /\ MaxConcurrent < PoolMax
BY PoolAssumption DEF MaxConcurrent

(* The runs in progress can be counted. *)
LEMMA InFlightIsFinite ==
    \A r \in Runtimes : IsFiniteSet(InFlight(r)) /\ Cardinality(InFlight(r)) \in Nat
<1> SUFFICES ASSUME NEW r \in Runtimes
             PROVE  IsFiniteSet(InFlight(r)) /\ Cardinality(InFlight(r)) \in Nat
  OBVIOUS
<1>1. IsFiniteSet(InFlight(r))
  BY JobsAssumption, FS_Subset DEF InFlight
<1>2. QED
  BY <1>1, FS_CardinalityType

(* A step after which no more runs are in progress than before respects the  *)
(* cap.                                                                      *)
LEMMA CapKept ==
    ASSUME CapInv, \A q \in Runtimes, i \in Jobs : phase'[q][i] # "idle" => phase[q][i] # "idle"
    PROVE  CapInv'
<1> SUFFICES ASSUME NEW q \in Runtimes
             PROVE  Cardinality(InFlight(q)') <= MaxConcurrent
  BY DEF CapInv, MaxConcurrent
<1>1. InFlight(q)' \subseteq InFlight(q)
  BY DEF InFlight
<1>2. Cardinality(InFlight(q)') <= Cardinality(InFlight(q)) /\ Cardinality(InFlight(q)') \in Nat
  BY <1>1, InFlightIsFinite, FS_Subset, FS_CardinalityType
<1>3. QED
  BY <1>2, InFlightIsFinite, CapIsNat DEF CapInv

(* Starts() counts what is in flight, so starting jobs keeps the cap. *)
LEMMA CapBegin ==
    ASSUME TypeOK, CapInv, NEW r \in Runtimes, NEW S \in SUBSET Jobs, Begin(r, S),
           Cardinality(InFlight(r)) + Cardinality(S) <= MaxConcurrent
    PROVE  CapInv'
<1>1. InFlight(r)' \subseteq InFlight(r) \cup S
  BY DEF InFlight, Begin, TypeOK
<1>2. \A q \in Runtimes \ {r} : InFlight(q)' = InFlight(q)
  BY DEF InFlight, Begin, TypeOK
<1>3. IsFiniteSet(S) /\ Cardinality(S) \in Nat /\ IsFiniteSet(InFlight(r))
  BY JobsAssumption, InFlightIsFinite, FS_Subset, FS_CardinalityType
<1>4. /\ IsFiniteSet(InFlight(r) \cup S)
      /\ Cardinality(InFlight(r) \cup S) \in Nat
      /\ Cardinality(InFlight(r) \cup S) <= Cardinality(InFlight(r)) + Cardinality(S)
  <2>1. IsFiniteSet(InFlight(r) \cap S) /\ Cardinality(InFlight(r) \cap S) \in Nat
    BY <1>3, FS_Subset, FS_CardinalityType
  <2>2. /\ IsFiniteSet(InFlight(r) \cup S)
        /\ Cardinality(InFlight(r) \cup S)
             = Cardinality(InFlight(r)) + Cardinality(S) - Cardinality(InFlight(r) \cap S)
    BY <1>3, FS_Union
  <2>3. QED
    BY <1>3, <2>1, <2>2, InFlightIsFinite, FS_CardinalityType
<1>5. Cardinality(InFlight(r)') <= MaxConcurrent
  <2>1. /\ Cardinality(InFlight(r)') \in Nat
        /\ Cardinality(InFlight(r)') <= Cardinality(InFlight(r) \cup S)
    BY <1>1, <1>4, FS_Subset, FS_CardinalityType
  <2>2. QED
    BY <2>1, <1>3, <1>4, InFlightIsFinite, CapIsNat
<1>6. QED
  BY <1>2, <1>5 DEF CapInv, MaxConcurrent

(* The cap holds in every step: only ticks and lanes start runs, and both    *)
(* look at it.                                                               *)
LEMMA CapNext == TypeOK /\ CapInv /\ [Next]_vars => CapInv'
<1> SUFFICES ASSUME TypeOK, CapInv, [Next]_vars PROVE CapInv'
  OBVIOUS
<1>1. ASSUME NEW r \in Runtimes, Start(r) PROVE CapInv'
  <2>1. PICK S \in SUBSET Jobs : Starts(r, Jobs, S) /\ Begin(r, S)
    BY <1>1 DEF Start
  <2>2. QED
    BY <2>1, CapBegin DEF Starts
<1>2. ASSUME NEW r \in Runtimes, Tick(r) PROVE CapInv'
  <2> DEFINE elapsed == [j \in Jobs |-> IF wait[r][j] = 0 THEN 0 ELSE wait[r][j] - 1]
  <2>1. PICK S \in SUBSET Due(r, elapsed) : Starts(r, Due(r, elapsed), S) /\ Begin(r, S)
    BY <1>2 DEF Tick
  <2>2. S \in SUBSET Jobs
    BY DEF Due
  <2>3. QED
    BY <2>1, <2>2, CapBegin DEF Starts
<1>3. ASSUME NEW r \in Runtimes, StartOnce(r) \/ EndOnce(r) \/ Stop(r) PROVE CapInv'
  BY <1>3, CapKept DEF StartOnce, EndOnce, Stop
<1>4. ASSUME NEW r \in Runtimes, Kill(r) \/ Exit(r) PROVE CapInv'
  <2>1. phase \in [Runtimes -> [Jobs -> Phases]]
    BY DEF TypeOK
  <2>2. phase' = [phase EXCEPT ![r] = [j \in Jobs |-> "idle"]]
    BY <1>4 DEF Kill, Exit, Die
  <2>3. \A q \in Runtimes, i \in Jobs : phase'[q][i] # "idle" => phase[q][i] # "idle"
    BY <2>1, <2>2
  <2>4. QED
    BY <2>3, CapKept
<1>5. ASSUME NEW r \in Runtimes, NEW j \in Jobs, RunStep(r, j) PROVE CapInv'
  <2>1. CASE Reserve(r, j)
    BY <2>1, CapKept DEF Reserve, Goto, TypeOK
  <2>2. CASE BeginWork(r, j)
    BY <2>2, CapKept DEF BeginWork, Goto, TypeOK
  <2>3. CASE EndWork(r, j)
    BY <2>3, CapKept DEF EndWork, Goto, TypeOK
  <2>4. CASE TryLock(r, j)
    <3>1. PICK p \in Phases : phase' = [phase EXCEPT ![r][j] = p]
      BY <2>4 DEF TryLock, EndRun, Goto, Phases
    <3>2. phase[r][j] # "idle"
      BY <2>4 DEF TryLock
    <3>3. QED
      BY <3>1, <3>2, CapKept DEF TypeOK
  <2>5. CASE Unlock(r, j)
    <3>1. phase' = [phase EXCEPT ![r][j] = "idle"]
      BY <2>5 DEF Unlock, EndRun, Goto
    <3>2. QED
      BY <3>1, CapKept DEF TypeOK
  <2>6. CASE TakeLane(r, j)
    <3>1. Begin(r, {j}) /\ Cardinality(InFlight(r)) < MaxConcurrent
      BY <2>6 DEF TakeLane
    <3>2. Cardinality({j}) = 1
      BY FS_Singleton
    <3>3. Cardinality(InFlight(r)) + Cardinality({j}) <= MaxConcurrent
      BY <3>1, <3>2, InFlightIsFinite, CapIsNat
    <3>4. QED
      BY <3>1, <3>3, CapBegin
  <2>7. QED
    BY <1>5, <2>1, <2>2, <2>3, <2>4, <2>5, <2>6 DEF RunStep
<1>6. ASSUME NEW r \in Runtimes, NEW j \in Jobs, LoseConnection(r, j) PROVE CapInv'
  BY <1>6, CapKept DEF LoseConnection
<1>7. ASSUME NEW j \in Jobs, ReapSession(j) PROVE CapInv'
  BY <1>7, CapKept DEF ReapSession
<1>8. CASE UNCHANGED vars
  BY <1>8, CapKept DEF vars
<1>9. ASSUME NEW r \in Runtimes, NEW j \in Jobs, ReserveFails(r, j) \/ LockQueryFails(r, j)
      PROVE  CapInv'
  <2>1. phase' = [phase EXCEPT ![r][j] = "idle"]
    BY <1>9 DEF ReserveFails, LockQueryFails, EndRun, Goto
  <2>2. QED
    BY <2>1, CapKept DEF TypeOK
<1>10. QED
  BY <1>1, <1>2, <1>3, <1>4, <1>5, <1>6, <1>7, <1>8, <1>9 DEF Next

(* Nothing is in flight at first. *)
LEMMA CapInit == Init => CapInv
<1> SUFFICES ASSUME Init, NEW r \in Runtimes PROVE Cardinality(InFlight(r)) <= MaxConcurrent
  BY DEF CapInv
<1>1. InFlight(r) = {}
  BY DEF Init, InFlight
<1>2. QED
  BY <1>1, CapIsNat, FS_EmptySet

(* Every reserved connection belongs to a run in flight. *)
LEMMA CapLeavesRoom == CapInv => LocksLeaveRoom
<1> SUFFICES ASSUME CapInv, NEW r \in Runtimes
             PROVE  Cardinality(Reserved(r)) <= MaxConcurrent
  BY CapIsNat DEF LocksLeaveRoom
<1>1. Reserved(r) \subseteq InFlight(r)
  BY DEF Reserved, InFlight
<1>2. Cardinality(Reserved(r)) <= Cardinality(InFlight(r)) /\ Cardinality(Reserved(r)) \in Nat
  BY <1>1, InFlightIsFinite, FS_Subset, FS_CardinalityType
<1>3. QED
  BY <1>2, InFlightIsFinite, CapIsNat DEF CapInv

(* However ticks, --once lanes, kills and lost connections interleave, the   *)
(* locks a runtime holds leave it a connection to work with                  *)
(* (LocksLeaveRoom).                                                         *)
THEOREM PoolIsNeverAllLocks == Spec => []LocksLeaveRoom
<1>1. QED
  BY TypeInit, TypeNext, CapInit, CapNext, CapLeavesRoom, PTL DEF Spec

(* What waits for a connection while nothing works finds one: the locks in   *)
(* use are fewer than the pool.                                              *)
LEMMA RoomWhileWaiting ==
    ASSUME LocksLeaveRoom, NEW r \in Runtimes, Working(r) = {}
    PROVE  HasFreeConnection(r)
<1>1. Cardinality(Working(r)) = 0
  BY FS_EmptySet
<1>2. Reserved(r) \subseteq InFlight(r)
  BY DEF Reserved, InFlight
<1>3. Cardinality(Reserved(r)) \in Nat
  BY <1>2, InFlightIsFinite, FS_Subset, FS_CardinalityType
<1>4. QED
  BY <1>1, <1>3, CapIsNat, PoolAssumption DEF LocksLeaveRoom, HasFreeConnection

(* Runs that hold a lock never all wait for a connection that only another of *)
(* them could give back (SomeRunGoesOn): what no number of tests with a large *)
(* pool would show.                                                          *)
THEOREM RunsNeverWaitInACircle == Spec => []SomeRunGoesOn
<1>1. LocksLeaveRoom => SomeRunGoesOn
  <2> SUFFICES ASSUME LocksLeaveRoom, NEW r \in Runtimes, ~HasFreeConnection(r)
               PROVE  \E j \in InFlight(r) : phase[r][j] \in {"lock", "work", "unlock"}
    BY DEF SomeRunGoesOn
  <2>1. PICK j \in Working(r) : TRUE
    BY RoomWhileWaiting
  <2>2. j \in InFlight(r) /\ phase[r][j] = "work"
    BY <2>1 DEF Working, InFlight
  <2>3. QED
    BY <2>2
<1>2. QED
  BY <1>1, PoolIsNeverAllLocks, PTL

-----------------------------------------------------------------------------
(* Shutdown.  The snapshot that stop() waits for stays complete: a runtime     *)
(* that is stopping runs nothing that was not in flight when it was asked.     *)

AwaitedInv == \A r \in Runtimes : mode[r] = "stopping" => InFlight(r) \subseteq awaited[r]

(* Starting runs concerns the runtime that starts them. *)
LEMMA BeginIsLocal ==
    ASSUME TypeOK, NEW r \in Runtimes, NEW S, Begin(r, S)
    PROVE  \A q \in Runtimes \ {r} : InFlight(q)' = InFlight(q)
BY DEF TypeOK, Begin, InFlight

(* A run that moves on, or ends, leaves the others in flight. *)
LEMMA EndRunIsAwaited ==
    ASSUME TypeOK, AwaitedInv, NEW r \in Runtimes, NEW j \in Jobs, EndRun(r, j), mode' = mode
    PROVE  AwaitedInv'
<1>1. \A q \in Runtimes : InFlight(q)' \subseteq InFlight(q)
  BY DEF TypeOK, EndRun, Goto, InFlight
<1>2. j \notin InFlight(r)'
  BY DEF TypeOK, EndRun, Goto, InFlight
<1>3. awaited' = [awaited EXCEPT ![r] = @ \ {j}]
  BY DEF EndRun
<1>4. QED
  BY <1>1, <1>2, <1>3 DEF AwaitedInv, TypeOK

(* A step of a run that goes on does not start another. *)
LEMMA GotoIsAwaited ==
    ASSUME TypeOK, AwaitedInv, NEW r \in Runtimes, NEW j \in Jobs, NEW p \in Phases,
           phase[r][j] # "idle", Goto(r, j, p), mode' = mode, awaited' = awaited
    PROVE  AwaitedInv'
<1>1. \A q \in Runtimes : InFlight(q)' \subseteq InFlight(q)
  BY DEF TypeOK, Goto, InFlight
<1>2. QED
  BY <1>1 DEF AwaitedInv

(* Nothing is in flight at first; then only stop() leads to "stopping", and   *)
(* only a runtime that is not stopping starts a run.                          *)
LEMMA AwaitedNext == TypeOK /\ AwaitedInv /\ [Next]_vars => AwaitedInv'
<1> SUFFICES ASSUME TypeOK, AwaitedInv, [Next]_vars PROVE AwaitedInv'
  OBVIOUS
<1>1. ASSUME NEW r \in Runtimes, Start(r) \/ Tick(r) PROVE AwaitedInv'
  <2>1. PICK S : Begin(r, S)
    BY <1>1 DEF Start, Tick
  <2>2. mode'[r] = "up" /\ awaited' = awaited
        /\ \A q \in Runtimes \ {r} : mode'[q] = mode[q]
    BY <1>1 DEF Start, Tick, TypeOK
  <2>3. QED
    BY <2>1, <2>2, BeginIsLocal DEF AwaitedInv
<1>2. ASSUME NEW r \in Runtimes, StartOnce(r) \/ EndOnce(r) PROVE AwaitedInv'
  BY <1>2 DEF StartOnce, EndOnce, AwaitedInv, InFlight, TypeOK
<1>3. ASSUME NEW r \in Runtimes, Stop(r) PROVE AwaitedInv'
  <2>1. \A q \in Runtimes : InFlight(q)' = InFlight(q)
    BY <1>3 DEF Stop, InFlight
  <2>2. QED
    BY <1>3, <2>1 DEF Stop, AwaitedInv, TypeOK
<1>4. ASSUME NEW r \in Runtimes, Kill(r) \/ Exit(r) PROVE AwaitedInv'
  <2>1. Die(r)
    BY <1>4 DEF Kill, Exit
  <2>2. mode'[r] = "down"
        /\ \A q \in Runtimes \ {r} : mode'[q] = mode[q] /\ awaited'[q] = awaited[q]
                                    /\ phase'[q] = phase[q]
    BY <2>1 DEF Die, TypeOK
  <2>3. QED
    BY <2>2 DEF AwaitedInv, InFlight
<1>5. ASSUME NEW r \in Runtimes, NEW j \in Jobs, RunStep(r, j) PROVE AwaitedInv'
  <2>1. CASE Reserve(r, j) \/ BeginWork(r, j) \/ EndWork(r, j)
    BY <2>1, GotoIsAwaited DEF Reserve, BeginWork, EndWork, Phases
  <2>2. CASE TryLock(r, j)
    BY <2>2, GotoIsAwaited, EndRunIsAwaited DEF TryLock, Phases
  <2>3. CASE Unlock(r, j)
    BY <2>3, EndRunIsAwaited DEF Unlock
  <2>4. CASE TakeLane(r, j)
    <3>1. Begin(r, {j}) /\ mode[r] = "once" /\ mode' = mode /\ awaited' = awaited
      BY <2>4 DEF TakeLane
    <3>2. QED
      BY <3>1, BeginIsLocal DEF AwaitedInv
  <2>5. QED
    BY <1>5, <2>1, <2>2, <2>3, <2>4 DEF RunStep
<1>6. ASSUME NEW r \in Runtimes, NEW j \in Jobs, ReserveFails(r, j) \/ LockQueryFails(r, j)
      PROVE  AwaitedInv'
  BY <1>6, EndRunIsAwaited DEF ReserveFails, LockQueryFails
<1>7. ASSUME NEW r \in Runtimes, NEW j \in Jobs, LoseConnection(r, j) PROVE AwaitedInv'
  BY <1>7 DEF LoseConnection, AwaitedInv, InFlight
<1>8. ASSUME NEW j \in Jobs, ReapSession(j) PROVE AwaitedInv'
  BY <1>8 DEF ReapSession, AwaitedInv, InFlight
<1>9. CASE UNCHANGED vars
  BY <1>9 DEF vars, AwaitedInv, InFlight
<1>10. QED
  BY <1>1, <1>2, <1>3, <1>4, <1>5, <1>6, <1>7, <1>8, <1>9 DEF Next

(* A process that stops closes its pools under no run, whatever fails: the     *)
(* snapshot it waited for was all there was to wait for (ShutdownIsClean).     *)
THEOREM NothingOutlivesShutdown == Spec => ShutdownIsClean
<1>1. Init => AwaitedInv
  BY DEF Init, AwaitedInv
<1>2. AwaitedInv => \A r \in Runtimes : Exit(r) => InFlight(r) = {}
  BY DEF AwaitedInv, Exit
<1>3. QED
  BY <1>1, <1>2, TypeInit, TypeNext, AwaitedNext, PTL DEF Spec, ShutdownIsClean
=============================================================================
