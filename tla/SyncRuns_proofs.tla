--------------------------- MODULE SyncRuns_proofs ---------------------------
(***************************************************************************)
(* Proofs about SyncRuns, for any number of connections and runtimes, any    *)
(* bound on faults, and every kind of them.                                  *)
(***************************************************************************)
EXTENDS SyncRuns, TLAPS

-----------------------------------------------------------------------------
(* The inductive invariant. *)

(* A runtime that is in a pass holds the job's lock, or lost it on the way. *)
LockInv ==
    /\ \A w \in Workers : pc[w] # "idle" => lock = w \/ w \in stray
    /\ \A w \in stray : pc[w] # "idle" /\ lock # w

(* A runtime that syncs syncs a connection. *)
CurInv == \A w \in Workers : pc[w] \in Syncing => cur[w] \in Connections

Inv == TypeOK /\ LockInv /\ CurInv /\ OpenRunsAreLive /\ HealthTellsFailures

USE DEF rowVars, lockVars, passVars, Syncing

(* It holds before any pass. *)
LEMMA InvInit == Init => Inv
BY ConfigAssumption, Bounds, NullAssumption
DEF Init, Inv, TypeOK, LockInv, CurInv, OpenRunsAreLive, HealthTellsFailures, Healths

(* Counting a fault keeps to the bound. *)
LEMMA CountIsType ==
    ASSUME TypeOK, NEW o \in TxOutcomes, Count(o)
    PROVE  faults' \in 0 .. MaxFaults /\ faults' >= faults /\ (o # "ok" => faults' > 0)
BY Bounds DEF TypeOK, TxOutcomes, Count

(* The outcomes of a finish keep the types of the rows it writes. *)
LEMMA TypeNext == ASSUME Inv, Next PROVE TypeOK'
<1> USE DEF Inv
<1>1. ASSUME NEW c \in Connections, NEW on \in BOOLEAN, NEW newSecret \in BOOLEAN,
             NEW to \in Configs, Save(c, on, to, newSecret)
      PROVE  TypeOK'
  <2>1. enabled' \in [Connections -> BOOLEAN] /\ config' \in [Connections -> Configs]
    BY <1>1 DEF Save, TypeOK
  <2>2. health' \in [Connections -> Healths] /\ failures' \in [Connections -> Nat]
    BY <1>1, Bounds DEF Save, TypeOK, Healths
  <2>3. due' \in [Connections -> BOOLEAN]
    <3> DEFINE changed == newSecret \/ to # config[c]
    <3>1. due' = [due EXCEPT ![c] = due[c] \/ changed]
      BY <1>1 DEF Save
    <3>2. (due[c] \/ changed) \in BOOLEAN
      OBVIOUS
    <3> HIDE DEF changed
    <3>3. QED
      BY <3>1, <3>2 DEF TypeOK
  <2>4. QED
    BY <1>1, <2>1, <2>2, <2>3 DEF Save, TypeOK
<1>2. ASSUME NEW c \in Connections, SyncNow(c) \/ Elapse(c) \/ Age(c) PROVE TypeOK'
  BY <1>2 DEF SyncNow, Elapse, Age, TypeOK
<1>3. ASSUME NEW w \in Workers, Poll(w) PROVE TypeOK'
  BY <1>3 DEF Poll, TakeLock, Goto, TypeOK
<1>4. ASSUME NEW w \in Workers, Done(w) \/ Stop(w) PROVE TypeOK'
  BY <1>4, Bounds DEF Done, Stop, EndPass, Goto, Release, TypeOK
<1>5. ASSUME NEW w \in Workers, Begin(w) PROVE TypeOK'
  <2>1. PICK c \in todo[w], o \in TxOutcomes :
          /\ IF Opens(c) /\ Commits(o)
             THEN /\ open' = [open EXCEPT ![c] = w]
                  /\ aged' = [aged EXCEPT ![c] = FALSE]
             ELSE UNCHANGED <<open, aged>>
          /\ IF Returns(o)
             THEN /\ todo' = [todo EXCEPT ![w] = @ \ {c}]
                  /\ lock' = lock /\ stray' = stray
                  /\ IF Opens(c)
                     THEN Goto(w, "read") /\ cur' = [cur EXCEPT ![w] = c]
                     ELSE UNCHANGED <<pc, cur>>
             ELSE /\ todo' = [todo EXCEPT ![w] = {}]
                  /\ Goto(w, "idle")
                  /\ Release(w)
                  /\ UNCHANGED cur
          /\ Count(o)
    BY <1>5 DEF Begin
  <2>2. c \in Connections
    BY <2>1 DEF TypeOK
  <2>3. open' \in [Connections -> Workers \cup {None}] /\ aged' \in [Connections -> BOOLEAN]
    <3>1. CASE UNCHANGED <<open, aged>>
      BY <3>1 DEF TypeOK
    <3>2. CASE /\ open' = [open EXCEPT ![c] = w]
               /\ aged' = [aged EXCEPT ![c] = FALSE]
      BY <3>2, <2>2 DEF TypeOK
    <3>3. QED
      BY <2>1, <3>1, <3>2
  <2>4. /\ todo' \in [Workers -> SUBSET Connections]
        /\ pc' \in [Workers -> Syncing \cup {"idle", "pass"}]
        /\ cur' \in [Workers -> Connections \cup {None}]
        /\ lock' \in Workers \cup {None}
    BY <2>1, <2>2 DEF TypeOK, Goto, Release
  <2>5. stray' \subseteq Workers
    BY <2>1 DEF TypeOK, Release
  <2>6. QED
    BY <1>5, <2>1, <2>3, <2>4, <2>5, CountIsType DEF Begin, TypeOK
<1>6. ASSUME NEW w \in Workers, ReadConfig(w) PROVE TypeOK'
  BY <1>6 DEF ReadConfig, Goto, TypeOK, CurInv
<1>7. ASSUME NEW w \in Workers, Import(w) PROVE TypeOK'
  BY <1>7 DEF Import, Goto, TypeOK
<1>8. ASSUME NEW w \in Workers, FinishOk(w) PROVE TypeOK'
  <2>1. cur[w] \in Connections
    BY <1>8 DEF FinishOk, CurInv
  <2>2. faults' \in 0 .. MaxFaults
    BY <1>8, CountIsType DEF FinishOk
  <2>3. /\ open' \in [Connections -> Workers \cup {None}]
        /\ aged' \in [Connections -> BOOLEAN]
        /\ due' \in [Connections -> BOOLEAN]
        /\ failures' \in [Connections -> Nat]
        /\ health' \in [Connections -> Healths]
    <3>1. CASE UNCHANGED <<open, aged, due, failures, health>>
      BY <3>1 DEF TypeOK
    <3>2. CASE /\ Close(cur[w])
               /\ failures' = [failures EXCEPT ![cur[w]] =
                                 0]
               /\ health' = [health EXCEPT ![cur[w]] =
                               "active"]
      <4>1. /\ open' \in [Connections -> Workers \cup {None}]
            /\ aged' \in [Connections -> BOOLEAN]
            /\ due' \in [Connections -> BOOLEAN]
        BY <3>2, <2>1 DEF Close, TypeOK
      <4>2. failures' \in [Connections -> Nat]
        BY <3>2, <2>1, Bounds DEF TypeOK
      <4>3. health' \in [Connections -> Healths]
        BY <3>2, <2>1 DEF TypeOK, Healths
      <4>4. QED
        BY <4>1, <4>2, <4>3
    <3>3. QED
      BY <1>8, <3>1, <3>2 DEF FinishOk
  <2>4. /\ pc' \in [Workers -> Syncing \cup {"idle", "pass"}]
        /\ cur' \in [Workers -> Connections \cup {None}]
        /\ used' \in [Workers -> Configs \cup {None}]
    BY <1>8 DEF FinishOk, Leave, Goto, TypeOK
  <2>5. QED
    BY <1>8, <2>2, <2>3, <2>4 DEF FinishOk, TypeOK
<1>9. ASSUME NEW w \in Workers, FinishFailed(w) PROVE TypeOK'
  <2>1. cur[w] \in Connections
    BY <1>9 DEF FinishFailed, CurInv
  <2>2. faults' \in 0 .. MaxFaults
    BY <1>9, CountIsType DEF FinishFailed
  <2>3. /\ open' \in [Connections -> Workers \cup {None}]
        /\ aged' \in [Connections -> BOOLEAN]
        /\ due' \in [Connections -> BOOLEAN]
        /\ failures' \in [Connections -> Nat]
        /\ health' \in [Connections -> Healths]
    <3>1. CASE UNCHANGED <<open, aged, due, failures, health>>
      BY <3>1 DEF TypeOK
    <3>2. CASE /\ Close(cur[w])
               /\ failures' = [failures EXCEPT ![cur[w]] =
                                 failures[cur[w]] + 1]
               /\ health' = [health EXCEPT ![cur[w]] =
                               IF failures[cur[w]] + 1 >= ErrorAfter THEN "error"
                                                                         ELSE "degraded"]
      <4>1. /\ open' \in [Connections -> Workers \cup {None}]
            /\ aged' \in [Connections -> BOOLEAN]
            /\ due' \in [Connections -> BOOLEAN]
        BY <3>2, <2>1 DEF Close, TypeOK
      <4>2. failures' \in [Connections -> Nat]
        BY <3>2, <2>1, Bounds DEF TypeOK
      <4>3. health' \in [Connections -> Healths]
        BY <3>2, <2>1 DEF TypeOK, Healths
      <4>4. QED
        BY <4>1, <4>2, <4>3
    <3>3. QED
      BY <1>9, <3>1, <3>2 DEF FinishFailed
  <2>4. /\ pc' \in [Workers -> Syncing \cup {"idle", "pass"}]
        /\ cur' \in [Workers -> Connections \cup {None}]
        /\ used' \in [Workers -> Configs \cup {None}]
    BY <1>9 DEF FinishFailed, Leave, Goto, TypeOK
  <2>5. QED
    BY <1>9, <2>2, <2>3, <2>4 DEF FinishFailed, TypeOK
<1>10. ASSUME NEW w \in Workers, Crash(w) \/ LoseLock(w) PROVE TypeOK'
  BY <1>10, Bounds DEF Crash, LoseLock, Release, TypeOK
<1>11. QED
  BY <1>1, <1>2, <1>3, <1>4, <1>5, <1>6, <1>7, <1>8, <1>9, <1>10 DEF Next, PassStep

-----------------------------------------------------------------------------
(* A step of one pass leaves the others where they are. *)
LEMMA OthersStay ==
    ASSUME Inv, NEW w \in Workers, PassStep(w) \/ Stop(w) \/ Crash(w) \/ LoseLock(w)
    PROVE  \A v \in Workers \ {w} : pc'[v] = pc[v] /\ cur'[v] = cur[v]
<1>1. CASE Begin(w)
  BY <1>1 DEF Begin, Goto, Inv, TypeOK
<1>2. CASE FinishOk(w) \/ FinishFailed(w)
  BY <1>2 DEF FinishOk, FinishFailed, Leave, Goto, Inv, TypeOK
<1>3. QED
  BY <1>1, <1>2
  DEF PassStep, Poll, Done, Stop, EndPass, ReadConfig, Import, Crash, LoseLock, Goto, Inv, TypeOK

(* A pass that ends gives the lock back, and the others keep what they have. *)
LEMMA EndKeepsLock ==
    ASSUME Inv, NEW w \in Workers, Goto(w, "idle"), Release(w)
    PROVE  LockInv'
<1>1. pc'[w] = "idle" /\ \A v \in Workers \ {w} : pc'[v] = pc[v]
  BY DEF Goto, Inv, TypeOK
<1>2. /\ \A v \in Workers \ {w} : lock = v => lock' = v
      /\ \A v \in stray' : v \in stray /\ v # w
  BY DEF Release
<1>3. \A v \in Workers : pc'[v] # "idle" => lock' = v \/ v \in stray'
  BY <1>1, <1>2 DEF Release, Inv, LockInv
<1>4. \A v \in stray' : pc'[v] # "idle" /\ lock' # v
  BY <1>1, <1>2, NullAssumption DEF Release, Inv, LockInv, TypeOK
<1>5. QED
  BY <1>3, <1>4 DEF LockInv

(* The lock is taken as a pass begins and kept until it ends. *)
LEMMA LockNext == ASSUME Inv, Next PROVE LockInv' /\ CurInv'
<1> USE DEF Inv, LockInv, CurInv, TypeOK
<1>1. CASE UNCHANGED <<pc, cur, lock, stray>>
  BY <1>1
<1>2. ASSUME NEW w \in Workers, Poll(w) PROVE LockInv' /\ CurInv'
  BY <1>2, NullAssumption DEF Poll, TakeLock, Goto
<1>3. ASSUME NEW w \in Workers, Done(w) \/ Stop(w) \/ Crash(w) PROVE LockInv' /\ CurInv'
  <2>1. Goto(w, "idle") /\ Release(w)
    BY <1>3 DEF Done, Stop, Crash, EndPass, Goto
  <2>2. CurInv'
    BY <1>3 DEF Done, Stop, Crash, EndPass, Goto
  <2>3. QED
    BY <2>1, <2>2, EndKeepsLock
<1>4. ASSUME NEW w \in Workers, Begin(w) PROVE LockInv' /\ CurInv'
  <2>1. CASE Goto(w, "idle") /\ Release(w) /\ UNCHANGED cur
    <3>1. CurInv'
      BY <2>1 DEF Goto
    <3>2. QED
      BY <2>1, <3>1, EndKeepsLock
  <2>2. CASE /\ pc[w] = "pass" /\ lock' = lock /\ stray' = stray
             /\ \/ UNCHANGED <<pc, cur>>
                \/ \E c \in todo[w] : Goto(w, "read") /\ cur' = [cur EXCEPT ![w] = c]
    BY <2>2 DEF Goto
  <2>3. QED
    BY <1>4, <2>1, <2>2 DEF Begin
<1>5. ASSUME NEW w \in Workers, ReadConfig(w) \/ Import(w) PROVE LockInv' /\ CurInv'
  BY <1>5 DEF ReadConfig, Import, Goto
<1>6. ASSUME NEW w \in Workers, FinishOk(w) \/ FinishFailed(w) PROVE LockInv' /\ CurInv'
  BY <1>6 DEF FinishOk, FinishFailed, Leave, Goto
<1>7. ASSUME NEW w \in Workers, LoseLock(w) PROVE LockInv' /\ CurInv'
  BY <1>7, NullAssumption DEF LoseLock
<1>8. QED
  BY <1>1, <1>2, <1>3, <1>4, <1>5, <1>6, <1>7 DEF Next, PassStep, Save, SyncNow, Elapse, Age

(* A runtime that finishes closes its own run, or a fault is on record. *)
LEMMA FinishCloses ==
    ASSUME Inv, NEW w \in Workers, FinishOk(w) \/ FinishFailed(w)
    PROVE  OpenRunsAreLive'
<1> USE DEF Inv, TypeOK
<1>1. cur[w] \in Connections /\ pc[w] \in Syncing
  BY DEF FinishOk, FinishFailed, CurInv
<1>2. PICK o \in TxOutcomes :
        /\ Count(o)
        /\ IF Owns(w) /\ Commits(o) THEN Close(cur[w]) ELSE UNCHANGED open
  BY DEF FinishOk, FinishFailed
<1>3. CASE faults' > 0
  BY <1>3 DEF OpenRunsAreLive
<1>4. CASE faults' = 0
  <2>1. o = "ok" /\ faults = 0
    BY <1>2, <1>4, CountIsType
  <2>2. open'[cur[w]] # w
    BY <1>1, <1>2, <2>1, NullAssumption DEF Close, Owns, Commits
  <2>3. \A c \in Connections : open'[c] # None => open'[c] = open[c]
    BY <1>1, <1>2 DEF Close
  <2>4. ASSUME NEW c \in Connections, open'[c] # None
        PROVE  pc'[open'[c]] \in Syncing /\ cur'[open'[c]] = c
    <3>1. open'[c] = open[c] /\ open[c] \in Workers
      BY <2>3, <2>4
    <3>2. pc[open[c]] \in Syncing /\ cur[open[c]] = c
      BY <2>1, <3>1, <2>4 DEF OpenRunsAreLive
    <3>3. open[c] # w
      BY <2>2, <3>1, <3>2
    <3>4. QED
      BY <3>1, <3>2, <3>3, OthersStay DEF PassStep
  <2>5. QED
    BY <2>4 DEF OpenRunsAreLive
<1>5. QED
  BY <1>2, <1>3, <1>4, CountIsType, Bounds

(* A run is opened by a pass that goes on to sync it, or a fault is on record. *)
LEMMA BeginOpens ==
    ASSUME Inv, NEW w \in Workers, Begin(w)
    PROVE  OpenRunsAreLive'
<1> USE DEF Inv, TypeOK
<1>1. PICK b \in todo[w], o \in TxOutcomes :
        /\ Count(o)
        /\ IF Opens(b) /\ Commits(o) THEN open' = [open EXCEPT ![b] = w] ELSE UNCHANGED open
        /\ Returns(o) => IF Opens(b)
                         THEN Goto(w, "read") /\ cur' = [cur EXCEPT ![w] = b]
                         ELSE UNCHANGED <<pc, cur>>
  BY DEF Begin
<1>2. b \in Connections /\ pc[w] = "pass"
  BY <1>1 DEF Begin
<1>3. CASE faults' > 0
  BY <1>3 DEF OpenRunsAreLive
<1>4. CASE faults' = 0
  <2>1. o = "ok" /\ faults = 0
    BY <1>1, <1>4, CountIsType
  <2>2. ASSUME NEW c \in Connections, open'[c] # None
        PROVE  pc'[open'[c]] \in Syncing /\ cur'[open'[c]] = c
    <3>1. CASE c = b /\ Opens(b)
      BY <1>1, <1>2, <2>1, <3>1 DEF Goto, Returns, Commits
    <3>2. CASE ~(c = b /\ Opens(b))
      <4>1. open'[c] = open[c] /\ open[c] \in Workers
        BY <1>1, <1>2, <3>2, <2>2
      <4>2. pc[open[c]] \in Syncing /\ cur[open[c]] = c
        BY <2>1, <2>2, <4>1 DEF OpenRunsAreLive
      <4>3. open[c] # w
        BY <1>2, <4>2
      <4>4. QED
        BY <4>1, <4>2, <4>3, OthersStay DEF PassStep
    <3>3. QED
      BY <3>1, <3>2
  <2>3. QED
    BY <2>2 DEF OpenRunsAreLive
<1>5. QED
  BY <1>1, <1>3, <1>4, CountIsType, Bounds

(* A run is opened by a pass at work, and left open only by a mishap that   *)
(* is counted.                                                              *)
LEMMA OpenNext == ASSUME Inv, Next PROVE OpenRunsAreLive'
<1> USE DEF Inv, TypeOK, OpenRunsAreLive
<1>1. CASE UNCHANGED <<open, pc, cur, faults>>
  BY <1>1
<1>2. ASSUME NEW w \in Workers, Poll(w) \/ Done(w) \/ ReadConfig(w) \/ Import(w)
      PROVE  OpenRunsAreLive'
  <2>1. UNCHANGED <<open, faults, cur>>
    BY <1>2 DEF Poll, Done, EndPass, ReadConfig, Import
  <2>2. pc[w] \in Syncing => pc'[w] \in Syncing
    BY <1>2 DEF Poll, Done, EndPass, ReadConfig, Import, Goto
  <2>3. \A v \in Workers : pc[v] \in Syncing => pc'[v] \in Syncing
    BY <1>2, <2>2, OthersStay DEF PassStep
  <2>4. QED
    BY <2>1, <2>3
<1>3. ASSUME NEW w \in Workers, Stop(w) \/ Crash(w) \/ LoseLock(w) PROVE OpenRunsAreLive'
  BY <1>3 DEF Stop, Crash, LoseLock
<1>4. ASSUME NEW w \in Workers, FinishOk(w) \/ FinishFailed(w) PROVE OpenRunsAreLive'
  BY <1>4, FinishCloses
<1>5. ASSUME NEW w \in Workers, Begin(w) PROVE OpenRunsAreLive'
  BY <1>5, BeginOpens
<1>6. ASSUME NEW c \in Connections, Age(c) PROVE OpenRunsAreLive'
  BY <1>6 DEF Age
<1>7. QED
  BY <1>1, <1>2, <1>3, <1>4, <1>5, <1>6 DEF Next, PassStep, Save, SyncNow, Elapse

(* Status and count are written together, by a finish or by a save. *)
LEMMA HealthNext == ASSUME Inv, Next PROVE HealthTellsFailures'
<1> USE DEF Inv, TypeOK
<1>1. CASE UNCHANGED <<health, failures>>
  BY <1>1 DEF HealthTellsFailures
<1>2. ASSUME NEW c \in Connections, NEW on \in BOOLEAN, NEW newSecret \in BOOLEAN,
             NEW to \in Configs, Save(c, on, to, newSecret)
      PROVE  HealthTellsFailures'
  <2> DEFINE changed == newSecret \/ to # config[c]
  <2>1. /\ failures'[c] = IF changed THEN 0 ELSE failures[c]
        /\ \A d \in Connections \ {c} : health'[d] = health[d] /\ failures'[d] = failures[d]
    BY <1>2 DEF Save
  <2>2. \/ health'[c] \in {"disabled", "configured"}
        \/ ~changed /\ health'[c] = health[c]
    BY <1>2 DEF Save
  <2> HIDE DEF changed
  <2>3. QED
    BY <2>1, <2>2 DEF HealthTellsFailures
<1>3. ASSUME NEW w \in Workers, FinishOk(w) \/ FinishFailed(w)
      PROVE  HealthTellsFailures'
  <2>1. cur[w] \in Connections
    BY <1>3 DEF FinishOk, FinishFailed, CurInv
  <2>2. CASE /\ failures' = [failures EXCEPT ![cur[w]] = 0]
             /\ health' = [health EXCEPT ![cur[w]] = "active"]
    BY <2>1, <2>2 DEF HealthTellsFailures
  <2>3. CASE /\ failures' = [failures EXCEPT ![cur[w]] = failures[cur[w]] + 1]
             /\ health' = [health EXCEPT ![cur[w]] =
                             IF failures[cur[w]] + 1 >= ErrorAfter THEN "error"
                                                                   ELSE "degraded"]
    BY <2>1, <2>3, Bounds DEF HealthTellsFailures
  <2>4. QED
    BY <1>1, <1>3, <2>2, <2>3 DEF FinishOk, FinishFailed
<1>4. QED
  BY <1>1, <1>2, <1>3
  DEF Next, PassStep, SyncNow, Elapse, Age, Poll, Done, Stop, EndPass, Begin, ReadConfig,
      Import, Crash, LoseLock

(* The invariant is inductive. *)
LEMMA InvNext == Inv /\ [Next]_vars => Inv'
<1> SUFFICES ASSUME Inv, [Next]_vars PROVE Inv'
  OBVIOUS
<1>1. CASE Next
  BY <1>1, TypeNext, LockNext, OpenNext, HealthNext DEF Inv
<1>2. CASE UNCHANGED vars
  BY <1>2 DEF vars, Inv, TypeOK, LockInv, CurInv, OpenRunsAreLive, HealthTellsFailures
<1>3. QED
  BY <1>1, <1>2

-----------------------------------------------------------------------------
(* The rows and the passes have their types. *)
THEOREM TypeCorrect == Spec => []TypeOK
<1>1. Inv => TypeOK
  BY DEF Inv
<1>2. QED
  BY <1>1, InvInit, InvNext, PTL DEF Spec

(* A connection's status says what its failure count says (0300:420-435), though *)
(* people save it while its runs are under way and stray runtimes finish late:   *)
(* for any number of failures and of connections.                            *)
THEOREM StatusTellsFailures == Spec => []HealthTellsFailures
<1>1. Inv => HealthTellsFailures
  BY DEF Inv
<1>2. QED
  BY <1>1, InvInit, InvNext, PTL DEF Spec

(* No connection is synced by two runtimes at once, though runs are reclaimed   *)
(* by age and runtimes die (1260: "held by this job's advisory lock"), unless  *)
(* one of them has lost that lock; with any faults, and any number of them.    *)
THEOREM ConnectionsSyncOnce == Spec => []OneSync
<1>1. Inv => OneSync
  BY DEF Inv, LockInv, OneSync
<1>2. QED
  BY <1>1, InvInit, InvNext, PTL DEF Spec

(* The runtimes that sync each connection and hold the lock. *)
syncers == [c \in Connections |-> {w \in Workers \ stray : pc[w] \in Syncing /\ cur[w] = c}]

(* A step moves one runtime, and no other that holds the lock syncs then. *)
LEMMA TurnStep == Inv /\ Inv' /\ [Next]_vars => [TheLock!Next]_syncers
<1> SUFFICES ASSUME Inv, Inv', [Next]_vars, NEW c \in Connections
             PROVE  \/ syncers'[c] = syncers[c]
                    \/ syncers[c] = {} /\ \E w \in Workers : syncers'[c] = {w}
                    \/ syncers'[c] = {}
  BY DEF TheLock!Next, TheLock!Acquired, TheLock!Released, syncers
<1> DEFINE Syncs(w) == pc[w] \in Syncing /\ cur[w] = c /\ w \notin stray
<1>1. syncers[c] = {w \in Workers : Syncs(w)} /\ syncers'[c] = {w \in Workers : Syncs(w)'}
  BY DEF syncers
<1>2. CASE UNCHANGED <<pc, cur, stray>>
  BY <1>1, <1>2
<1>3. ASSUME NEW w \in Workers, Poll(w)
      PROVE  syncers'[c] = syncers[c]
  BY <1>1, <1>3 DEF Poll, Goto, Inv, TypeOK
<1>4. ASSUME NEW w \in Workers, PassStep(w) \/ Stop(w) \/ Crash(w) \/ LoseLock(w), ~Poll(w)
      PROVE  \/ syncers'[c] = syncers[c]
             \/ syncers[c] = {} /\ syncers'[c] = {w}
             \/ syncers'[c] = {}
  <2>1. pc[w] # "idle"
    BY <1>4 DEF PassStep, Done, Stop, Begin, ReadConfig, Import, FinishOk, FinishFailed, Crash,
                LoseLock
  <2>2. stray' \ {w} = stray \ {w} /\ (w \in stray' => w \in stray \/ LoseLock(w))
    BY <1>4 DEF PassStep, Done, Stop, EndPass, Begin, ReadConfig, Import, FinishOk,
                FinishFailed, Crash, LoseLock, Release
  <2>3. CASE w \in stray
    <3>1. w \in stray' \/ Goto(w, "idle")
      BY <1>4, <2>3
      DEF PassStep, Done, Stop, EndPass, Begin, ReadConfig, Import, FinishOk, FinishFailed,
          Crash, LoseLock, Goto
    <3>2. ~Syncs(w) /\ ~Syncs(w)'
      BY <2>3, <3>1 DEF Goto, Inv, TypeOK
    <3>3. QED
      <4>1. ASSUME NEW v \in Workers \ {w} PROVE Syncs(v)' <=> Syncs(v)
        <5>1. pc'[v] = pc[v] /\ cur'[v] = cur[v]
          BY <1>4, OthersStay
        <5>2. v \in stray' <=> v \in stray
          BY <2>2
        <5>3. QED
          BY <5>1, <5>2
      <4>2. \A v \in Workers : Syncs(v)' <=> Syncs(v)
        BY <3>2, <4>1
      <4>3. QED
        BY <1>1, <4>2
  <2>4. CASE w \notin stray
    <3>1. \A v \in Workers \ {w} : ~Syncs(v) /\ ~Syncs(v)'
      BY <1>4, <2>1, <2>2, <2>4, OthersStay DEF Inv, LockInv
    <3>2. QED
      BY <1>1, <3>1
  <2>5. QED
    BY <2>3, <2>4
<1>5. QED
  BY <1>2, <1>3, <1>4 DEF Next, vars, Save, SyncNow, Elapse, Age

(* The syncs of a connection take turns, whatever is reclaimed, cut short or     *)
(* saved meanwhile, and even when locks are lost, as seen by those who still    *)
(* hold theirs: SyncRuns implements JobLock with a job for each connection.     *)
THEOREM ConnectionsTakeTurns == Spec => SyncsTakeTurns
<1>1. Init => TheLock!Init
  BY DEF Init, TheLock!Init
<1>2. Inv /\ Inv' /\ [Next]_vars => [TheLock!Next]_syncers
  BY TurnStep
<1>3. QED
  BY <1>1, <1>2, InvInit, InvNext, PTL DEF Spec, SyncsTakeTurns, TheLock!Spec, syncers

(* Without a fault, every open run is one that a runtime is about to close.    *)
THEOREM NoRunIsForgotten == Spec => []OpenRunsAreLive
<1>1. Inv => OpenRunsAreLive
  BY DEF Inv
<1>2. QED
  BY <1>1, InvInit, InvNext, PTL DEF Spec

(* A run is closed by its own runtime or because of its age, and a failure is  *)
(* counted as the run it belongs to is closed.                               *)
LEMMA VerdictStep ==
    ASSUME Inv, [Next]_vars, NEW c \in Connections
    PROVE  /\ open[c] # None /\ open'[c] # open[c] =>
                aged[c] \/ (pc[open[c]] \in {"finish", "fail"} /\ cur[open[c]] = c)
           /\ failures'[c] > failures[c] => open[c] # None /\ open'[c] = None
<1> USE DEF Inv, TypeOK
<1>1. CASE UNCHANGED <<open, failures>>
  BY <1>1
<1>2. ASSUME NEW d \in Connections, NEW on \in BOOLEAN, NEW newSecret \in BOOLEAN,
             NEW to \in Configs, Save(d, on, to, newSecret)
      PROVE  open' = open /\ ~(failures'[c] > failures[c])
  BY <1>2 DEF Save
<1>3. ASSUME NEW w \in Workers, Begin(w)
      PROVE  ~(failures'[c] > failures[c]) /\ (open'[c] # open[c] => open[c] = None \/ aged[c])
  <2>1. PICK b \in todo[w] :
          IF Opens(b) THEN open' = [open EXCEPT ![b] = w] \/ UNCHANGED open
                      ELSE UNCHANGED open
    BY <1>3 DEF Begin
  <2>2. QED
    BY <1>3, <2>1 DEF Begin, Opens
<1>4. ASSUME NEW w \in Workers, FinishOk(w) \/ FinishFailed(w)
      PROVE  \/ open' = open /\ failures' = failures
             \/ /\ pc[w] \in {"finish", "fail"} /\ Owns(w)
                /\ open' = [open EXCEPT ![cur[w]] = None]
                /\ \A d \in Connections \ {cur[w]} : failures'[d] = failures[d]
  BY <1>4 DEF FinishOk, FinishFailed, Close
<1>5. ASSUME NEW w \in Workers, FinishOk(w) \/ FinishFailed(w)
      PROVE  /\ open[c] # None /\ open'[c] # open[c] =>
                  aged[c] \/ (pc[open[c]] \in {"finish", "fail"} /\ cur[open[c]] = c)
             /\ failures'[c] > failures[c] => open[c] # None /\ open'[c] = None
  <2>1. cur[w] \in Connections
    BY <1>5 DEF FinishOk, FinishFailed, CurInv
  <2>2. QED
    BY <1>4, <1>5, <2>1, NullAssumption DEF Owns
<1>6. CASE UNCHANGED vars
  BY <1>1, <1>6 DEF vars
<1>7. ASSUME NEW d \in Connections, SyncNow(d) \/ Elapse(d) \/ Age(d)
      PROVE  UNCHANGED <<open, failures>>
  BY <1>7 DEF SyncNow, Elapse, Age
<1>8. ASSUME NEW w \in Workers,
             \/ Poll(w) \/ Done(w) \/ ReadConfig(w) \/ Import(w)
             \/ Stop(w) \/ Crash(w) \/ LoseLock(w)
      PROVE  UNCHANGED <<open, failures>>
  BY <1>8 DEF Poll, Done, Stop, EndPass, ReadConfig, Import, Crash, LoseLock
<1>9. QED
  BY <1>1, <1>2, <1>3, <1>5, <1>6, <1>7, <1>8 DEF Next, PassStep

(* One verdict per run, though runs are reclaimed under a runtime at work and  *)
(* replies of finish_sync_run are lost (0300:413, 1260): a runtime whose run   *)
(* was taken over closes nothing, and a run is counted at most once.         *)
THEOREM VerdictsAreSingle == Spec => RunsAreClosedOnce
<1>1. Inv /\ [Next]_vars =>
        [\A c \in Connections :
           /\ open[c] # None /\ open'[c] # open[c] =>
                aged[c] \/ (pc[open[c]] \in {"finish", "fail"} /\ cur[open[c]] = c)
           /\ failures'[c] > failures[c] => open[c] # None /\ open'[c] = None]_vars
  BY VerdictStep
<1>2. QED
  BY <1>1, InvInit, InvNext, PTL DEF Spec, RunsAreClosedOnce
=============================================================================
