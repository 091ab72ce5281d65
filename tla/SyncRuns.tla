------------------------------- MODULE SyncRuns -------------------------------
(***************************************************************************)
(* The sync runs of an integration: the pass of a sync job over the          *)
(* connections that are due, the run rows it opens and closes, the reclaim   *)
(* of runs that were cut short, and the people who save a connection or ask  *)
(* for a sync meanwhile (src/workers/*-sync.ts, 0300, 0980 and 1260).        *)
(*                                                                          *)
(* Every transaction is one step.  What happens between two of them (a crash, *)
(* two hours, a second runtime, a saved connection) can happen between any    *)
(* two.                                                                      *)
(***************************************************************************)
EXTENDS Naturals

CONSTANTS
    Connections,  \* the connections of one provider
    Workers,      \* worker runtimes; both run the provider's job
    Configs,      \* addresses and credentials a connection may have
    FirstConfig,
    ErrorAfter,   \* failures in a row that make a connection "error" (5)
    Faults,       \* what may go wrong
    MaxFaults,    \* bound: how often
    MaxFailures,  \* bound: failures in a row after which the provider answers
    None          \* NULL

ASSUME ConfigAssumption == FirstConfig \in Configs
ASSUME Bounds == ErrorAfter \in Nat \ {0} /\ MaxFaults \in Nat /\ MaxFailures \in Nat
ASSUME FaultKinds == Faults \subseteq {"abort", "ack_lost", "crash", "stop", "lock_lost"}
ASSUME NullAssumption == None \notin Workers \cup Connections \cup Configs

VARIABLES
    enabled,   \* integration_connection.sync_enabled
    config,    \* base_url, config and credential_secret_ids
    health,    \* integration_connection.status
    failures,  \* consecutive_failures
    due,       \* last_sync_at IS NULL, or its interval and backoff are over
    open,      \* the runtime whose run row is 'running', or None
    aged,      \* that row was started two hours ago or more
    lock,      \* the runtime that holds the job's advisory lock
    stray,     \* runtimes whose pass goes on without it
    pc,        \* where each runtime's pass is
    todo,      \* the due rows it has not reached
    cur,       \* the connection it is syncing
    used,      \* the configuration its sync has read
    faults     \* faults so far

rowVars == <<enabled, config, health, failures, due, open, aged>>
lockVars == <<lock, stray>>
passVars == <<pc, todo, cur, used>>
vars == <<rowVars, lockVars, passVars, faults>>

Healths == {"configured", "active", "degraded", "error", "disabled"}

(* The phases in which a runtime has a run of its own under way. *)
Syncing == {"read", "sync", "finish", "fail"}

TypeOK ==
    /\ enabled \in [Connections -> BOOLEAN]
    /\ config \in [Connections -> Configs]
    /\ health \in [Connections -> Healths]
    /\ failures \in [Connections -> Nat]
    /\ due \in [Connections -> BOOLEAN]
    /\ open \in [Connections -> Workers \cup {None}]
    /\ aged \in [Connections -> BOOLEAN]
    /\ lock \in Workers \cup {None}
    /\ stray \subseteq Workers
    /\ pc \in [Workers -> Syncing \cup {"idle", "pass"}]
    /\ todo \in [Workers -> SUBSET Connections]
    /\ cur \in [Workers -> Connections \cup {None}]
    /\ used \in [Workers -> Configs \cup {None}]
    /\ faults \in 0..MaxFaults

Init ==
    /\ enabled = [c \in Connections |-> TRUE]
    /\ config = [c \in Connections |-> FirstConfig]
    /\ health = [c \in Connections |-> "configured"]
    /\ failures = [c \in Connections |-> 0]
    /\ due = [c \in Connections |-> TRUE]
    /\ open = [c \in Connections |-> None]
    /\ aged = [c \in Connections |-> FALSE]
    /\ lock = None
    /\ stray = {}
    /\ pc = [w \in Workers |-> "idle"]
    /\ todo = [w \in Workers |-> {}]
    /\ cur = [w \in Workers |-> None]
    /\ used = [w \in Workers |-> None]
    /\ faults = 0

-----------------------------------------------------------------------------
(* Outcomes of a transaction.  "abort" rolls back and throws; after          *)
(* "ack_lost" it is committed, and its caller hears of an error.             *)

TxOutcomes ==
    {"ok"} \cup {f \in Faults \cap {"abort", "ack_lost"} : faults < MaxFaults}

Commits(o) == o # "abort"
Returns(o) == o = "ok"
Count(o) == faults' = IF o = "ok" THEN faults ELSE faults + 1

-----------------------------------------------------------------------------
(* People, and the clock. *)

(* Mutant: what was proved of the old address still shows as the status. *)
SaveKeepsStatus(c, on, to, newSecret) ==
    LET changed == newSecret \/ to # config[c] IN
    /\ enabled' = [enabled EXCEPT ![c] = on]
    /\ config' = [config EXCEPT ![c] = to]
    /\ health' = [health EXCEPT ![c] =
                    CASE ~on -> "disabled"
                      [] on /\ @ = "disabled" -> "configured"
                      [] OTHER -> @]
    /\ failures' = [failures EXCEPT ![c] = IF changed THEN 0 ELSE @]
    /\ due' = [due EXCEPT ![c] = @ \/ changed]
    /\ UNCHANGED <<open, aged, lockVars, passVars, faults>>

(* set_ninja_connection.  A changed address or credential makes the          *)
(* connection due and clears its failures.                                   *)
Save(c, on, to, newSecret) ==
    LET changed == newSecret \/ to # config[c] IN
    /\ enabled' = [enabled EXCEPT ![c] = on]
    /\ config' = [config EXCEPT ![c] = to]
    /\ health' = [health EXCEPT ![c] =
                    CASE ~on -> "disabled"
                      [] on /\ (changed \/ @ = "disabled") -> "configured"
                      [] OTHER -> @]
    /\ failures' = [failures EXCEPT ![c] = IF changed THEN 0 ELSE @]
    /\ due' = [due EXCEPT ![c] = @ \/ changed]
    /\ UNCHANGED <<open, aged, lockVars, passVars, faults>>

(* request_ninja_sync: last_sync_at is set to NULL. *)
SyncNow(c) ==
    /\ enabled[c]
    /\ due' = [due EXCEPT ![c] = TRUE]
    /\ UNCHANGED <<enabled, config, health, failures, open, aged, lockVars, passVars,
                   faults>>

(* The interval, stretched by the backoff, has passed since the last run. *)
Elapse(c) ==
    /\ ~due[c]
    /\ due' = [due EXCEPT ![c] = TRUE]
    /\ UNCHANGED <<enabled, config, health, failures, open, aged, lockVars, passVars,
                   faults>>

(* A run has been open for two hours. *)
Age(c) ==
    /\ open[c] # None
    /\ ~aged[c]
    /\ aged' = [aged EXCEPT ![c] = TRUE]
    /\ UNCHANGED <<enabled, config, health, failures, due, open, lockVars, passVars,
                   faults>>

-----------------------------------------------------------------------------
(* The pass of the sync job. *)

Goto(w, phase) == pc' = [pc EXCEPT ![w] = phase]
Release(w) == lock' = (IF lock = w THEN None ELSE lock) /\ stray' = stray \ {w}

(* Mutant: sync_due as 0300 had it. *)
DueOnlyIfClosed(c) ==
    /\ enabled[c] /\ health[c] # "disabled" /\ due[c]
    /\ open[c] = None

(* sync_due: an open run blocks its connection for two hours. *)
DueRow(c) ==
    /\ enabled[c] /\ health[c] # "disabled" /\ due[c]
    /\ open[c] = None \/ aged[c]

(* Mutant: the pass runs without the job's lock. *)
LockUnchecked(w) == lock' = w

TakeLock(w) == lock = None /\ lock' = w

(* The job starts: the advisory lock is taken and the due rows are read. *)
Poll(w) ==
    /\ pc[w] = "idle"
    /\ TakeLock(w)
    /\ \E c \in Connections : DueRow(c)
    /\ todo' = [todo EXCEPT ![w] = {c \in Connections : DueRow(c)}]
    /\ Goto(w, "pass")
    /\ UNCHANGED <<rowVars, stray, cur, used, faults>>

EndPass(w) ==
    /\ Goto(w, "idle")
    /\ todo' = [todo EXCEPT ![w] = {}]
    /\ Release(w)
    /\ UNCHANGED <<rowVars, cur, used>>

Done(w) == pc[w] = "pass" /\ todo[w] = {} /\ EndPass(w) /\ UNCHANGED faults

(* A process that is asked to stop finishes the row it is on. *)
Stop(w) ==
    /\ "stop" \in Faults /\ faults < MaxFaults
    /\ faults' = faults + 1
    /\ pc[w] = "pass" /\ todo[w] # {}
    /\ EndPass(w)

(* begin_sync_run: a run cut short is closed, and a run is opened unless one *)
(* is still open.                                                            *)
Opens(c) == open[c] = None \/ aged[c]

(* The row is not checked again: it may have been disabled since Poll.  The  *)
(* transaction is outside the try, so an error ends the pass.                *)
Begin(w) ==
    /\ pc[w] = "pass"
    /\ \E c \in todo[w], o \in TxOutcomes :
         /\ IF Opens(c) /\ Commits(o)
            THEN /\ open' = [open EXCEPT ![c] = w]
                 /\ aged' = [aged EXCEPT ![c] = FALSE]
            ELSE UNCHANGED <<open, aged>>
         /\ IF Returns(o)
            THEN /\ todo' = [todo EXCEPT ![w] = @ \ {c}]
                 /\ UNCHANGED lockVars
                 /\ IF Opens(c)
                    THEN Goto(w, "read") /\ cur' = [cur EXCEPT ![w] = c]
                    ELSE UNCHANGED <<pc, cur>>
            ELSE /\ todo' = [todo EXCEPT ![w] = {}]
                 /\ Goto(w, "idle")
                 /\ Release(w)
                 /\ UNCHANGED cur
         /\ Count(o)
    /\ UNCHANGED <<enabled, config, health, failures, due, used>>

(* Bound: a provider that failed MaxFailures times in a row answers. *)
MayFail(c) == failures[c] < MaxFailures

(* syncOne reads the connection in a transaction of its own ... *)
ReadConfig(w) ==
    /\ pc[w] = "read"
    /\ \/ /\ used' = [used EXCEPT ![w] = config[cur[w]]]
          /\ Goto(w, "sync")
       \/ /\ MayFail(cur[w])
          /\ Goto(w, "fail")
          /\ UNCHANGED used
    /\ UNCHANGED <<rowVars, lockVars, todo, cur, faults>>

(* ... then talks to the provider and saves record by record.  A record that *)
(* cannot be saved makes the run partial; the provider's errors fail it.     *)
Import(w) ==
    /\ pc[w] = "sync"
    /\ Goto(w, "finish") \/ (MayFail(cur[w]) /\ Goto(w, "fail"))
    /\ UNCHANGED <<rowVars, lockVars, todo, cur, used, faults>>

(* Mutant: finish_sync_run closes whatever run the connection has. *)
OwnsAny(w) == TRUE

(* finish_sync_run closes a run that is still open and nothing else. *)
Owns(w) == open[cur[w]] = w

Close(c) ==
    /\ open' = [open EXCEPT ![c] = None]
    /\ aged' = [aged EXCEPT ![c] = FALSE]
    /\ due' = [due EXCEPT ![c] = FALSE]

Leave(w) ==
    /\ Goto(w, "pass")
    /\ cur' = [cur EXCEPT ![w] = None]
    /\ used' = [used EXCEPT ![w] = None]

(* finish_sync_run 'success' or 'partial', inside the try. *)
FinishOk(w) ==
    /\ pc[w] = "finish"
    /\ \E o \in TxOutcomes :
         /\ IF Owns(w) /\ Commits(o)
            THEN /\ Close(cur[w])
                 /\ failures' = [failures EXCEPT ![cur[w]] = 0]
                 /\ health' = [health EXCEPT ![cur[w]] = "active"]
            ELSE UNCHANGED <<open, aged, due, failures, health>>
         /\ IF Returns(o) THEN Leave(w) ELSE Goto(w, "fail") /\ UNCHANGED <<cur, used>>
         /\ Count(o)
    /\ UNCHANGED <<enabled, config, lockVars, todo>>

(* Mutant: the failure is logged and the run left open. *)
FailLogged(w) ==
    /\ pc[w] = "fail"
    /\ Leave(w)
    /\ UNCHANGED <<rowVars, lockVars, todo, faults>>

(* finish_sync_run 'failed', in the catch; an error of its own is logged. *)
FinishFailed(w) ==
    /\ pc[w] = "fail"
    /\ \E o \in TxOutcomes :
         /\ IF Owns(w) /\ Commits(o)
            THEN /\ Close(cur[w])
                 /\ failures' = [failures EXCEPT ![cur[w]] = @ + 1]
                 /\ health' = [health EXCEPT ![cur[w]] =
                                 IF failures[cur[w]] + 1 >= ErrorAfter THEN "error"
                                                                   ELSE "degraded"]
            ELSE UNCHANGED <<open, aged, due, failures, health>>
         /\ Count(o)
    /\ Leave(w)
    /\ UNCHANGED <<enabled, config, lockVars, todo>>

(* A runtime dies: its lock goes with its session, its run stays open. *)
Crash(w) ==
    /\ "crash" \in Faults
    /\ faults < MaxFaults
    /\ pc[w] # "idle"
    /\ faults' = faults + 1
    /\ pc' = [pc EXCEPT ![w] = "idle"]
    /\ todo' = [todo EXCEPT ![w] = {}]
    /\ cur' = [cur EXCEPT ![w] = None]
    /\ used' = [used EXCEPT ![w] = None]
    /\ Release(w)
    /\ UNCHANGED rowVars

(* The reserved connection that holds the lock is lost.  The server frees it,  *)
(* and the pass goes on: it does its work over other connections.             *)
LoseLock(w) ==
    /\ "lock_lost" \in Faults
    /\ faults < MaxFaults
    /\ pc[w] # "idle" /\ w \notin stray
    /\ faults' = faults + 1
    /\ lock' = None
    /\ stray' = stray \cup {w}
    /\ UNCHANGED <<rowVars, passVars>>

PassStep(w) ==
    \/ Poll(w) \/ Done(w) \/ Begin(w) \/ ReadConfig(w) \/ Import(w)
    \/ FinishOk(w) \/ FinishFailed(w)

Next ==
    \/ \E c \in Connections :
         \/ \E on, newSecret \in BOOLEAN, to \in Configs : Save(c, on, to, newSecret)
         \/ SyncNow(c) \/ Elapse(c) \/ Age(c)
    \/ \E w \in Workers : PassStep(w) \/ Stop(w) \/ Crash(w) \/ LoseLock(w)

Spec == Init /\ [][Next]_vars

(* The job keeps being started, a pass goes on, and two hours do pass. *)
Fairness ==
    /\ \A w \in Workers : WF_vars(PassStep(w))
    /\ \A c \in Connections : WF_vars(Age(c))

FairSpec == Spec /\ Fairness

-----------------------------------------------------------------------------
(* Safety. *)

(* "A live run that outlasts 2 hours still cannot be doubled" (1260): the       *)
(* reclaim never lets a second sync of a connection start beside a live one,   *)
(* but for one whose lock was lost under it.                                  *)
OneSync ==
    \A w1, w2 \in Workers :
        pc[w1] \in Syncing /\ pc[w2] \in Syncing /\ cur[w1] = cur[w2] =>
            w1 = w2 \/ w1 \in stray \/ w2 \in stray

(* What that promises to each connection: it is synced by nobody or by one      *)
(* runtime, and passes from one to another only through being free.            *)
TheLock == INSTANCE JobLock WITH
    Jobs <- Connections,
    Clients <- Workers,
    owner <- [c \in Connections |->
                {w \in Workers \ stray : pc[w] \in Syncing /\ cur[w] = c}]

(* No sync of a connection starts in the step in which another ends: a           *)
(* reclaimed run, a second runtime and one that died all wait for the lock.    *)
SyncsTakeTurns == TheLock!Spec

(* The status says what the count says ("error" from ErrorAfter failures in a   *)
(* row, "degraded" below, "active" at none), though finish_sync_run writes    *)
(* both from the row it finds and set_ninja_connection may have cleared the    *)
(* count, or switched the connection off and on, while the run was under way.  *)
(* A connection saved anew is "configured" until a run has proved something.  *)
HealthTellsFailures ==
    \A c \in Connections :
        /\ health[c] = "error" => failures[c] >= ErrorAfter
        /\ health[c] = "degraded" => failures[c] \in 1..(ErrorAfter - 1)
        /\ health[c] = "active" => failures[c] = 0

(* One verdict per run: a run is closed by the runtime that is syncing under it *)
(* or, after two hours, by the next that begins one.  A runtime whose run was   *)
(* reclaimed never closes the run of the one that took over, and a run that     *)
(* ended well with its reply lost is not counted as a failure afterwards:      *)
(* each failure counted is the end of one open run.                            *)
RunsAreClosedOnce ==
    [][\A c \in Connections :
         /\ open[c] # None /\ open'[c] # open[c] =>
              aged[c] \/ (pc[open[c]] \in {"finish", "fail"} /\ cur[open[c]] = c)
         /\ failures'[c] > failures[c] => open[c] # None /\ open'[c] = None]_vars

(* A run that is open belongs to a sync under way, or nobody will finish it  *)
(* and only its age can free the connection: no finished pass leaves one     *)
(* open unless something went wrong.                                         *)
OpenRunsAreLive ==
    \A c \in Connections :
        open[c] # None =>
            \/ faults > 0
            \/ pc[open[c]] \in Syncing /\ cur[open[c]] = c

(* "A changed region, client id or secret clears the failure count ...: what *)
(* the last run proved no longer applies" (0980): a failure is only counted  *)
(* against the configuration it was met with.  Does not hold: finish_sync_run  *)
(* compares nothing with what the run began with.                            *)
FailuresAreCurrent ==
    [][\A w \in Workers :
         pc[w] = "fail" /\ used[w] # None /\ failures'[cur[w]] > failures[cur[w]] =>
             used[w] = config[cur[w]]]_vars

-----------------------------------------------------------------------------
(* Liveness, when faults come to an end. *)

(* A due connection is synced or switched off, whatever was cut short before. *)
DueIsSynced == \A c \in Connections : due[c] /\ enabled[c] ~> ~due[c] \/ ~enabled[c]
=============================================================================
