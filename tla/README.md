# Lake Effect Helm: TLA+ specifications

Helm documents the clients of a managed service provider: assets, contacts,
procedures, and a vault of credentials. It is a Next.js application over
PostgreSQL, with one background worker process (or several). Nearly all of its
authority is in the database: services and workers call SQL functions, each in a
transaction that carries a tenant and an actor (`withTenant`).

These specifications model the places where that design has to be right *between*
transactions: where a worker, a person, a clock and a file system take turns, and
where one of them may stop halfway. Inside one transaction PostgreSQL does the
hard part, and the repository's own SQL tests check it.

Contents: [inventory](#1-inventory) · [plan](#2-plan) · [modules](#3-modules-and-the-code) ·
[runs](#4-runs-bounds-and-fairness) · [proofs](#5-proofs) · [findings](#6-where-code-and-documents-disagree) ·
[limits](#7-what-is-not-modelled)

## 1. Inventory

For each part: its state, its operations, what is hard, and what makes it correct.

| Part | State | Operations | Hard | Correct when |
| --- | --- | --- | --- | --- |
| **Export engine** (`src/lib/exports`, `workers/exports.ts`, 0310, 0400) | `export_job`, bundle and passphrase files | request, revoke, render, expire, download | three places written in turn; two runtimes; revocation midway; crash; TTL | one renderer per export; what is offered can be fetched and opened; revocation is final; downloads are recorded; bytes go with the TTL |
| **Worker runtime** (`workers/runtime.ts`, `main.ts`) | due times, runs in flight, pool, advisory locks | tick, run, `--once`, stop | two processes; a pool shared by locks and work; shutdown during a tick | a job runs once at a time; runs end; a due job waits only for those ahead of it; nothing outlives shutdown |
| **Data keys and vault writes** (`lib/secrets`, `lib/personal`, 0230, 0260, 0470, 1030) | `tenant_data_key`, `secret_version`, `personal_credential` | write, rotate key, re-encrypt, retire | READ COMMITTED; a ciphertext bound to a version number chosen before the write; re-encryption against people | every current version opens; keys move forward; one active key; values are a register |
| **Integration sync runs** (`workers/*-sync.ts`, 0300, 0980, 1260) | `integration_connection`, `integration_sync_run` | poll, begin, import, finish, reclaim, save, sync now | crashes with a run open; reclaim of a live run; credentials replaced midway | one sync per connection; each run closed once, by its own sync or its age; the status agrees with the failures; due connections are synced |
| **DEK cache** (`lib/crypto/dek-cache.ts`) | unwrapped keys, pending unwraps | get, invalidate, clear, evict | invalidation and eviction during a pending unwrap | a caller's copy is never zeroed under it; an invalidated key is gone |
| **Audit chain** (0140, 0300, `workers/anchor.ts`) | `audit_log` rows chained by hash, the head row, the anchor | link, commit, roll back, verify, witness, record | overlapping transactions; stale backlogs; a crash between the witness and the record | numbers are contiguous, each row chained to the one before; anchors hold |
| **Notification queue** (`workers/notifications.ts`, 0420, 0690, 0700, 0870, 1220) | `notification_cursor`, `webhook_delivery`, the relay | fan out, raise task events, claim, send, record, back off, delete | claims without a mark; a crash between send and record; late answers; numbers taken before commit | no event is passed over; repeats are mishaps; nothing settled is queued again; every row comes to an end |
| **Task reminders** (`workers/reminders.ts`, 0690, 0700) | `task_reminder`, the relay | raise at an assignment and by the sweep, suppress, claim, send, record | repeated sweeps; a record that fails after its send; steps finished meanwhile; no relay | one message per step and threshold; what falls due is mailed or given up once there is a relay |
| **Alerts and expirations** (`workers/alerts.ts`, 0100, 0300) | `expiration`, `alert_event` | project a date, evaluate, queue, record | thresholds that overtake each other; a renewal with a warning under way | a warning is sent, or gave way to a more urgent one |
| **SOPs, runs and schedules** (`workers/schedules.ts`, `api/sop-runs`, 0770) | `sop_schedule`, `sop_run`, `sop_run_step` | take a slot, raise a run, advance; finish, reopen, assign, complete, abandon | two runtimes at one slot; requests that read first and write later without a lock | a slot raises one run; a completed run stays completed and has nothing pending |
| **Sign-in and sessions** (`lib/auth`, 0340, 0890, 1270) | attempts, tokens, sessions | sign in, step up, reset, expire | parallel attempts; token reuse | lockout counts every failure; a token works once |
| **Browser extension pairing** (1120, 1121) | installs, tokens | pair, renew, revoke | renewal racing revocation | one live token per pairing |
| **Updates and deploys** (`lib/updates`, `deploy/updater.sh`) | request and status files | request, pick up, report | two processes, one file | a request is carried out once |
| **Backups** (`lib/backups`, `scripts/backup.ts`, 0820) | backup rows | dump, upload, prune | external programs | the newest good backup is never pruned |
| Documentation core (assets, clients, documents, graph, search, import, …), RLS and roles, provider clients, web application, cryptographic primitives, migrations | tables | single-statement reads and writes | queries, policies, formats | outside the reach of a state-machine model; see [7](#7-what-is-not-modelled) |

How they interact: the **runtime** starts every job under one advisory lock per
job, on a connection of the pool the jobs work with. The **export** and **sync**
jobs read their backlog with one query, then act on each row in transactions of
their own. A render reads secrets through the **vault**'s reveal function, which
asks whether a live export permits it. People call the same SQL functions from
the **web application** at any time. Every one of these transactions appends to
the **audit chain**. The **notification queue** reads that log from a cursor;
**alerts** put warnings on the same queue; **reminders** have a queue of their own,
filled by assignments to the steps of **runs** and by a sweep; the same
assignments and a second sweep put task events on the notification queue.

## 2. Plan

Done, in this order; each module was checked and then proved about.

1. `ExportEngine`, `ExportLifecycle`: requests to downloads.
2. `WorkerRuntime`, `JobLock`: what every job stands on.
3. `KeyRotation`, `SecretRegister`: the vault under a rotation.
4. `SyncRuns`: sync jobs and their reclaim.
5. `AuditChain`, `AuditLog`: the log under overlapping transactions, and its anchors.
6. `NotificationQueue`, `ExpiryAlerts` and their composition with the log, `Outbound`.
7. `ChecklistRuns`, `TaskReminders`: schedules, runs, people, and the mail about it.

What would come next, by weight: `DekCache` (callers that share a pending unwrap,
eviction and invalidation; no caller gets zeroed bytes), `SignIn` (attempts, tokens,
sessions), `ExtensionPairing`, `UpdateHandoff`. The first is left out because its
state dies with its process; the others are small protocols between two people and
a table. Then the notification pass and the reminder pass beside a second one, as
a lost connection would allow: `SyncRuns` has that fault, `ExportEngine` and the
anchors take no lock at all, and those two queues still have one pass at a time.

## 3. Modules and the code

A step of a model is a transaction, a file operation, or a piece of code between
two of them that shares nothing. Where a transaction may fail, its outcome is a
choice: `"ok"`; `"abort"` (rolled back, the caller gets an error); `"ack_lost"`
(committed, and the caller gets an error all the same). The constant `Faults` says
which are possible, so each run names what it assumes. Next to some actions the
modules keep a `Mutant:` definition, the action as a plausible bug would have it;
no specification uses them.

### ExportEngine (with ExportLifecycle)

One client's exports, two worker runtimes and the readers who download.

| Model | Code |
| --- | --- |
| `status`, `revoked`, `due`, `key`, `downloads` | the columns of `export_job` (`due`: the TTL is over) |
| `bundles`, `passphrases` | files under `HELM_EXPORT_DIR` and the passphrase directory |
| `pc`, `todo`, `cur`, `stored`, `material` | the loop of `renderExports` and the locals of `render()` |
| `left` | history: bundles that a failing file system kept, or that the catch of a refused registration left |
| `sweep` | what `expireExports` has yet to delete of the rows it retired |
| `claim`, `served` | `download()`: a granted claim, bytes read |
| `Request`, `Revoke`, `ClaimDownload` | `helm.request_export`, `revoke_export`, `claim_export_download` (0400, 0310) |
| `PollBacklog`, `BeginRender`, `MarkFailed` | `export_backlog`, `begin_export_render`, `markFailed` |
| `Collect`, `FillSecrets`, `StoreBytes`, `DeliverPassphrase`, `FinishCompleted` | `render()`, in order |
| `Catch`, `RemoveStored`, `FinishFailed` | its `catch` |
| `ExpireRows`, `ForgetPassphrase`, `RemoveExpired` | `expireExports` |

The runtimes take no job lock here: `begin_export_render` alone must keep two
renders of one export apart, as it does when a lock is lost. `ExportLifecycle` is
what a user is promised: none → requested → offered → closed, and downloads only
while offered. The refinement reads a row that is revoked or past its TTL as closed.

### WorkerRuntime (with JobLock)

Time is counted in ticks: `wait[r][j]` is the number of ticks until a job is due. A
run goes `reserve` (a connection for its lock), `lock`, `start`, `work` (another
connection), `unlock`; `ReserveFails` and `LockQueryFails` are its ways to end before
it holds anything. `awaited` is the snapshot of `#inFlight` that `stop()` waits for:
`Exit` asks only whether those runs have ended, and takes down whatever else runs. `holder` is the server's view of the advisory lock, which can
outlive the client's: a killed process leaves it to `ReapSession`, and a lost
connection lets the server free it while the job goes on. `MaxConcurrent`, `Due`
and `Starts` are `#maxConcurrent`, `#due` and the loop of the tick; `StartOnce` and
`TakeLane` are `runOnce`. `JobLock`: each job is run by nobody or by one client, and
passes on only through being free. A run whose connection is lost no longer counts as
a client of the lock: it goes on to its end beside the next one, as in the code.

### KeyRotation (with SecretRegister)

Sessions at READ COMMITTED. A person writes a shared secret (`activeDataKey`,
`begin_secret_write`, `write_secret_version`) or a personal entry (`lockEnvelope`,
`store`); a re-encryption pass reveals and rewrites secrets under the new key, in
two transactions for a shared secret and one for an entry; an administrator rotates
and retires keys. A ciphertext is the pair of the key and the version it is bound
to by its additional data (`seal`): it opens only under the version it is stored
as. The module takes `reEncryptPersonalVault` one entry per transaction; the code
does all in one, so the model has more interleavings and not fewer.
`SecretRegister` forgets keys and versions: a value changes only by a submitted
write, which takes effect once or not at all.

### SyncRuns

The connections of one provider, and the job that syncs them. `open` and `aged` are
the run row and its two hours; `due` abstracts `last_sync_at`, the interval and the
backoff; `failures` counts without an end, as the column does (a run of TLC stops
the provider from failing a `MaxFailures`-th time in a row); `lock` is the job's advisory lock, and `stray` are the runtimes whose pass
goes on after its connection was lost (`LoseLock`), which is what `WorkerRuntime`
allows. The refinement of `JobLock` takes each connection for a job, run by the
runtimes that sync it and are not stray. A run is identified by the runtime that
opened it, which is enough: a runtime has at most one. `Save` and `SyncNow` are
people (`set_ninja_connection`, `request_ninja_sync`). The other four sync jobs have
the same loop around the same SQL functions.

### AuditChain

| Model | Code |
| --- | --- |
| `rows`, `head` | committed rows of `audit_log`; `audit_chain_head` |
| `draft[t]` | the row that `t`'s transaction has inserted; while there is one, the head is locked |
| `altered` | rows changed in place from outside, which the chain is there to show |
| `anchored`, `witnessed`, `job` | the recorded anchor, the sink's receipts, each runtime's pass |
| `Link`, `CommitAudited`, `RollBackAudited` | the trigger `audit_chain_link` and the end of its transaction |
| `ReadAnchorBacklog`, `VerifyChain`, `Witness`, `RecordAnchor` | the loop of `anchor.ts` and the functions it calls |

A row hash commits to all the history below it, so it is modelled as that history:
the sequence of events up to its row. Two different histories then have different
hashes, which is what a collision-free hash gives. `AuditLog` is what that is for: a
log that operations append to, each once, and a witnessed part that is always a
beginning of it and only grows. The refinement reads the log off the head's hash, so
drafts, rollbacks, passes and altered rows are stuttering steps.

### NotificationQueue, ExpiryAlerts, Outbound

`NotificationQueue` EXTENDS `AuditChain`, whose committed rows the fan-out reads
from `cursor`. `delivery[<<e, s>>]` is the `webhook_delivery` row of destination `e`
for source `s` (an audited event, an alert, or a task event: `task.assigned`, one per
run and person, and `task.overdue`, one per step and due date): its status (`"waiting"`: pending with
`next_attempt_at` ahead; `"gone"`: deleted), its attempts, and two ghosts: how often
the destination received it, and in how many cases the sender could not know.

| Model | Code |
| --- | --- |
| `FanOut` | `fan_out_notifications`: one transaction under the lock of the cursor row |
| `Queued` | `INSERT ... ON CONFLICT DO NOTHING`, shared with `enqueue_notification` |
| `TaskAssigned`, `RaiseTaskEvents` | the trigger `task_assigned_event` and the hourly `raise_task_channel_events` (0870) |
| `window`, `DueDate` | whether an overdue step's due date is ahead, less than a day past, or longer past |
| `Claim`, `Take` | `claim_notifications`, which marks nothing, and the loop over what it returned |
| `Send`, `Mailer` | `deliverOne` and `EmailBatch.open`: taken, refused, or taken with an answer after the timeout |
| `Record`, `Settled`, `RecordLast`, `LoseBatch` | `record_notification_delivery`; the catch around the batch; a crash |
| `BackoffOver`, `SwitchRelay`, `Delete` | time; people (`delete_archived_notifications`: `TwoDaysOld`) |

The two days before a row may be deleted matter for `task.overdue` alone, whose sweep
looks back one day: a row of it is written while its `window` is open, so it is two
days old only once the window is past. Nothing else here has a date, and may be deleted
as soon as it is finished, which gives the model more deletions and not fewer.
There is one deliver pass at a time. A second one, beside a pass that was cut off from
the job's lock (`OneRunner` allows it), would read the same unmarked rows and send them
again; `NeverRequeued` and `TwiceOnlyByMishap` say nothing of it.

`ExpiryAlerts` is one expiration under one rule: `left` counts the days to its date,
`alert[l]` is the `alert_event` row of lead day `l`. `Evaluate` is
`evaluate_alert_rules`, `QueueAlert` the transaction of `alerts.ts` that enqueues and
records, `Renew` the projection of a new date onto the same row. `Outbound` composes
the three: what one module's step leaves alone is said there, and so is the fairness.

### ChecklistRuns, TaskReminders

| Model | Code |
| --- | --- |
| `today`, `next`, `enabled`, `published` | the date; `sop_schedule`; whether its procedure can be run |
| `raising[w]`, `began[w]` | the slot that `w`'s transaction has read with `FOR UPDATE SKIP LOCKED`, and the day it began: its `now()`, past which it advances |
| `raised`, `run`, `step` | runs per slot; the first run and its steps |
| `request[p]` | what `p`'s HTTP request has read and is about to write |
| `ReadSlot`, `Raise`, `RaiseFails` | `schedules.ts` and `raise_scheduled_runs` |
| `AskComplete`/`Complete`, `AskAbandon`/`Abandon`, `AskStep`/`WriteStep` | the two halves of the PATCH handlers under `api/sop-runs` |
| `RaiseRun`, `PatchStep` | the same steps with what they do to reminders in their transaction |
| `Sweep`, `Claim`, `Send`, `Record`, `RecordFails`, `LoseBatch` | `raise_task_reminders`; the pass of `reminders.ts` |
| `relay`, `SwitchRelay` | `smtp_setting.enabled`: `email_backlog` and `EmailBatch.open` ask for it before a pass, raising does not |

`TaskReminders` EXTENDS `ChecklistRuns` and is the specification that is run. Its
`RecordFails` is the one place where it differs from the notification pass: sending
and recording share a `try`, so a record that fails is recorded as a failed send.

## 4. Runs, bounds and fairness

`MC*.tla` declare the model values; each `.cfg` is one question.

| Run | Shows | Instance |
| --- | --- | --- |
| `export_faults` | types, one renderer, offered bundles open and keep their bytes, downloads recorded, revocation final, no bundle orphaned and no row left running but by the named mishaps | 2 exports (one with credentials), 2 runtimes (one without a passphrase sink), 1 reader; rollbacks, lost replies, file errors, crashes, stops |
| `export_settles` | the lifecycle refined; every request comes to an end; the TTL removes the bytes of what was not revoked, but for those `left` names | the same, with file errors only |
| `export_revoked` | finding 3 | 2 credential exports of one client, 1 runtime, no faults |
| `runtime` | one runner per job beside those cut off from their lock; runs and shutdowns end, and nothing runs at an exit; a due job waits only for jobs ahead of it | 3 jobs, a service and a `--once` run, one slot of a pool of 3; kills and lost connections |
| `key_rotation` | versions open, keys move forward and retired ones come to rest, the register refined | a secret that exists and an entry that does not, 2 people, 1 pass, 2 keys, 2 versions past the first |
| `sync_runs` | the status agrees with the failures counted, syncs take turns (`JobLock` refined), each run closed once, no run left open, due connections synced | 1 connection with 2 configurations, 2 runtimes, `error` at 2 failures of up to 3, up to 3 mishaps of any kind, lost locks among them |
| `audit_chain` | contiguous numbers and hashes, anchors hold, `AuditLog` refined | 3 operations, 2 anchoring runtimes, crashes at every step |
| `outbound` | types, no event missed, repeats are mishaps, nothing settled queued or sent again, events come to an end | 2 operations, an assignment and an overdue step, a webhook and a mailbox, 2 attempts, 1 mishap |
| `alerts` | warnings accounted for, and settled | 3 thresholds (one nobody subscribes to), 2 days, 1 renewal, 1 mishap |
| `checklists` | types, slots raise once, reminders go out once, completed runs and their settled steps stay, slots and reminders are dealt with | 1 schedule, 1 day, 2 runtimes, 2 people, 1 step, 2 thresholds, a relay that is there or not; 3 requests, settings or failures |
| `alert_renewal` | finding 1 | 1 threshold, 1 renewal, no faults |
| `checklist_settled` | finding 2 | as `checklists`, without fairness |

Why the bounds are enough: every hazard is between two parties (two runtimes, a
runtime and a person, a person and a pass) about one or two rows. Two runtimes are
needed for claims, locks and backlogs read twice; two exports so that a loop has a
row left when something goes wrong with another, and so that one export's liveness
can answer for another's; three jobs for one slot so that the cap bites and the last
job can be crowded out, and a run needs two of the three connections;
of them would hold a lock and wait;
two people and a pass so that a write can fall between the halves of a
re-encryption and another between its own; three mishaps so that a lock can be lost to
a runtime whose run is then reclaimed, while a reply of the other's is lost and one of
them dies (two passes at once make every further connection costly, and connections
share only the lock and the loop: the theorems take any number of them); three operations so that a number is
given up in the middle and an anchor can be two rows behind; two events and a batch
of one so that a fan-out stops short of the head; two attempts so that a row is
retried and then given up; three thresholds so that one is overtaken and one is not;
a slot that comes on the last day, so that it is read, fails and is read again.
`MaxDownloads`, `MaxGeneration`, `MaxVersion`, `MaxFaults`, `MaxFailures`, `ErrorAfter`,
`MaxMishaps`, `MaxAttempts`, `FanoutBatch`, `Horizon`, `MaxPeriod`, `MaxDay`,
`Interval` and `MaxEvents` bound counters that the code lets grow or name its
settings; the theorems hold for every value of them. `key_rotation` uses symmetry in
the two people and `audit_chain` in operations and in runtimes, which is sound: no
liveness is checked there and nothing is chosen by `CHOOSE`.

`CHECK_DEADLOCK FALSE` in all configurations but the runtime's: a system whose exports
are closed, whose versions are used up, or whose queues are empty and days over, stops.

What each run leaves out matters as much. `export_settles` excludes crashes and
rollbacks: a row whose renderer died stays `running`, and no query picks it up again
(`export_faults` runs with all five faults, and `NothingIsOrphaned` there names the
steps that leave a row so); the lifecycle is refined there with file errors, and by
`EngineKeepsLifecycle` with every fault. `export_faults` reveals no credentials
(`Credentials = 0`): what a reveal asks is the question of `export_revoked`.
`outbound` has no alerts and `alerts` no operations: their only meeting point is
the queue, where their deliveries are different rows; the proofs treat them together.
The webhook of `outbound` hears one operation and both task events, the mailbox the other.

Fairness. `ExportEngine`: weak fairness of each runtime's render and expiry
jobs, because the runtime's ticks start both again and again, as long as the jobs ahead of them in the list leave a slot now and then
(`OnlyJobsAheadDelay`; section 6 says when they do not), and
a job that runs goes on to its end (`RunsEnd`); people owe nothing, and neither does the clock.
`WorkerRuntime`: weak fairness of the tick (`setInterval`), of each run's next step,
and of the server noticing dead sessions; strong fairness of getting a connection,
because the pool serves its waiters in order. `Start`, `Stop` and faults are free.
`SyncRuns`: weak fairness of each runtime's pass, and of two hours passing.
`Outbound`: weak fairness of the fan-out, of the deliver pass, of each backoff running
out, of the evaluation, and of the alert pass: the jobs are started by the runtime,
and what they wait for inside is a timeout. Nothing makes a destination answer, a relay
be configured, a transaction of a person end, or a day pass. `TaskReminders`: weak
fairness of reading a due slot, of ending a raise, of the sweep, of the deliver pass
and of backoffs; people may leave any request unfinished. Mishaps are bounded in number
everywhere, as liveness under endless crashes is not promised by anybody.

## 5. Proofs

In seven `*_proofs.tla`, for every value of the constants under the named
assumptions of the modules (finite sets of jobs and readers, disjoint roles, NULL apart
from the rest, a pool of at least two). Every safety property of every passing run is a
theorem: all the invariants, and all the action properties and refinements.

**ExportEngine_proofs.** `DownloadsAreRecorded`: `served[j]` plus the claims still
outstanding never exceed `downloads[j]`; the type invariant needs this, as it is what bounds
`served`. `OneRuntimeRenders`: no two runtimes hold the same row, which is inductive
only with `RenderingIsClaimed` (a held row has left the queue for good, so no later claim succeeds).
`OfferedBundlesOpen`: a passphrase, once delivered, stays until the TTL, because only
the sweep takes it away and only rows past their TTL are swept; so a row that
reaches `completed` through `deliver` has one. `RevokedStaysRevoked`: each statement that writes
a row asks for `revoked_at IS NULL`; needed besides: a revoked row exists, or `Request` could remake it.
`OfferedBundlesHaveBytes` (no lost replies) rests on `BytesInv`: keys are a row's
own, a row being rendered is neither completed nor expired, and only expired rows
are swept; so the key a catch or a sweep removes is no completed row's. Where a
reply can be lost, its second part is what breaks, and `OffersKeepTheirBytes` says, under every
fault, that nothing else does: an offer loses its bytes only to the catch of the runtime that
completed it. `OnlyMishapsOrphan`, under every fault too, adds who answers for a bundle (the
render hands it to the row it completes, the row to the sweep that retires it) and for a row that
is running: the runtime that claimed it, until a verdict, a crash, or the lost reply or rollback it names.
`EngineKeepsLifecycle`, under every
fault: each step moves at most one row's phase, as what the expiry job retires is
closed already.

**WorkerRuntime_proofs.** `JobsRunOnce` and `RuntimesAreALock` rest on `HolderInv`: a lock
a runtime believes it holds is its own on the server, unless its connection was lost, which is
the exception both name. `ConnectedJobsRunOnce` is the strict form, where no reserved connection
is lost; without that assumption it is false. `PoolIsNeverAllLocks`: the runs
in flight stay within half the pool, so locks alone never exhaust it, whichever pool; `RunsNeverWaitInACircle` follows: one of them
has what it needs, which is the safety half of `RunsEnd`.
`NothingOutlivesShutdown` rests on `AwaitedInv`: while a runtime stops, every run in flight is
one that its snapshot named, since a tick looks at `#stopping` before it starts anything.

**KeyRotation_proofs.** `OneKeyIsActive` is inductive as it stands. `EveryVersionOpens`
and `KeysOnlyAdvance` rest on `VaultInv`: a session that is past its lock holds the row,
so the version it allocated is still the next one when it commits; and the key it
carries was active when it was accepted, and no key minted is later than the active
one. That a retired key which nothing is stored under and no sealed write carries stays so
is the part of retirement that the code does give (`Quiet`): accepting a write asks for the active key. `VaultIsARegister` adds `RotationInv`: a re-encryption carries the current value for
as long as the version it read is current, and `begin_secret_write` refuses it otherwise,
so its commit changes no value and is a stuttering step of the register.

**SyncRuns_proofs.** `ConnectionsSyncOnce` and `ConnectionsTakeTurns`, under every fault: a
runtime in a pass holds the job's lock or has lost it on the way, so there is one pass and the
strays; a step moves one runtime, so no connection passes from one holder of the lock straight to another.
`NoRunIsForgotten`: a run is opened by the pass that syncs its
connection and closed by it, and each way to leave it open counts a mishap.
`VerdictsAreSingle`: `finish_sync_run` writes only for a run that is still open, and a run has one
opener, so the verdict on a run that was reclaimed, or closed with its reply lost, changes nothing.
`StatusTellsFailures`: each of the three functions that write the status or the count writes both, or
writes a status that claims nothing (`configured`, `disabled`).

**AuditChain_proofs.** `ChainStaysContiguous` is inductive with one fact more: a draft is
the row that comes next, and there is at most one, since the head is locked from the
insert to the end of its transaction. `AnchorsAlwaysHold` needs that what a pass carries
into `record` was witnessed, and that rows and their hashes never change. `ChainIsAnAppendLog`
puts the two together: a commit extends the head's hash by one event that is not in it, and the
anchor's hash is the head's, cut at the anchor's number.

**Outbound_proofs.** The chain's invariant is reused through EXTENDS. `NoEventIsMissed`: the
cursor is a number the fan-out has read, and whatever commits later has a larger
one (contiguity: that is why the cursor is safe). `NothingIsRequeued`, with one pass at a time: a row
that was settled came from an event at or below the cursor, from an alert that is recorded, or
from an overdue step whose row is there or whose window is past; none is put on the queue again. Nor is it sent: the row a pass has in hand is pending, and of
what it claimed no row comes back once it was recorded. `RepeatsAreMishaps`: every message received is
the outcome of the row in hand, an attempt recorded, or a doubt counted; the pass holds no row twice.
`WarningsAreAccountedFor`: the polled alerts are still pending, and the two writes of `QueueAlert` commit together.

**TaskReminders_proofs.** `SlotsRaiseOnce`: at most one transaction holds the slot, and it is
the schedule's current one; `Ahead` moves past the day the transaction began, which is arithmetic over any
interval. `RemindersGoOutOnce`: as for the queue, with `RecordFails` counted as a doubt.
`CompletedRunsStay`: the CHECK on `completed_at` refuses the late `Abandon`, and no request is
taken up once the run is completed, so a step that is done stays so unless a request that read the
run before is about to reopen it (finding 2 is that exception).

**Only model-checked:** liveness (`RequestsSettle`, `ExpiredBytesGo`, `RunsEnd`,
`StopEnds`, `OnlyJobsAheadDelay`, `DueIsSynced`, `EventsSettle`, `WarningsSettle`,
`SlotsDealtWith`, `RemindersSettle`), because the prover has no backend for `ENABLED`
and fairness. `LocksLeaveRoom`, `SomeRunGoesOn`, `LockIsExclusive`, `OneActiveKey`, `OneSync`,
`ChainTypeOK` and, where replies arrive, `DownloadableHasBytes`, on the other hand, are proved and
not among the runs' properties.

## 6. Where code and documents disagree

Each is a run whose property is the document's sentence and whose counterexample is
the code's behaviour.

1. **A renewed thing is not warned of again** (`alert_renewal`). `alert_event` is unique
   per rule, expiration and lead day (0100:276); a renewal moves the date of the
   expiration row in place and leaves its events. 0300:90 says "at 30 days the only
   newly-crossed threshold is 30, and it is delivered": not in the second year.
2. **A completed run may have a pending step** (`checklist_settled`). The handler counts
   the pending steps and updates the run later, without a lock
   (sop-runs/[runId]/route.ts:74); a step reopened in between commits. Line 15 says "A RUN
   CANNOT BE COMPLETED WITH MANDATORY STEPS STILL PENDING."
3. **A revoked render may read on** (`export_revoked`). `is_in_live_secret_export` (0400:336)
   asks for any live credential export of the client, so while a second one is queued or
   running the revoked one goes on revealing. docs/architecture/05-workers-and-exports.md:73
   says "recomputed on every call so a job revoked mid-render stops yielding material immediately".

Met while modelling, and stated by no run. Of exports, jobs, keys and syncs:

- `expire_exports` skips revoked rows (0310:522), so the bytes of a revoked export stay;
  0130:140 says "Exports self-destruct" (`ExportsSelfDestruct` states it).
- `markFailed` of a runtime without a sink ignores what `begin_export_render` returned and
  fails a row another runtime is rendering (workers/exports.ts:250); its bundle is then
  nobody's, as `render()` ignores the refusal (the exception in `NothingIsOrphaned`).
- A lost reply to `finish_export_render` leaves a completed export without bytes (service.ts:347).
- A crash leaves an export `running` for good: nothing reclaims it, as 1260 does for syncs.
- Passphrase files of failed exports, and of revoked ones, are never deleted
  (only rows retired by `expire_exports` are); workers/exports.ts:103 explains why they should be.
- Each tick scans the jobs from the head and stops at the cap (runtime.ts:243): with one
  slot and three jobs the last may never start; runtime.ts:240 says a skipped job
  "starts as soon as a slot frees" (`OnlyJobsAheadDelay` says what is left of that). At the default pool it takes as many long jobs as slots.
- The count in `retire_data_key` (1030:146) does not see a write that is not committed, which then
  becomes current under the retired key (`RetiredUnused`; `KeysMoveForward` says that only a
  write sealed before the retirement can); keys.ts:14 says "no ciphertext
  references it any more". It still decrypts, and the next pass re-encrypts it.
- `finish_sync_run` counts the failure of a sync begun before `set_ninja_connection` replaced
  the credentials (`FailuresAreCurrent`); 0980:161 says "what the last run proved no longer applies".
- "Sync now" pressed during a run is undone by that run's `last_sync_at = now()` (0980:348, 0300:420).
- A run that is reclaimed counts as no failure (1260:92), though 0300 warns of a
  connection that "retries at full rate forever while reporting itself healthy".
- `finish_sync_run` sets a connection that was disabled meanwhile back to `active` or `degraded`.
- `reEncrypt`'s comment says one transaction (service.ts:627); the code uses two,
  deliberately (service.ts:636). `activeDataKey`'s comment speaks of one snapshot
  (keys.ts:69), which READ COMMITTED does not give; `write_secret_version` refuses the late key instead.
- DEK cache: `invalidate()` during a pending unwrap is undone by the store that follows, and an
  eviction in the same turn may zero the buffer just stored (dek-cache.ts:133).

Of the log, the queues and the checklists:

- `verify_audit_chain` takes the first row's `prev_hash` as its baseline, so a missing
  beginning is not seen; over a window of event times it can report a gap that is none, as
  numbers follow the order of locking and times the start of transactions.
- A tenant's cursor starts at 0: the first destination it adds hears of its whole log.
- `notification_fanout_backlog` lists the active tenants with somewhere to send, by name, and
  stops at 50, whether or not they have anything unread (0700:964): a fifty-first is never
  visited. `notification_backlog` also lists tenants whose only due mail no relay can take.
- `prune_notifications` is called by nothing; nothing writes `acknowledged_until`;
  `rebuild_expirations` deletes `alert_event` rows by cascade; the sweep for `task.overdue`
  looks back one day only.
- Two people who complete a run at once both succeed, and the later overwrites
  `completed_by` and `completed_at`. A completer who has read `in_progress` also
  completes a run abandoned meanwhile: only the other direction has a CHECK.
- `reminders.ts` sends and records in one `try`: a lost reply to the record becomes a failure,
  and the mail goes again. `record_task_reminder` has no guard on the status: a reminder
  suppressed while it was sent goes back to pending when the send failed.
- A step handed to a second person gives no second `assigned` reminder (unique per step
  and kind). Pending reminders of an abandoned run are still claimed.
- `raise_task_reminders` applies its LIMIT of 500 before it drops what was already raised.

## 7. What is not modelled

The repository has about 109 000 lines in 648 files, and the map names some two
percent of them. Most of the rest is not a protocol: pages and components, forms,
routes that are one query each, clients for two dozen providers, report and document
renderers, table definitions. A state machine of those would restate them. The parts
that keep state *between* transactions are the ones the inventory lists above its last
row, and of them nine are modelled as far as said here.

- Contents: what an export collects, renders and encrypts, what a sync makes of a
  provider's records, what a message says. No property here depends on it.
- Permissions, row level security and step-up: single-transaction checks, taken as passed.
- In `ExportEngine`: deletion of the client (which cascades to its exports), and the render of plain
  exports differs from credential ones only by the two steps it skips.
- In `WorkerRuntime`: the interval within a tick, heartbeat, and logging.
- In `KeyRotation`: `rewrapUnderCurrentKek` (touches no ciphertext), keys provisioned
  inactive, deletion and import of entries.
- In `SyncRuns`: the LIMIT of the due query, run triggers, cursors and records.
- In `AuditChain`: verification of a window by event time, partitions, and which columns a hash covers.
- In `NotificationQueue`: a second pass beside one cut off from its lock, the in-app inbox, destinations switched off, tested or deleted, the LIMITs of the batch and of the sweep for task events.
- In `ExpiryAlerts`: several rules, severity, acknowledgement, `rebuild_expirations`.
- In `ChecklistRuns` and `TaskReminders`: contents of versions, runs started by hand, the blocked
  status, `next_run_at` moved by hand, people who leave or opt out of mail, the sweep's LIMIT.
- `DekCache`, sign-in, extension pairing and updates: section 2 says what they would be.
  Backups are an order of external programs. The last row of the inventory is queries,
  policies and formats, where the repository's SQL tests say more than a model would.
- Cryptography: a ciphertext opens exactly under the key and the version it was bound to,
  and two histories never share a hash.
