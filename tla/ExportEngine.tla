----------------------------- MODULE ExportEngine -----------------------------
(***************************************************************************)
(* The export engine: the export_job rows and the SQL functions that move   *)
(* them, the render loop of the worker (src/workers/exports.ts and          *)
(* lib/exports/service.ts), the expiry job, the directories that hold the   *)
(* bundles and their passphrases, and downloads.                            *)
(*                                                                          *)
(* Every transaction is one step with three outcomes; everything that       *)
(* happens outside a transaction (a file written, a file removed) is a step *)
(* of its own, so a crash, a revocation, an expiry or a second runtime can  *)
(* fall between any two of them.                                            *)
(***************************************************************************)
EXTENDS Naturals, FiniteSets

CONSTANTS
    Jobs,         \* export requests, for one client
    Secretful,    \* those that asked for credentials
    Workers,      \* worker runtimes
    WithSink,     \* runtimes with a passphrase sink configured
    Readers,      \* download requests in flight
    Credentials,  \* how many secrets the client has
    MaxDownloads, \* bound: no more downloads once an export had this many
    Faults,       \* what the environment may do wrong
    NoJob, NoKey  \* NULL

ASSUME SecretfulAssumption == Secretful \subseteq Jobs
ASSUME SinkAssumption == WithSink \subseteq Workers
ASSUME Bounds == MaxDownloads \in Nat /\ Credentials \in Nat
ASSUME FaultKinds ==
    Faults \subseteq {"abort", "ack_lost", "crash", "file", "stop"}
ASSUME ReadersAssumption == IsFiniteSet(Readers)
ASSUME NullAssumption == NoJob \notin Jobs /\ NoKey \notin (Jobs \X Workers)

(* put() draws a random key: one per render attempt. *)
Keys == Jobs \X Workers

Statuses == {"none", "queued", "running", "completed", "failed", "expired",
             "revoked"}

VARIABLES
    status,     \* export_job.status ("none": no such row yet)
    revoked,    \* export_job.revoked_at IS NOT NULL
    due,        \* export_job.expires_at <= now()
    key,        \* export_job.storage_key
    downloads,  \* export_job.downloaded_count
    bundles,    \* keys that hold bytes under HELM_EXPORT_DIR
    passphrases,\* passphrase files, named by export id
    pc,         \* where each render loop is
    todo,       \* the backlog rows it has not reached
    cur,        \* the row it is rendering
    stored,     \* render()'s storageKey is set
    material,   \* secrets revealed by the fill under way
    sweep,      \* what the expiry job still has to delete, for which rows
    claim,      \* the export a download was granted for
    served,     \* downloads whose bytes were read, per export
    left        \* history: bundles a failing file system left behind, or a
                \* registration refused to a row that another runtime failed

rowVars == <<status, revoked, due, key, downloads>>
fileVars == <<bundles, passphrases, left>>
renderVars == <<pc, todo, cur, stored, material>>
readerVars == <<claim, served>>
vars == <<rowVars, fileVars, renderVars, sweep, readerVars>>

Phases == {"idle", "loop", "collect", "fill", "put", "deliver", "finish",
           "remove", "fail"}

(* The phases in which a loop holds a claim on its current row. *)
Claimed == Phases \ {"idle", "loop"}

TypeOK ==
    /\ status \in [Jobs -> Statuses]
    /\ revoked \in [Jobs -> BOOLEAN]
    /\ due \in [Jobs -> BOOLEAN]
    /\ key \in [Jobs -> Keys \cup {NoKey}]
    /\ downloads \in [Jobs -> 0..MaxDownloads]
    /\ bundles \subseteq Keys
    /\ passphrases \subseteq Jobs
    /\ pc \in [Workers -> Phases]
    /\ todo \in [Workers -> SUBSET Jobs]
    /\ cur \in [Workers -> Jobs \cup {NoJob}]
    /\ stored \in [Workers -> BOOLEAN]
    /\ material \in [Workers -> 0..Credentials]
    /\ sweep \in [Workers -> SUBSET (Jobs \X {"forget", "remove"})]
    /\ claim \in [Readers -> Jobs \cup {NoJob}]
    /\ served \in [Jobs -> 0..MaxDownloads]
    /\ left \subseteq Keys

Init ==
    /\ status = [j \in Jobs |-> "none"]
    /\ revoked = [j \in Jobs |-> FALSE]
    /\ due = [j \in Jobs |-> FALSE]
    /\ key = [j \in Jobs |-> NoKey]
    /\ downloads = [j \in Jobs |-> 0]
    /\ bundles = {}
    /\ passphrases = {}
    /\ pc = [w \in Workers |-> "idle"]
    /\ todo = [w \in Workers |-> {}]
    /\ cur = [w \in Workers |-> NoJob]
    /\ stored = [w \in Workers |-> FALSE]
    /\ material = [w \in Workers |-> 0]
    /\ sweep = [w \in Workers |-> {}]
    /\ claim = [r \in Readers |-> NoJob]
    /\ served = [j \in Jobs |-> 0]
    /\ left = {}

-----------------------------------------------------------------------------
(* Transactions.  "abort" rolls back and throws; "ack_lost" commits, and the *)
(* connection is lost before the caller hears of it, so it throws as well.   *)

TxOutcomes == {"ok"} \cup (Faults \cap {"abort", "ack_lost"})
Commits(o) == o # "abort"
Returns(o) == o = "ok"

FileOutcomes == {"ok"} \cup (Faults \cap {"file"})

-----------------------------------------------------------------------------
(* Requests: a user, the clock, a download. *)

(* request_export: the row is inserted queued, with its TTL. *)
Request(j) ==
    /\ status[j] = "none"
    /\ status' = [status EXCEPT ![j] = "queued"]
    /\ UNCHANGED <<revoked, due, key, downloads, fileVars, renderVars, sweep,
                   readerVars>>

(* revoke_export: a finished export keeps its status and gets revoked_at. *)
Revoke(j) ==
    /\ status[j] # "none"
    /\ ~revoked[j]
    /\ revoked' = [revoked EXCEPT ![j] = TRUE]
    /\ status' = [status EXCEPT ![j] =
                    IF @ \in {"queued", "running"} THEN "revoked" ELSE @]
    /\ UNCHANGED <<due, key, downloads, fileVars, renderVars, sweep, readerVars>>

(* expires_at is set once, by the request; then only time passes. *)
PassTTL(j) ==
    /\ status[j] # "none"
    /\ ~due[j]
    /\ due' = [due EXCEPT ![j] = TRUE]
    /\ UNCHANGED <<status, revoked, key, downloads, fileVars, renderVars, sweep,
                   readerVars>>

(* Mutant: the expiry check is forgotten. *)
DownloadablePastTTL(j) ==
    /\ ~revoked[j]
    /\ status[j] = "completed"
    /\ key[j] # NoKey

(* claim_export_download's conditions. *)
Downloadable(j) ==
    /\ ~revoked[j]
    /\ ~due[j]
    /\ status[j] = "completed"
    /\ key[j] # NoKey

(* Mutant: the bytes are handed out and the record is not written. *)
ClaimUnrecorded(r, j) ==
    /\ claim[r] = NoJob
    /\ Downloadable(j)
    /\ claim' = [claim EXCEPT ![r] = j]
    /\ UNCHANGED <<rowVars, fileVars, renderVars, sweep, served>>

(* claim_export_download: the download row and the counter are written in    *)
(* the transaction that returns the storage key.  A caller whose             *)
(* transaction throws gets nothing, whether or not it committed.             *)
ClaimDownload(r, j) ==
    /\ claim[r] = NoJob
    /\ Downloadable(j)
    /\ \A i \in Jobs : downloads[i] < MaxDownloads
    /\ \E o \in TxOutcomes \ {"abort"} :
         /\ downloads' = [downloads EXCEPT ![j] = @ + 1]
         /\ claim' = [claim EXCEPT ![r] = IF Returns(o) THEN j ELSE NoJob]
    /\ UNCHANGED <<status, revoked, due, key, fileVars, renderVars, sweep, served>>

(* Mutant: one granted claim can be used again. *)
FetchAgain(r) ==
    /\ claim[r] # NoJob
    /\ key[claim[r]] \in bundles
    /\ served' = [served EXCEPT ![claim[r]] = @ + 1]
    /\ UNCHANGED <<rowVars, fileVars, renderVars, sweep, claim>>

(* getExportStorage().get after the claim committed: the bytes may be gone. *)
FetchBytes(r) ==
    /\ claim[r] # NoJob
    /\ served' = [served EXCEPT ![claim[r]] =
                    IF key[claim[r]] \in bundles THEN @ + 1 ELSE @]
    /\ claim' = [claim EXCEPT ![r] = NoJob]
    /\ UNCHANGED <<rowVars, fileVars, renderVars, sweep>>

-----------------------------------------------------------------------------
(* The render loop. *)

(* export_backlog. *)
Backlog == {j \in Jobs : status[j] = "queued" /\ ~revoked[j] /\ ~due[j]}

PollBacklog(w) ==
    /\ pc[w] = "idle"
    /\ Backlog # {}
    /\ todo' = [todo EXCEPT ![w] = Backlog]
    /\ pc' = [pc EXCEPT ![w] = "loop"]
    /\ UNCHANGED <<rowVars, fileVars, cur, stored, material, sweep, readerVars>>

(* The end of the loop: no row left, or the runtime is stopping. *)
LeaveLoop(w) ==
    /\ pc[w] = "loop"
    /\ todo[w] = {} \/ "stop" \in Faults
    /\ pc' = [pc EXCEPT ![w] = "idle"]
    /\ todo' = [todo EXCEPT ![w] = {}]
    /\ UNCHANGED <<rowVars, fileVars, cur, stored, material, sweep, readerVars>>

(* Mutant: the claim does not look at the status. *)
ClaimableInAnyStatus(j) == status[j] # "none" /\ ~revoked[j] /\ ~due[j]

(* begin_export_render's WHERE clause. *)
Claimable(j) == status[j] = "queued" /\ ~revoked[j] /\ ~due[j]

(* finish_export_render: nothing is registered for a row revoked while it    *)
(* rendered, nor for one that is not running.                                *)
Finishable(j) == ~revoked[j] /\ status[j] = "running"

NeedsSink(w, j) == j \in Secretful /\ w \notin WithSink

(* A queued row is claimed in a transaction of its own; the claim decides    *)
(* which of two runtimes that read the same backlog renders it.              *)
BeginRender(w) ==
    /\ pc[w] = "loop"
    /\ \E j \in todo[w], o \in TxOutcomes :
         /\ ~NeedsSink(w, j)
         /\ todo' = [todo EXCEPT ![w] = @ \ {j}]
         /\ status' = IF Claimable(j) /\ Commits(o)
                      THEN [status EXCEPT ![j] = "running"] ELSE status
         /\ IF Claimable(j) /\ Returns(o)
            THEN /\ pc' = [pc EXCEPT ![w] = "collect"]
                 /\ cur' = [cur EXCEPT ![w] = j]
            ELSE UNCHANGED <<pc, cur>>
    /\ UNCHANGED <<revoked, due, key, downloads, fileVars, stored, material, sweep,
                   readerVars>>

(* markFailed: begin and finish 'failed' in one transaction.  It runs        *)
(* outside the loop's try, so an error ends the whole pass.                  *)
MarkFailed(w) ==
    /\ pc[w] = "loop"
    /\ \E j \in todo[w], o \in TxOutcomes :
         /\ NeedsSink(w, j)
         /\ status' = IF (Claimable(j) \/ Finishable(j)) /\ Commits(o)
                      THEN [status EXCEPT ![j] = "failed"] ELSE status
         /\ key' = IF (Claimable(j) \/ Finishable(j)) /\ Commits(o)
                   THEN [key EXCEPT ![j] = NoKey] ELSE key
         /\ todo' = [todo EXCEPT ![w] = IF Returns(o) THEN @ \ {j} ELSE {}]
         /\ pc' = [pc EXCEPT ![w] = IF Returns(o) THEN "loop" ELSE "idle"]
    /\ UNCHANGED <<revoked, due, downloads, fileVars, cur, stored, material, sweep,
                   readerVars>>

Goto(w, phase) == pc' = [pc EXCEPT ![w] = phase]

(* Mutant: the row is marked failed and the bytes are left. *)
CatchKeepingBytes(w) == Goto(w, "fail")

(* An error inside render()'s try: bytes already stored are removed first. *)
Catch(w) == Goto(w, IF stored[w] THEN "remove" ELSE "fail")

(* Collected as the requester, whose access is resolved again now: a person  *)
(* who has lost it fails the export, and so does any other error.            *)
Collect(w) ==
    /\ pc[w] = "collect"
    /\ \/ Goto(w, IF cur[w] \in Secretful THEN "fill" ELSE "put")
       \/ Catch(w)
    /\ UNCHANGED <<rowVars, fileVars, todo, cur, stored, material, sweep, readerVars>>

(* is_in_live_secret_export: some credential export of the client is live. *)
LiveExport ==
    \E j \in Secretful :
        ~revoked[j] /\ ~due[j] /\ status[j] \in {"queued", "running"}

(* #fillSecrets: one reveal after another, each in its own transaction.  A   *)
(* denied reveal is an omission and not an error; anything else fails the    *)
(* export.                                                                   *)
FillSecrets(w) ==
    /\ pc[w] = "fill"
    /\ \/ /\ LiveExport
          /\ material[w] < Credentials
          /\ material' = [material EXCEPT ![w] = @ + 1]
          /\ UNCHANGED pc
       \/ /\ Goto(w, "put") \/ Catch(w)
          /\ material' = [material EXCEPT ![w] = 0]
    /\ UNCHANGED <<rowVars, fileVars, todo, cur, stored, sweep, readerVars>>

ThisKey(w) == <<cur[w], w>>

(* Mutant: the result of the write is not looked at. *)
StoreUnchecked(w) ==
    /\ pc[w] = "put"
    /\ bundles' \in {bundles \cup {ThisKey(w)}}
                     \cup {bundles : x \in Faults \cap {"file"}}
    /\ stored' = [stored EXCEPT ![w] = TRUE]
    /\ Goto(w, IF cur[w] \in Secretful THEN "deliver" ELSE "finish")
    /\ UNCHANGED <<rowVars, passphrases, left, todo, cur, material, sweep, readerVars>>

(* A write that fails may leave part of the file, and put() has then         *)
(* returned no key to remove it by.                                          *)
StoreBytes(w) ==
    /\ pc[w] = "put"
    /\ \E o \in FileOutcomes :
         IF o = "ok"
         THEN /\ bundles' = bundles \cup {ThisKey(w)}
              /\ stored' = [stored EXCEPT ![w] = TRUE]
              /\ Goto(w, IF cur[w] \in Secretful THEN "deliver" ELSE "finish")
              /\ UNCHANGED left
         ELSE /\ bundles' \in {bundles, bundles \cup {ThisKey(w)}}
              /\ left' = left \cup ({ThisKey(w)} \cap bundles')
              /\ UNCHANGED stored
              /\ Goto(w, "fail")
    /\ UNCHANGED <<rowVars, passphrases, todo, cur, material, sweep, readerVars>>

(* Mutant: a delivery that fails does not fail the export. *)
DeliverUnchecked(w) ==
    /\ pc[w] = "deliver"
    /\ passphrases' \in {passphrases \cup {cur[w]}}
                         \cup {passphrases : x \in Faults \cap {"file"}}
    /\ Goto(w, "finish")
    /\ UNCHANGED <<rowVars, bundles, left, todo, cur, stored, material, sweep, readerVars>>

(* FilePassphraseSink.deliver: flag 'wx' refuses a file that exists. *)
DeliverPassphrase(w) ==
    /\ pc[w] = "deliver"
    /\ \E o \in FileOutcomes :
         IF cur[w] \notin passphrases /\ o = "ok"
         THEN /\ passphrases' = passphrases \cup {cur[w]}
              /\ Goto(w, "finish")
         ELSE /\ passphrases' \in {passphrases, passphrases \cup {cur[w]}}
              /\ Catch(w)
    /\ UNCHANGED <<rowVars, bundles, left, todo, cur, stored, material, sweep, readerVars>>

Release(w) ==
    /\ cur' = [cur EXCEPT ![w] = NoJob]
    /\ stored' = [stored EXCEPT ![w] = FALSE]

(* finish_export_render 'completed'.  render() ignores the boolean it        *)
(* returns: a refused registration is reported as rendered.                  *)
FinishCompleted(w) ==
    /\ pc[w] = "finish"
    /\ \E o \in TxOutcomes :
         /\ IF Finishable(cur[w]) /\ Commits(o)
            THEN /\ status' = [status EXCEPT ![cur[w]] = "completed"]
                 /\ key' = [key EXCEPT ![cur[w]] = ThisKey(w)]
            ELSE UNCHANGED <<status, key>>
         /\ left' = IF Returns(o) /\ status[cur[w]] = "failed"
                    THEN left \cup {ThisKey(w)} ELSE left
         /\ IF Returns(o) THEN Goto(w, "loop") /\ Release(w)
                          ELSE Catch(w) /\ UNCHANGED <<cur, stored>>
    /\ UNCHANGED <<revoked, due, downloads, bundles, passphrases, todo, material, sweep, readerVars>>

(* The catch block removes the bytes, best effort ... *)
RemoveStored(w) ==
    /\ pc[w] = "remove"
    /\ \E o \in FileOutcomes :
         IF o = "ok" THEN bundles' = bundles \ {ThisKey(w)} /\ UNCHANGED left
                     ELSE left' = left \cup {ThisKey(w)} /\ UNCHANGED bundles
    /\ Goto(w, "fail")
    /\ UNCHANGED <<rowVars, passphrases, todo, cur, stored, material, sweep, readerVars>>

(* Mutant: the failure is logged and the row left as it is. *)
FailUnrecorded(w) ==
    /\ pc[w] = "fail"
    /\ Goto(w, "loop")
    /\ Release(w)
    /\ UNCHANGED <<rowVars, fileVars, todo, material, sweep, readerVars>>

(* ... then marks the row failed.  The loop catches whatever happens. *)
FinishFailed(w) ==
    /\ pc[w] = "fail"
    /\ \E o \in TxOutcomes :
         IF Finishable(cur[w]) /\ Commits(o)
         THEN /\ status' = [status EXCEPT ![cur[w]] = "failed"]
              /\ key' = [key EXCEPT ![cur[w]] = NoKey]
         ELSE UNCHANGED <<status, key>>
    /\ Goto(w, "loop")
    /\ Release(w)
    /\ UNCHANGED <<revoked, due, downloads, fileVars, todo, material, sweep, readerVars>>

-----------------------------------------------------------------------------
(* The expiry job. *)

(* Mutant: revoked rows are retired like the others. *)
ExpirableRevoked(j) == status[j] = "completed" /\ due[j]

(* expire_exports' WHERE clause. *)
Expirable(j) == status[j] = "completed" /\ ~revoked[j] /\ due[j]

(* One statement retires every row past its TTL and returns the keys; the    *)
(* deletions are driven by what it returned.                                 *)
ExpireRows(w) ==
    LET past == {j \in Jobs : Expirable(j)} IN
    /\ sweep[w] = {}
    /\ past # {}
    /\ \E o \in TxOutcomes \ {"abort"} :
         /\ status' = [j \in Jobs |-> IF j \in past THEN "expired" ELSE status[j]]
         /\ sweep' = [sweep EXCEPT ![w] = IF Returns(o) THEN past \X {"forget"}
                                                     ELSE {}]
    /\ UNCHANGED <<revoked, due, key, downloads, fileVars, renderVars, readerVars>>

(* Row by row: forget() the passphrase ... *)
ForgetPassphrase(w) ==
    \E j \in Jobs :
    /\ <<j, "forget">> \in sweep[w]
    /\ \A i \in Jobs : <<i, "remove">> \notin sweep[w]
    /\ \E o \in FileOutcomes :
         passphrases' = IF o = "ok" /\ w \in WithSink THEN passphrases \ {j}
                                                     ELSE passphrases
    /\ sweep' = [sweep EXCEPT ![w] =
                   (@ \ {<<j, "forget">>}) \cup {<<j, "remove">>}]
    /\ UNCHANGED <<rowVars, bundles, left, renderVars, readerVars>>

(* Mutant: the sweep passes over the bytes. *)
RemoveNothing(w) ==
    \E j \in Jobs :
    /\ <<j, "remove">> \in sweep[w]
    /\ sweep' = [sweep EXCEPT ![w] = @ \ {<<j, "remove">>}]
    /\ UNCHANGED <<rowVars, fileVars, renderVars, readerVars>>

(* ... then remove() the bytes; a failure of either is logged and passed over. *)
RemoveExpired(w) ==
    \E j \in Jobs :
    /\ <<j, "remove">> \in sweep[w]
    /\ \E o \in FileOutcomes :
         IF o = "ok" THEN bundles' = bundles \ {key[j]} /\ UNCHANGED left
                     ELSE left' = left \cup ({key[j]} \cap bundles) /\ UNCHANGED bundles
    /\ sweep' = [sweep EXCEPT ![w] = @ \ {<<j, "remove">>}]
    /\ UNCHANGED <<rowVars, passphrases, renderVars, readerVars>>

-----------------------------------------------------------------------------
(* A runtime that dies loses everything it held in memory; a new one starts  *)
(* from the rows.                                                            *)
Crash(w) ==
    /\ "crash" \in Faults
    /\ pc[w] # "idle" \/ sweep[w] # {}
    /\ pc' = [pc EXCEPT ![w] = "idle"]
    /\ todo' = [todo EXCEPT ![w] = {}]
    /\ sweep' = [sweep EXCEPT ![w] = {}]
    /\ Release(w)
    /\ material' = [material EXCEPT ![w] = 0]
    /\ UNCHANGED <<rowVars, fileVars, readerVars>>

RenderStep(w) ==
    \/ PollBacklog(w) \/ LeaveLoop(w) \/ BeginRender(w) \/ MarkFailed(w)
    \/ Collect(w) \/ FillSecrets(w) \/ StoreBytes(w) \/ DeliverPassphrase(w)
    \/ FinishCompleted(w) \/ RemoveStored(w) \/ FinishFailed(w)

ExpiryStep(w) == ExpireRows(w) \/ ForgetPassphrase(w) \/ RemoveExpired(w)

UserStep ==
    \/ \E j \in Jobs : Request(j) \/ Revoke(j) \/ PassTTL(j)
    \/ \E r \in Readers : FetchBytes(r) \/ \E j \in Jobs : ClaimDownload(r, j)

Next ==
    \/ UserStep
    \/ \E w \in Workers : RenderStep(w) \/ ExpiryStep(w) \/ Crash(w)

Spec == Init /\ [][Next]_vars

(* The runtime's ticks keep starting both jobs, and a job that runs goes on. *)
Fairness == \A w \in Workers : WF_vars(RenderStep(w)) /\ WF_vars(ExpiryStep(w))

FairSpec == Spec /\ Fairness

-----------------------------------------------------------------------------
(* Safety. *)

(* At most one runtime ever renders a given export, even when two hold the   *)
(* same backlog: begin_export_render is the claim.                           *)
OneRenderer ==
    \A w1, w2 \in Workers :
        pc[w1] \in Claimed /\ pc[w2] \in Claimed /\ cur[w1] = cur[w2] => w1 = w2

(* A credential bundle that can be downloaded can be opened: its passphrase  *)
(* was written out before the row was completed, and only expiry, which ends *)
(* downloads first, takes it away.                                           *)
DownloadableIsOpenable ==
    \A j \in Secretful : Downloadable(j) => j \in passphrases

(* A row that offers a download has its bytes on disk.  With "ack_lost" this  *)
(* does not hold: the catch then removes the bundle of a row it did complete. *)
DownloadableHasBytes == \A j \in Jobs : Downloadable(j) => key[j] \in bundles

(* The offers that lead to nothing. *)
Hollow == {j \in Jobs : Downloadable(j) /\ key[j] \notin bundles}

(* What is offered had its bytes stored first, and no sweep, second runtime or *)
(* failed render takes them from under an offer: only the render's own catch   *)
(* does, of a row it completed without hearing of it.                         *)
OffersKeepBytes ==
    [][Hollow' \subseteq Hollow \/ \E w \in Workers :
         /\ RemoveStored(w)
         /\ status[cur[w]] = "completed"
         /\ Hollow' = Hollow \cup {cur[w]}]_vars

Granted(j) == {r \in Readers : claim[r] = j}

(* Every set of bytes handed out was recorded first, and a crash, a lost     *)
(* reply or a missing file between the two leaves the record too high and    *)
(* never too low.                                                            *)
DownloadsRecorded ==
    \A j \in Jobs : served[j] + Cardinality(Granted(j)) <= downloads[j]

(* Revocation is final: no render still under way, sweep or download changes *)
(* what a revoked row says.                                                  *)
RevocationIsFinal ==
    [][\A j \in Jobs : revoked[j] =>
           /\ revoked'[j]
           /\ status'[j] = status[j]
           /\ key'[j] = key[j]
           /\ downloads'[j] = downloads[j]]_vars

(* docs/architecture/05-workers-and-exports.md:73: the permission is          *)
(* "recomputed on every call so a job revoked mid-render stops yielding       *)
(* material immediately".  Does not hold: the call asks whether the client    *)
(* has any live credential export.                                            *)
RevokedYieldsNothing ==
    [][\A w \in Workers : material'[w] > material[w] => ~revoked[cur[w]]]_vars

(* A bundle somebody still answers for: a render that will register or remove  *)
(* it, a completed row, or a row the expiry job has just retired.             *)
Accounted(k) ==
    \/ \E w \in Workers : stored[w] /\ pc[w] # "fail" /\ ThisKey(w) = k
    \/ key[k[1]] = k /\ status[k[1]] = "completed"
    \/ key[k[1]] = k /\ \E w \in Workers : \E s \in {"forget", "remove"} :
                             <<k[1], s>> \in sweep[w]

Orphans == {k \in bundles : ~revoked[k[1]] /\ ~Accounted(k)}

(* The rows that say "running" and that no runtime renders: nothing takes them *)
(* up again.                                                                  *)
Stranded ==
    {j \in Jobs : status[j] = "running"
                  /\ \A w \in Workers : pc[w] \in Claimed => cur[w] # j}

(* The bundle of an export that was not revoked is left to nobody only as     *)
(* `left' says, by a runtime that dies, and by the keys of an expiry that get  *)
(* lost on their way back.  A row is left running with no renderer only by a   *)
(* runtime that dies, by a claim that is not heard of, and by a failure that   *)
(* could not be recorded.                                                      *)
NothingIsOrphaned ==
    [][/\ Orphans' \subseteq Orphans \cup left' \/ \E w \in Workers :
            \/ Crash(w)
            \/ ExpireRows(w) /\ sweep'[w] = {}
       /\ Stranded' \subseteq Stranded \/ \E w \in Workers :
            \/ Crash(w)
            \/ BeginRender(w) /\ pc'[w] = "loop"
            \/ FinishFailed(w) /\ status' = status]_vars

-----------------------------------------------------------------------------
(* Liveness, for runtimes that keep running. *)

(* A request is rendered, failed, revoked, or runs out of its TTL in the queue, *)
(* and a render under way ends: no row stays queued or running.               *)
RequestsSettle ==
    \A j \in Jobs :
        status[j] \in {"queued", "running"} ~>
            \/ status[j] \notin {"queued", "running"}
            \/ status[j] = "queued" /\ due[j]

HasBytes(j) == \E k \in bundles : k[1] = j

(* Past the TTL no bytes are left of an export that was not revoked: the       *)
(* catch of a failed render and the sweep have deleted them, but for those     *)
(* that `left' names.                                                          *)
ExpiredBytesGo ==
    \A j \in Jobs :
        due[j] ~> revoked[j] \/ \A k \in bundles : k[1] = j => k \in left

(* 0130_attachments.sql: "Exports self-destruct".  Does not hold of an export    *)
(* that was revoked: the expiry job passes over its row, and its bytes stay.   *)
ExportsSelfDestruct == \A j \in Jobs : due[j] ~> ~HasBytes(j)

-----------------------------------------------------------------------------
(* What a user sees of an export, and the promise about it. *)

Phase(j) ==
    CASE status[j] = "none" -> "none"
      [] revoked[j] \/ due[j] \/ status[j] \in {"failed", "expired", "revoked"}
           -> "closed"
      [] status[j] = "completed" /\ ~revoked[j] /\ ~due[j] -> "offered"
      [] OTHER -> "requested"

Lifecycle == INSTANCE ExportLifecycle WITH
    phase <- [j \in Jobs |-> Phase(j)],
    granted <- downloads

(* The engine keeps the lifecycle ExportLifecycle promises. *)
KeepsLifecycle == Lifecycle!Spec
=============================================================================
