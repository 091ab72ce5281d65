-------------------------- MODULE ExportEngine_proofs --------------------------
(***************************************************************************)
(* Proofs about ExportEngine, for any number of exports, runtimes, readers   *)
(* and credentials and under every combination of faults.                    *)
(***************************************************************************)
EXTENDS ExportEngine, FiniteSetTheorems, TLAPS

USE DEF rowVars, fileVars, renderVars, readerVars

-----------------------------------------------------------------------------
(* Downloads.  The records of an export cover what was served of it and the  *)
(* claims still to be served; this bounds the counters as well.              *)

(* The claims outstanding on an export are finite, so they can be counted. *)
LEMMA GrantedIsFinite ==
    \A j \in Jobs : IsFiniteSet(Granted(j)) /\ Cardinality(Granted(j)) \in Nat
<1>1. \A j \in Jobs : Granted(j) \subseteq Readers
  BY DEF Granted
<1>2. QED
  BY <1>1, ReadersAssumption, FS_Subset, FS_CardinalityType

(* A claim that is granted is one more ... *)
LEMMA GrantAdds ==
    ASSUME TypeOK, NEW r \in Readers, NEW j \in Jobs, claim[r] = NoJob,
           claim' = [claim EXCEPT ![r] = j]
    PROVE  /\ Cardinality(Granted(j)') = Cardinality(Granted(j)) + 1
           /\ \A i \in Jobs \ {j} : Granted(i)' = Granted(i)
<1>1. Granted(j)' = Granted(j) \cup {r} /\ r \notin Granted(j)
  BY NullAssumption DEF TypeOK, Granted
<1>2. \A i \in Jobs \ {j} : Granted(i)' = Granted(i)
  BY NullAssumption DEF TypeOK, Granted
<1>3. QED
  BY <1>1, <1>2, GrantedIsFinite, FS_AddElement

(* ... and one that is served is one less. *)
LEMMA FetchRemoves ==
    ASSUME TypeOK, NEW r \in Readers, claim[r] # NoJob,
           claim' = [claim EXCEPT ![r] = NoJob]
    PROVE  /\ Cardinality(Granted(claim[r])) =
                Cardinality({q \in Readers : claim'[q] = claim[r]}) + 1
           /\ \A i \in Jobs \ {claim[r]} : Granted(i)' = Granted(i)
<1> DEFINE j == claim[r]
           before == Granted(j)
           after == {q \in Readers : claim'[q] = j}
<1>1. j \in Jobs
  BY DEF TypeOK
<1>2. after = before \ {r} /\ r \in before
  BY <1>1, NullAssumption DEF TypeOK, Granted
<1>3. \A i \in Jobs \ {j} : Granted(i)' = Granted(i)
  BY <1>1, NullAssumption DEF TypeOK, Granted
<1>4. Cardinality(after) = Cardinality(before) - 1
  <2> HIDE DEF before, after
  <2>1. IsFiniteSet(before)
    BY <1>1, GrantedIsFinite DEF before
  <2> QED
    BY <1>2, <2>1, FS_RemoveElement
<1>5. Cardinality(before) \in Nat
  BY <1>1, GrantedIsFinite
<1>6. Cardinality(before) = Cardinality(after) + 1
  <2> HIDE DEF before, after
  <2>1. IsFiniteSet(before)
    BY <1>1, GrantedIsFinite DEF before
  <2> QED
    BY <1>2, <1>4, <1>5, <2>1, FS_RemoveElement, FS_CardinalityType
<1>7. QED
  BY <1>3, <1>6

-----------------------------------------------------------------------------
(* Type correctness.  A runtime that holds a claim has a row to render, and  *)
(* what was served stays within what was recorded.                           *)

HasRow == \A w \in Workers : pc[w] \in Claimed => cur[w] # NoJob

TypeInv == TypeOK /\ HasRow /\ DownloadsRecorded

(* The type invariant holds before anything is requested. *)
LEMMA TypeInvInit == Init => TypeInv
<1> SUFFICES ASSUME Init PROVE TypeInv
  OBVIOUS
<1>1. TypeOK /\ HasRow
  BY Bounds DEF Init, TypeOK, HasRow, Claimed, Phases, Statuses
<1>2. \A j \in Jobs : Granted(j) = {}
  BY NullAssumption DEF Init, Granted
<1>3. DownloadsRecorded
  <2>1. \A j \in Jobs : Cardinality(Granted(j)) = 0
    BY <1>2, FS_EmptySet
  <2>2. \A j \in Jobs : served[j] = 0 /\ downloads[j] = 0
    BY DEF Init
  <2>3. QED
    BY <2>1, <2>2 DEF DownloadsRecorded
<1>4. QED
  BY <1>1, <1>3 DEF TypeInv

(* The step of an action that leaves downloads alone. *)
LEMMA RecordedUnchanged ==
    DownloadsRecorded /\ UNCHANGED <<downloads, claim, served>> => DownloadsRecorded'
BY DEF DownloadsRecorded, Granted

(* People, the clock and downloads keep it: a download is counted before     *)
(* its claim.                                                                *)
LEMMA TypeInvUser == TypeInv /\ UserStep => TypeInv'
<1> SUFFICES ASSUME TypeInv, UserStep PROVE TypeInv'
  OBVIOUS
<1> USE DEF TypeInv
<1>1. ASSUME NEW j \in Jobs, Request(j) \/ Revoke(j) \/ PassTTL(j) PROVE TypeInv'
  <2>1. CASE Request(j)
    BY <2>1, RecordedUnchanged DEF Request, TypeOK, HasRow, Statuses
  <2>2. CASE Revoke(j)
    BY <2>2, RecordedUnchanged DEF Revoke, TypeOK, HasRow, Statuses
  <2>3. CASE PassTTL(j)
    BY <2>3, RecordedUnchanged DEF PassTTL, TypeOK, HasRow
  <2>4. QED
    BY <1>1, <2>1, <2>2, <2>3
<1>2. ASSUME NEW r \in Readers, FetchBytes(r) PROVE TypeInv'
  <2> DEFINE j == claim[r]
             others == Cardinality({q \in Readers : claim'[q] = j})
  <2>1. j \in Jobs /\ claim[r] # NoJob
    BY <1>2 DEF FetchBytes, TypeOK
  <2>2. Cardinality(Granted(j)) = others + 1
        /\ \A i \in Jobs \ {j} : Granted(i)' = Granted(i)
    BY <1>2, FetchRemoves DEF FetchBytes
  <2>3. Granted(j) \subseteq Readers /\ {q \in Readers : claim'[q] = j} \subseteq Readers
    BY DEF Granted
  <2>4. others \in Nat
    BY <2>3, ReadersAssumption, FS_Subset, FS_CardinalityType
  <2>5. served[j] + others + 1 <= downloads[j] /\ downloads[j] <= MaxDownloads
    BY <2>1, <2>2, <2>4, Bounds DEF DownloadsRecorded, TypeOK
  <2>6. \A i \in Jobs : served'[i] = served[i] \/ (i = j /\ served'[i] = served[i] + 1)
    BY <1>2, <2>1 DEF FetchBytes, TypeOK
  <2>7. served' \in [Jobs -> 0..MaxDownloads]
    <3>1. served'[j] \in 0..MaxDownloads
      BY <2>1, <2>4, <2>5, <2>6, Bounds DEF TypeOK
    <3>2. QED
      BY <1>2, <2>1, <3>1 DEF FetchBytes, TypeOK
  <2>8. (TypeOK /\ HasRow)'
    BY <1>2, <2>7 DEF FetchBytes, TypeOK, HasRow
  <2>9. ASSUME NEW i \in Jobs
        PROVE  served'[i] + Cardinality(Granted(i)') <= downloads'[i]
    <3>1. downloads' = downloads
      BY <1>2 DEF FetchBytes
    <3>2. CASE i = j
      <4>1. Granted(i)' = {q \in Readers : claim'[q] = j}
        BY <3>2 DEF Granted
      <4>2. QED
        BY <2>4, <2>5, <2>6, <3>1, <3>2, <4>1 DEF TypeOK
    <3>3. CASE i # j
      BY <2>2, <2>6, <3>1, <3>3 DEF DownloadsRecorded
    <3>4. QED
      BY <3>2, <3>3
  <2>10. DownloadsRecorded'
    BY <2>9 DEF DownloadsRecorded
  <2>11. QED
    BY <2>8, <2>10
<1>3. ASSUME NEW r \in Readers, NEW j \in Jobs, ClaimDownload(r, j) PROVE TypeInv'
  <2>1. (TypeOK /\ HasRow)'
    BY <1>3, Bounds DEF ClaimDownload, TypeOK, HasRow
  <2>2. downloads' = [downloads EXCEPT ![j] = @ + 1] /\ served' = served
    BY <1>3 DEF ClaimDownload
  <2>3. CASE claim' = [claim EXCEPT ![r] = j]
    <3>1. Cardinality(Granted(j)') = Cardinality(Granted(j)) + 1
          /\ \A i \in Jobs \ {j} : Granted(i)' = Granted(i)
      BY <1>3, <2>3, GrantAdds DEF ClaimDownload
    <3>2. QED
      BY <2>1, <2>2, <3>1, GrantedIsFinite DEF DownloadsRecorded, TypeOK
  <2>4. CASE claim' = claim
    <3>1. \A i \in Jobs : Granted(i)' = Granted(i)
      BY <2>4 DEF Granted
    <3>2. QED
      BY <2>1, <2>2, <3>1, GrantedIsFinite DEF DownloadsRecorded, TypeOK
  <2>5. claim' = [claim EXCEPT ![r] = j] \/ claim' = claim
    BY <1>3 DEF ClaimDownload, TypeOK
  <2>6. QED
    BY <2>3, <2>4, <2>5
<1>4. QED
  BY <1>1, <1>2, <1>3 DEF UserStep

(* The key put() returns for a claimed row is a storage key. *)
LEMMA KeyIsKey ==
    ASSUME TypeOK, NEW w \in Workers, cur[w] # NoJob
    PROVE  ThisKey(w) \in Keys
BY DEF TypeOK, ThisKey, Keys

(* Every step of the render loop keeps it. *)
LEMMA TypeInvRender ==
    ASSUME TypeInv, NEW w \in Workers, RenderStep(w)
    PROVE  TypeInv'
<1> USE DEF TypeInv, TypeOK, HasRow, Phases, Claimed, Statuses
<1>1. CASE PollBacklog(w)
  BY <1>1, RecordedUnchanged DEF PollBacklog, Backlog
<1>2. CASE LeaveLoop(w)
  BY <1>2, RecordedUnchanged DEF LeaveLoop
<1>3. CASE BeginRender(w)
  BY <1>3, NullAssumption, RecordedUnchanged DEF BeginRender
<1>4. CASE MarkFailed(w)
  BY <1>4, RecordedUnchanged DEF MarkFailed
<1>5. CASE Collect(w)
  BY <1>5, RecordedUnchanged DEF Collect, Catch, Goto
<1>6. CASE FillSecrets(w)
  BY <1>6, Bounds, RecordedUnchanged DEF FillSecrets, Catch, Goto
<1>7. CASE StoreBytes(w)
  <2>1. ThisKey(w) \in Keys
    BY <1>7, KeyIsKey DEF StoreBytes
  <2>2. bundles' \subseteq Keys /\ left' \subseteq Keys
    BY <1>7, <2>1 DEF StoreBytes
  <2>3. /\ pc' \in [Workers -> Phases]
        /\ stored' \in [Workers -> BOOLEAN]
        /\ HasRow'
    BY <1>7 DEF StoreBytes, Goto
  <2>4. QED
    BY <1>7, <2>2, <2>3, RecordedUnchanged DEF StoreBytes
<1>8. CASE DeliverPassphrase(w)
  BY <1>8, RecordedUnchanged DEF DeliverPassphrase, Catch, Goto
<1>9. CASE FinishCompleted(w)
  <2>1. ThisKey(w) \in Keys
    BY <1>9, KeyIsKey DEF FinishCompleted
  <2>2. QED
    <3>1. cur[w] \in Jobs
      BY <1>9 DEF FinishCompleted
    <3>2. PICK o \in TxOutcomes :
            /\ IF Finishable(cur[w]) /\ Commits(o)
               THEN /\ status' = [status EXCEPT ![cur[w]] = "completed"]
                    /\ key' = [key EXCEPT ![cur[w]] = ThisKey(w)]
               ELSE UNCHANGED <<status, key>>
            /\ left' \in {left, left \cup {ThisKey(w)}}
            /\ IF Returns(o) THEN Goto(w, "loop") /\ Release(w)
                             ELSE Catch(w) /\ UNCHANGED <<cur, stored>>
      BY <1>9 DEF FinishCompleted
    <3>3. /\ status' \in [Jobs -> Statuses] /\ key' \in [Jobs -> Keys \cup {NoKey}]
          /\ left' \subseteq Keys
      BY <2>1, <3>1, <3>2
    <3>4. /\ pc' \in [Workers -> Phases]
          /\ cur' \in [Workers -> Jobs \cup {NoJob}]
          /\ stored' \in [Workers -> BOOLEAN]
          /\ HasRow'
      BY <1>9, <3>2 DEF FinishCompleted, Catch, Release, Goto
    <3>5. QED
      BY <1>9, <3>3, <3>4, RecordedUnchanged DEF FinishCompleted
<1>10. CASE RemoveStored(w)
  BY <1>10, KeyIsKey, RecordedUnchanged DEF RemoveStored, Goto
<1>11. CASE FinishFailed(w)
  BY <1>11, RecordedUnchanged DEF FinishFailed, Release, Goto
<1>12. QED
  BY <1>1, <1>2, <1>3, <1>4, <1>5, <1>6, <1>7, <1>8, <1>9, <1>10, <1>11
  DEF RenderStep

(* The expiry job and a crash keep it. *)
LEMMA TypeInvExpiry ==
    ASSUME TypeInv, NEW w \in Workers, ExpiryStep(w) \/ Crash(w)
    PROVE  TypeInv'
<1> USE DEF TypeInv, TypeOK, HasRow, Phases, Claimed, Statuses
<1>1. CASE ExpireRows(w)
  BY <1>1, RecordedUnchanged DEF ExpireRows, Expirable
<1>2. CASE ForgetPassphrase(w)
  BY <1>2, RecordedUnchanged DEF ForgetPassphrase
<1>3. CASE RemoveExpired(w)
  BY <1>3, RecordedUnchanged DEF RemoveExpired
<1>4. CASE Crash(w)
  BY <1>4, Bounds, RecordedUnchanged DEF Crash, Release
<1>5. QED
  BY <1>1, <1>2, <1>3, <1>4 DEF ExpiryStep

(* So does a step that changes nothing here. *)
LEMMA TypeInvStutter == TypeInv /\ UNCHANGED vars => TypeInv'
BY RecordedUnchanged DEF TypeInv, TypeOK, HasRow, vars

(* The type invariant is inductive. *)
LEMMA TypeInvNext == TypeInv /\ [Next]_vars => TypeInv'
BY TypeInvUser, TypeInvRender, TypeInvExpiry, TypeInvStutter DEF Next

(* Rows, files, loops and readers stay within their types, under every fault *)
(* (TypeOK).                                                                 *)
THEOREM TypeCorrect == Spec => []TypeOK
<1>1. TypeInv => TypeOK
  BY DEF TypeInv
<1>2. QED
  BY <1>1, TypeInvInit, TypeInvNext, PTL DEF Spec

(* Every download is recorded before any byte of it is handed out, under     *)
(* every fault (DownloadsRecorded); with the type invariant it rests on.     *)
THEOREM DownloadsAreRecorded == Spec => [](TypeOK /\ DownloadsRecorded)
<1>1. TypeInv => TypeOK /\ DownloadsRecorded
  BY DEF TypeInv
<1>2. QED
  BY <1>1, TypeInvInit, TypeInvNext, PTL DEF Spec

-----------------------------------------------------------------------------
(* Two runtimes never render one export.  A row is claimed out of "queued"   *)
(* and never goes back there, so whoever is rendering it is the only one     *)
(* that ever was let in.                                                     *)

RenderingIsClaimed ==
    \A w \in Workers : pc[w] \in Claimed => status[cur[w]] \notin {"none", "queued"}

ClaimInv == RenderingIsClaimed /\ OneRenderer

(* A step that takes no claim and puts no row back keeps every claim. *)
LEMMA ClaimKept ==
    ASSUME TypeInv, ClaimInv,
           \A w \in Workers : pc'[w] \in Claimed => pc[w] \in Claimed /\ cur'[w] = cur[w],
           \A j \in Jobs : status[j] \notin {"none", "queued"} =>
                             status'[j] \notin {"none", "queued"}
    PROVE  ClaimInv'
<1>1. RenderingIsClaimed'
  BY DEF TypeInv, TypeOK, HasRow, ClaimInv, RenderingIsClaimed
<1>2. OneRenderer'
  BY DEF ClaimInv, OneRenderer
<1>3. QED
  BY <1>1, <1>2 DEF ClaimInv

(* begin_export_render takes a row nobody renders: every claimed row has     *)
(* left the queue.                                                           *)
LEMMA ClaimTaken ==
    ASSUME TypeInv, ClaimInv, NEW w \in Workers, BeginRender(w)
    PROVE  ClaimInv'
<1> USE DEF TypeInv, TypeOK
<1>1. PICK j \in todo[w], o \in TxOutcomes :
        /\ status' = IF Claimable(j) /\ Commits(o)
                     THEN [status EXCEPT ![j] = "running"] ELSE status
        /\ IF Claimable(j) /\ Returns(o)
           THEN /\ pc' = [pc EXCEPT ![w] = "collect"]
                /\ cur' = [cur EXCEPT ![w] = j]
           ELSE UNCHANGED <<pc, cur>>
  BY DEF BeginRender
<1>2. j \in Jobs
  BY <1>1
<1>3. CASE Claimable(j) /\ Returns(o)
  <2>1. status' = [status EXCEPT ![j] = "running"] /\ status[j] = "queued"
    BY <1>1, <1>3 DEF Claimable, Returns, Commits
  <2>2. \A v \in Workers : pc[v] \in Claimed => cur[v] # j
    BY <2>1 DEF ClaimInv, RenderingIsClaimed
  <2>3. \A v \in Workers \ {w} : pc'[v] = pc[v] /\ cur'[v] = cur[v]
    BY <1>1, <1>3
  <2>4. cur'[w] = j
    BY <1>1, <1>3
  <2>5. RenderingIsClaimed'
    BY <1>2, <2>1, <2>3, <2>4 DEF ClaimInv, RenderingIsClaimed, HasRow
  <2>6. OneRenderer'
    BY <2>2, <2>3, <2>4 DEF ClaimInv, OneRenderer
  <2>7. QED
    BY <2>5, <2>6 DEF ClaimInv
<1>4. CASE ~(Claimable(j) /\ Returns(o))
  <2>1. pc' = pc /\ cur' = cur
    BY <1>1, <1>4
  <2>2. \A i \in Jobs : status'[i] \in {status[i], "running"}
    BY <1>1, <1>2
  <2>3. QED
    BY <2>1, <2>2, ClaimKept
<1>5. QED
  BY <1>3, <1>4

(* The claims stay exclusive in every step. *)
LEMMA ClaimInvNext == TypeInv /\ ClaimInv /\ [Next]_vars => ClaimInv'
<1> SUFFICES ASSUME TypeInv, ClaimInv, [Next]_vars PROVE ClaimInv'
  OBVIOUS
<1> USE DEF TypeInv, TypeOK, Claimed, Phases, Statuses
<1>1. CASE UserStep
  <2>1. \A j \in Jobs : status[j] \notin {"none", "queued"} =>
                          status'[j] \notin {"none", "queued"}
    BY <1>1 DEF UserStep, Request, Revoke, PassTTL, FetchBytes, ClaimDownload
  <2>2. pc' = pc /\ cur' = cur
    BY <1>1 DEF UserStep, Request, Revoke, PassTTL, FetchBytes, ClaimDownload
  <2>3. QED
    BY <2>1, <2>2, ClaimKept
<1>2. ASSUME NEW w \in Workers, RenderStep(w) PROVE ClaimInv'
  <2>1. CASE PollBacklog(w)
    BY <2>1, ClaimKept DEF PollBacklog
  <2>2. CASE LeaveLoop(w)
    BY <2>2, ClaimKept DEF LeaveLoop
  <2>3. CASE BeginRender(w)
    BY <2>3, ClaimTaken
  <2>4. CASE MarkFailed(w)
    BY <2>4, ClaimKept DEF MarkFailed
  <2>5. CASE Collect(w)
    BY <2>5, ClaimKept DEF Collect, Catch, Goto
  <2>6. CASE FillSecrets(w)
    BY <2>6, ClaimKept DEF FillSecrets, Catch, Goto
  <2>7. CASE StoreBytes(w)
    BY <2>7, ClaimKept DEF StoreBytes, Goto
  <2>8. CASE DeliverPassphrase(w)
    BY <2>8, ClaimKept DEF DeliverPassphrase, Catch, Goto
  <2>9. CASE FinishCompleted(w)
    <3>1. \A j \in Jobs : status'[j] \in {status[j], "completed"}
      BY <2>9 DEF FinishCompleted
    <3>2. \A v \in Workers : pc'[v] \in Claimed => pc[v] \in Claimed /\ cur'[v] = cur[v]
      BY <2>9 DEF FinishCompleted, Catch, Release, Goto
    <3>3. QED
      BY <3>1, <3>2, ClaimKept
  <2>10. CASE RemoveStored(w)
    BY <2>10, ClaimKept DEF RemoveStored, Goto
  <2>11. CASE FinishFailed(w)
    <3>1. \A j \in Jobs : status'[j] \in {status[j], "failed"}
      BY <2>11 DEF FinishFailed
    <3>2. \A v \in Workers : pc'[v] \in Claimed => pc[v] \in Claimed /\ cur'[v] = cur[v]
      BY <2>11 DEF FinishFailed, Release, Goto
    <3>3. QED
      BY <3>1, <3>2, ClaimKept
  <2>12. QED
    BY <1>2, <2>1, <2>2, <2>3, <2>4, <2>5, <2>6, <2>7, <2>8, <2>9, <2>10, <2>11
    DEF RenderStep
<1>3. ASSUME NEW w \in Workers, ExpiryStep(w) PROVE ClaimInv'
  <2>1. \A j \in Jobs : status[j] \notin {"none", "queued"} =>
                          status'[j] \notin {"none", "queued"}
    BY <1>3 DEF ExpiryStep, ExpireRows, ForgetPassphrase, RemoveExpired
  <2>2. pc' = pc /\ cur' = cur
    BY <1>3 DEF ExpiryStep, ExpireRows, ForgetPassphrase, RemoveExpired
  <2>3. QED
    BY <2>1, <2>2, ClaimKept
<1>4. ASSUME NEW w \in Workers, Crash(w) PROVE ClaimInv'
  BY <1>4, ClaimKept DEF Crash, Release
<1>5. CASE UNCHANGED vars
  BY <1>5, ClaimKept DEF vars
<1>6. QED
  BY <1>1, <1>2, <1>3, <1>4, <1>5 DEF Next

(* begin_export_render is the claim: however many runtimes poll one backlog, *)
(* and whatever crashes, one of them renders an export (OneRenderer).        *)
THEOREM OneRuntimeRenders == Spec => []OneRenderer
<1>1. Init => ClaimInv
  BY DEF Init, ClaimInv, RenderingIsClaimed, OneRenderer, Claimed, Phases
<1>2. ClaimInv => OneRenderer
  BY DEF ClaimInv
<1>3. QED
  BY <1>1, <1>2, TypeInvInit, TypeInvNext, ClaimInvNext, PTL DEF Spec

-----------------------------------------------------------------------------
(* What can be downloaded can be opened.  The passphrase is written before   *)
(* the row is completed, and only a sweep takes it away, of a row that is    *)
(* past its TTL.                                                             *)

Delivered(j) == j \in passphrases \/ due[j]

SweptIsDue == \A w \in Workers, j \in Jobs : <<j, "forget">> \in sweep[w] => due[j]
FinishingIsDelivered ==
    \A w \in Workers : pc[w] = "finish" /\ cur[w] \in Secretful => Delivered(cur[w])
CompletedIsDelivered == \A j \in Secretful : status[j] = "completed" => Delivered(j)

DeliveredInv == SweptIsDue /\ FinishingIsDelivered /\ CompletedIsDelivered

(* Nothing delivered is taken back before the TTL. *)
LEMMA DeliveredStays ==
    ASSUME TypeInv, SweptIsDue, [Next]_vars, NEW j \in Jobs, Delivered(j)
    PROVE  Delivered(j)'
<1> USE DEF TypeInv, TypeOK, Delivered
<1>1. CASE UserStep
  BY <1>1 DEF UserStep, Request, Revoke, PassTTL, FetchBytes, ClaimDownload
<1>2. ASSUME NEW w \in Workers, RenderStep(w) PROVE Delivered(j)'
  BY <1>2 DEF RenderStep, PollBacklog, LeaveLoop, BeginRender, MarkFailed, Collect,
     FillSecrets, StoreBytes, DeliverPassphrase, FinishCompleted, RemoveStored,
     FinishFailed
<1>3. ASSUME NEW w \in Workers, ExpiryStep(w) PROVE Delivered(j)'
  BY <1>3 DEF ExpiryStep, ExpireRows, ForgetPassphrase, RemoveExpired, SweptIsDue
<1>4. ASSUME NEW w \in Workers, Crash(w) PROVE Delivered(j)'
  BY <1>4 DEF Crash
<1>5. CASE UNCHANGED vars
  BY <1>5 DEF vars
<1>6. QED
  BY <1>1, <1>2, <1>3, <1>4, <1>5 DEF Next

(* What a step owes: it completes no other row, and it comes to "finish" or   *)
(* completes a row only with the passphrase delivered.                        *)
LEMMA DeliveredInvStep ==
    ASSUME TypeInv, DeliveredInv, [Next]_vars,
           \A w \in Workers, j \in Jobs :
              <<j, "forget">> \in sweep'[w] => <<j, "forget">> \in sweep[w] \/ due'[j],
           \A w \in Workers :
              pc'[w] = "finish" /\ cur'[w] \in Secretful =>
                 (pc[w] = "finish" /\ cur'[w] = cur[w]) \/ cur'[w] \in passphrases',
           \A j \in Secretful :
              status'[j] = "completed" =>
                 status[j] = "completed" \/ \E w \in Workers : pc[w] = "finish" /\ cur[w] = j,
           \A j \in Jobs : due[j] => due'[j]
    PROVE  DeliveredInv'
<1> USE DEF TypeInv, TypeOK, DeliveredInv
<1>1. SweptIsDue'
  BY DEF SweptIsDue
<1>2. \A j \in Jobs : Delivered(j) => Delivered(j)'
  BY DeliveredStays
<1>3. FinishingIsDelivered'
  BY <1>2, SecretfulAssumption DEF FinishingIsDelivered, Delivered
<1>4. CompletedIsDelivered'
  BY <1>2, SecretfulAssumption DEF CompletedIsDelivered, FinishingIsDelivered
<1>5. QED
  BY <1>1, <1>3, <1>4

(* Every step pays what DeliveredInvStep asks of it. *)
LEMMA DeliveredInvNext == TypeInv /\ DeliveredInv /\ [Next]_vars => DeliveredInv'
<1> SUFFICES ASSUME TypeInv, DeliveredInv, [Next]_vars PROVE DeliveredInv'
  OBVIOUS
<1> USE DEF TypeInv, TypeOK
<1>1. CASE UserStep
  <2>1. pc' = pc /\ cur' = cur /\ sweep' = sweep
    BY <1>1 DEF UserStep, Request, Revoke, PassTTL, FetchBytes, ClaimDownload
  <2>2. \A j \in Jobs : due[j] => due'[j]
    BY <1>1 DEF UserStep, Request, Revoke, PassTTL, FetchBytes, ClaimDownload
  <2>3. \A j \in Secretful : status'[j] = "completed" => status[j] = "completed"
    BY <1>1, SecretfulAssumption
    DEF UserStep, Request, Revoke, PassTTL, FetchBytes, ClaimDownload
  <2>4. QED
    BY <2>1, <2>2, <2>3, DeliveredInvStep
<1>2. ASSUME NEW w \in Workers, RenderStep(w) PROVE DeliveredInv'
  <2>1. sweep' = sweep /\ due' = due
    BY <1>2 DEF RenderStep, PollBacklog, LeaveLoop, BeginRender, MarkFailed, Collect,
       FillSecrets, StoreBytes, DeliverPassphrase, FinishCompleted, RemoveStored,
       FinishFailed
  <2>2. CASE PollBacklog(w)
    BY <2>1, <2>2, DeliveredInvStep DEF PollBacklog
  <2>3. CASE LeaveLoop(w)
    BY <2>1, <2>3, DeliveredInvStep DEF LeaveLoop
  <2>4. CASE BeginRender(w)
    <3>1. \A j \in Jobs : status'[j] \in {status[j], "running"}
      BY <2>4 DEF BeginRender
    <3>2. \A v \in Workers : pc'[v] = "finish" => pc[v] = "finish" /\ cur'[v] = cur[v]
      BY <2>4 DEF BeginRender
    <3>3. QED
      BY <2>1, <3>1, <3>2, SecretfulAssumption, DeliveredInvStep
  <2>5. CASE MarkFailed(w)
    BY <2>1, <2>5, SecretfulAssumption, DeliveredInvStep DEF MarkFailed
  <2>6. CASE Collect(w)
    BY <2>1, <2>6, DeliveredInvStep DEF Collect, Catch, Goto
  <2>7. CASE FillSecrets(w)
    BY <2>1, <2>7, DeliveredInvStep DEF FillSecrets, Catch, Goto
  <2>8. CASE StoreBytes(w)
    BY <2>1, <2>8, DeliveredInvStep DEF StoreBytes, Goto
  <2>9. CASE DeliverPassphrase(w)
    BY <2>1, <2>9, DeliveredInvStep DEF DeliverPassphrase, Catch, Goto
  <2>10. CASE FinishCompleted(w)
    <3>1. \A j \in Jobs : status'[j] = "completed" =>
             status[j] = "completed" \/ (pc[w] = "finish" /\ cur[w] = j)
      BY <2>10 DEF FinishCompleted
    <3>2. \A v \in Workers : pc'[v] = "finish" => pc[v] = "finish" /\ cur'[v] = cur[v]
      BY <2>10 DEF FinishCompleted, Catch, Release, Goto
    <3>3. QED
      BY <2>1, <3>1, <3>2, SecretfulAssumption, DeliveredInvStep
  <2>11. CASE RemoveStored(w)
    BY <2>1, <2>11, DeliveredInvStep DEF RemoveStored, Goto
  <2>12. CASE FinishFailed(w)
    <3>1. \A j \in Jobs : status'[j] \in {status[j], "failed"}
      BY <2>12 DEF FinishFailed
    <3>2. \A v \in Workers : pc'[v] = "finish" => pc[v] = "finish" /\ cur'[v] = cur[v]
      BY <2>12 DEF FinishFailed, Release, Goto
    <3>3. QED
      BY <2>1, <3>1, <3>2, SecretfulAssumption, DeliveredInvStep
  <2>13. QED
    BY <1>2, <2>2, <2>3, <2>4, <2>5, <2>6, <2>7, <2>8, <2>9, <2>10, <2>11, <2>12
    DEF RenderStep
<1>3. ASSUME NEW w \in Workers, ExpiryStep(w) PROVE DeliveredInv'
  <2>1. pc' = pc /\ cur' = cur /\ due' = due
    BY <1>3 DEF ExpiryStep, ExpireRows, ForgetPassphrase, RemoveExpired
  <2>2. \A j \in Jobs : status'[j] \in {status[j], "expired"}
    BY <1>3 DEF ExpiryStep, ExpireRows, ForgetPassphrase, RemoveExpired
  <2>3. \A v \in Workers, j \in Jobs :
           <<j, "forget">> \in sweep'[v] => <<j, "forget">> \in sweep[v] \/ due'[j]
    <3>1. CASE ExpireRows(w)
      BY <2>1, <3>1 DEF ExpireRows, Expirable
    <3>2. CASE ForgetPassphrase(w)
      BY <3>2 DEF ForgetPassphrase
    <3>3. CASE RemoveExpired(w)
      BY <3>3 DEF RemoveExpired
    <3>4. QED
      BY <1>3, <3>1, <3>2, <3>3 DEF ExpiryStep
  <2>4. \A j \in Secretful : status'[j] = "completed" => status[j] = "completed"
    BY <2>2, SecretfulAssumption
  <2>5. /\ \A j \in Jobs : due[j] => due'[j]
        /\ \A v \in Workers :
              pc'[v] = "finish" /\ cur'[v] \in Secretful =>
                 (pc[v] = "finish" /\ cur'[v] = cur[v]) \/ cur'[v] \in passphrases'
    BY <2>1
  <2>6. QED
    BY <2>3, <2>4, <2>5, DeliveredInvStep
<1>4. ASSUME NEW w \in Workers, Crash(w) PROVE DeliveredInv'
  BY <1>4, DeliveredInvStep DEF Crash, Release
<1>5. CASE UNCHANGED vars
  BY <1>5, DeliveredInvStep DEF vars
<1>6. QED
  BY <1>1, <1>2, <1>3, <1>4, <1>5 DEF Next

(* An offered credential bundle always has its passphrase, whatever fails,   *)
(* crashes or is revoked on the way (DownloadableIsOpenable).                *)
THEOREM OfferedBundlesOpen == Spec => []DownloadableIsOpenable
<1>1. Init => DeliveredInv
  BY SecretfulAssumption
  DEF Init, DeliveredInv, SweptIsDue, FinishingIsDelivered, CompletedIsDelivered
<1>2. DeliveredInv => DownloadableIsOpenable
  BY DEF DeliveredInv, CompletedIsDelivered, Delivered, DownloadableIsOpenable, Downloadable
<1>3. QED
  BY <1>1, <1>2, TypeInvInit, TypeInvNext, DeliveredInvNext, PTL DEF Spec

-----------------------------------------------------------------------------
(* Revocation is final.  Every statement that changes a row asks whether it  *)
(* is revoked in the transaction that changes it.                            *)

RevokedExists == \A j \in Jobs : revoked[j] => status[j] # "none"

RowKept(j) == /\ revoked'[j]
              /\ status'[j] = status[j]
              /\ key'[j] = key[j]
              /\ downloads'[j] = downloads[j]

(* No step changes the row of a revoked export: each of them asks for        *)
(* revoked_at IS NULL.                                                       *)
LEMMA RevokedKept ==
    ASSUME TypeInv, RevokedExists, [Next]_vars, NEW j \in Jobs, revoked[j]
    PROVE  RowKept(j)
<1> USE DEF TypeInv, TypeOK, RevokedExists, RowKept
<1>1. CASE UserStep
  BY <1>1 DEF UserStep, Request, Revoke, PassTTL, FetchBytes, ClaimDownload, Downloadable
<1>2. ASSUME NEW w \in Workers, RenderStep(w) PROVE RowKept(j)
  <2>1. CASE PollBacklog(w) \/ LeaveLoop(w) \/ Collect(w) \/ FillSecrets(w)
             \/ StoreBytes(w) \/ DeliverPassphrase(w) \/ RemoveStored(w)
    BY <2>1 DEF PollBacklog, LeaveLoop, Collect, FillSecrets, StoreBytes,
       DeliverPassphrase, RemoveStored
  <2>2. CASE BeginRender(w)
    BY <2>2 DEF BeginRender, Claimable
  <2>3. CASE MarkFailed(w)
    BY <2>3 DEF MarkFailed, Claimable, Finishable
  <2>4. CASE FinishCompleted(w)
    BY <2>4 DEF FinishCompleted, Finishable
  <2>5. CASE FinishFailed(w)
    BY <2>5 DEF FinishFailed, Finishable
  <2>6. QED
    BY <1>2, <2>1, <2>2, <2>3, <2>4, <2>5 DEF RenderStep
<1>3. ASSUME NEW w \in Workers, ExpiryStep(w) PROVE RowKept(j)
  BY <1>3 DEF ExpiryStep, ExpireRows, ForgetPassphrase, RemoveExpired, Expirable
<1>4. ASSUME NEW w \in Workers, Crash(w) PROVE RowKept(j)
  BY <1>4 DEF Crash
<1>5. CASE UNCHANGED vars
  BY <1>5 DEF vars
<1>6. QED
  BY <1>1, <1>2, <1>3, <1>4, <1>5 DEF Next

(* A row is revoked only once it exists, and no row is ever unmade. *)
LEMMA RevokedExistsNext == TypeInv /\ RevokedExists /\ [Next]_vars => RevokedExists'
<1> SUFFICES ASSUME TypeInv, RevokedExists, [Next]_vars, NEW j \in Jobs, revoked'[j]
             PROVE  status'[j] # "none"
  BY DEF RevokedExists
<1>1. CASE revoked[j]
  BY <1>1, RevokedKept DEF RevokedExists, RowKept
<1>2. CASE ~revoked[j]
  <2> USE DEF TypeInv, TypeOK
  <2>1. CASE UserStep
    BY <1>2, <2>1 DEF UserStep, Request, Revoke, PassTTL, FetchBytes, ClaimDownload
  <2>2. ASSUME NEW w \in Workers, RenderStep(w) PROVE FALSE
    BY <1>2, <2>2 DEF RenderStep, PollBacklog, LeaveLoop, BeginRender, MarkFailed,
       Collect, FillSecrets, StoreBytes, DeliverPassphrase, FinishCompleted,
       RemoveStored, FinishFailed
  <2>3. ASSUME NEW w \in Workers, ExpiryStep(w) \/ Crash(w) PROVE FALSE
    BY <1>2, <2>3 DEF ExpiryStep, ExpireRows, ForgetPassphrase, RemoveExpired, Crash
  <2>4. CASE UNCHANGED vars
    BY <1>2, <2>4 DEF vars
  <2>5. QED
    BY <2>1, <2>2, <2>3, <2>4 DEF Next
<1>3. QED
  BY <1>1, <1>2

(* No render, sweep or download under way changes a revoked row              *)
(* (RevocationIsFinal).                                                      *)
THEOREM RevokedStaysRevoked == Spec => RevocationIsFinal
<1>1. Init => RevokedExists
  BY DEF Init, RevokedExists
<1>2. TypeInv /\ RevokedExists /\ [Next]_vars =>
        [\A j \in Jobs : revoked[j] =>
           /\ revoked'[j]
           /\ status'[j] = status[j]
           /\ key'[j] = key[j]
           /\ downloads'[j] = downloads[j]]_vars
  BY RevokedKept DEF RowKept
<1>3. QED
  BY <1>1, <1>2, TypeInvInit, TypeInvNext, RevokedExistsNext, PTL DEF Spec, RevocationIsFinal

-----------------------------------------------------------------------------
(* What is offered keeps its bytes.  A bundle is stored before its row is      *)
(* completed, and no sweep has a completed row's key.  A render's catch may     *)
(* have it, if its commit went unheard: only the phases before it are open.    *)

Catching == {"remove", "fail"}

KeysAreOwn == \A j \in Jobs : key[j] \in ({j} \X Workers) \cup {NoKey}
RenderingIsOpen ==
    \A w \in Workers : pc[w] \in Claimed \ Catching =>
                          status[cur[w]] \notin {"completed", "expired"}
StoredIsThere ==
    \A w \in Workers : pc[w] \in {"deliver", "finish"} => ThisKey(w) \in bundles
CompletedHasKey == \A j \in Jobs : status[j] = "completed" => key[j] # NoKey
SweptIsExpired ==
    \A w \in Workers, j \in Jobs, s \in {"forget", "remove"} :
        <<j, s>> \in sweep[w] => status[j] = "expired"

BytesInv == /\ KeysAreOwn /\ RenderingIsOpen /\ StoredIsThere
            /\ CompletedHasKey /\ SweptIsExpired

(* The step of an action that leaves rows, files and sweeps alone, and begins  *)
(* no render, stores nothing and retires nothing.                             *)
LEMMA BytesKept ==
    ASSUME TypeInv, BytesInv,
           \A w \in Workers : pc'[w] \in Claimed \ Catching =>
                                pc[w] \in Claimed \ Catching /\ cur'[w] = cur[w],
           \A w \in Workers :
              pc'[w] \in {"deliver", "finish"} =>
                 pc[w] \in {"deliver", "finish"} /\ cur'[w] = cur[w],
           status' = status, key' = key, bundles' = bundles,
           \A w \in Workers : sweep'[w] \subseteq sweep[w]
    PROVE  BytesInv'
<1> USE DEF BytesInv
<1>1. (KeysAreOwn /\ CompletedHasKey)'
  BY DEF KeysAreOwn, CompletedHasKey
<1>2. RenderingIsOpen'
  BY DEF RenderingIsOpen
<1>3. StoredIsThere'
  BY DEF StoredIsThere, ThisKey
<1>4. SweptIsExpired'
  BY DEF SweptIsExpired
<1>5. QED
  BY <1>1, <1>2, <1>3, <1>4

(* So does a step that moves rows, without files, and completes none: it      *)
(* leaves expired rows expired and the keys of completed rows alone.          *)
LEMMA BytesKeptByRows ==
    ASSUME TypeInv, BytesInv,
           \A w \in Workers : pc'[w] \in Claimed \ Catching =>
                                pc[w] \in Claimed \ Catching /\ cur'[w] = cur[w],
           \A w \in Workers :
              pc'[w] \in {"deliver", "finish"} =>
                 pc[w] \in {"deliver", "finish"} /\ cur'[w] = cur[w],
           \A j \in Jobs :
              \/ status'[j] = status[j] /\ key'[j] = key[j]
              \/ /\ status[j] \notin {"completed", "expired"}
                 /\ status'[j] \notin {"completed", "expired"}
                 /\ key'[j] \in {key[j], NoKey},
           bundles' = bundles, sweep' = sweep
    PROVE  BytesInv'
<1> USE DEF BytesInv, TypeInv, TypeOK
<1>1. (KeysAreOwn /\ CompletedHasKey)'
  BY DEF KeysAreOwn, CompletedHasKey
<1>2. RenderingIsOpen'
  BY DEF RenderingIsOpen, HasRow
<1>3. StoredIsThere'
  BY DEF StoredIsThere, ThisKey
<1>4. SweptIsExpired'
  BY DEF SweptIsExpired
<1>5. QED
  BY <1>1, <1>2, <1>3, <1>4

(* Begin: the row was queued, so neither a bundle nor a sweep depends on it.   *)
LEMMA BytesInvBegin ==
    ASSUME TypeInv, BytesInv, NEW w \in Workers, BeginRender(w)
    PROVE  BytesInv'
<1> USE DEF TypeInv, TypeOK, BytesInv
<1>1. PICK j \in todo[w], o \in TxOutcomes :
        /\ status' = IF Claimable(j) /\ Commits(o)
                     THEN [status EXCEPT ![j] = "running"] ELSE status
        /\ IF Claimable(j) /\ Returns(o)
           THEN /\ pc' = [pc EXCEPT ![w] = "collect"]
                /\ cur' = [cur EXCEPT ![w] = j]
           ELSE UNCHANGED <<pc, cur>>
  BY DEF BeginRender
<1>2. j \in Jobs /\ key' = key /\ bundles' = bundles /\ sweep' = sweep
  BY <1>1 DEF BeginRender
<1>3. \A i \in Jobs : status'[i] # status[i] => status[i] = "queued" /\ status'[i] = "running"
  BY <1>1, <1>2 DEF Claimable
<1>4. (KeysAreOwn /\ CompletedHasKey /\ SweptIsExpired)'
  BY <1>2, <1>3 DEF KeysAreOwn, CompletedHasKey, SweptIsExpired
<1>5. RenderingIsOpen'
  <2>1. CASE Claimable(j) /\ Returns(o)
    <3>1. status'[j] = "running"
      BY <1>1, <1>2, <2>1 DEF Returns, Commits
    <3>2. \A v \in Workers \ {w} : pc'[v] = pc[v] /\ cur'[v] = cur[v]
      BY <1>1, <2>1
    <3>3. cur'[w] = j
      BY <1>1, <2>1
    <3>4. QED
      BY <1>3, <3>1, <3>2, <3>3 DEF RenderingIsOpen, HasRow
  <2>2. CASE ~(Claimable(j) /\ Returns(o))
    BY <1>1, <1>3, <2>2 DEF RenderingIsOpen, HasRow
  <2>3. QED
    BY <2>1, <2>2
<1>6. StoredIsThere'
  <2>1. \A v \in Workers : pc'[v] \in {"deliver", "finish"} =>
                             pc[v] \in {"deliver", "finish"} /\ cur'[v] = cur[v]
    BY <1>1
  <2>2. QED
    BY <1>2, <2>1 DEF StoredIsThere, ThisKey
<1>7. QED
  BY <1>4, <1>5, <1>6

(* Store: the bundle is there before the loop goes on. *)
LEMMA BytesInvStore ==
    ASSUME TypeInv, BytesInv, NEW w \in Workers, StoreBytes(w)
    PROVE  BytesInv'
<1> USE DEF TypeInv, TypeOK, BytesInv
<1>1. bundles \subseteq bundles' /\ cur' = cur
  BY DEF StoreBytes
<1>2. /\ pc'[w] \in {"deliver", "finish"} => ThisKey(w) \in bundles'
      /\ \A v \in Workers \ {w} : pc'[v] = pc[v]
  BY DEF StoreBytes, Goto
<1>3. StoredIsThere'
  BY <1>1, <1>2 DEF StoredIsThere, ThisKey
<1>4. RenderingIsOpen'
  BY DEF StoreBytes, Goto, RenderingIsOpen, Claimed, Catching, Phases
<1>5. (KeysAreOwn /\ CompletedHasKey /\ SweptIsExpired)'
  BY <1>1 DEF StoreBytes, KeysAreOwn, CompletedHasKey, SweptIsExpired
<1>6. QED
  BY <1>3, <1>4, <1>5

(* Finish: the row is completed with the bundle just stored, and its renderer  *)
(* is done with it, or in its catch.                                          *)
LEMMA BytesInvFinish ==
    ASSUME TypeInv, ClaimInv, BytesInv,
           NEW w \in Workers, FinishCompleted(w)
    PROVE  BytesInv'
<1> USE DEF TypeInv, TypeOK, BytesInv
<1> DEFINE j == cur[w]
<1>1. /\ j \in Jobs /\ pc[w] = "finish" /\ pc[w] \in Claimed
      /\ bundles' = bundles /\ sweep' = sweep
  BY DEF FinishCompleted, HasRow, Claimed, Phases
<1>2. PICK o \in TxOutcomes :
        /\ IF Finishable(j) /\ Commits(o)
           THEN /\ status' = [status EXCEPT ![j] = "completed"]
                /\ key' = [key EXCEPT ![j] = ThisKey(w)]
           ELSE UNCHANGED <<status, key>>
        /\ IF Returns(o) THEN Goto(w, "loop") /\ Release(w)
                         ELSE Catch(w) /\ UNCHANGED <<cur, stored>>
  BY DEF FinishCompleted
<1>3. \A v \in Workers : pc'[v] \in {"deliver", "finish"} =>
                           pc[v] \in {"deliver", "finish"} /\ cur'[v] = cur[v]
  BY <1>2 DEF Goto, Release, Catch
<1>4. \A v \in Workers : pc'[v] \in Claimed \ Catching =>
                           v # w /\ pc[v] \in Claimed \ Catching /\ cur'[v] = cur[v]
  BY <1>1, <1>2 DEF Goto, Release, Catch, Claimed, Phases, Catching
<1>5. CASE Finishable(j) /\ Commits(o)
  <2>1. /\ status' = [status EXCEPT ![j] = "completed"]
        /\ key' = [key EXCEPT ![j] = ThisKey(w)]
        /\ status[j] = "running"
    BY <1>2, <1>5 DEF Finishable
  <2>2. ThisKey(w) \in bundles /\ ThisKey(w) \in {j} \X Workers
    BY <1>1 DEF StoredIsThere, ThisKey
  <2>3. (KeysAreOwn /\ CompletedHasKey)'
    BY <1>1, <2>1, <2>2, NullAssumption DEF KeysAreOwn, CompletedHasKey
  <2>4. SweptIsExpired'
    BY <1>1, <2>1 DEF SweptIsExpired
  <2>5. RenderingIsOpen'
    <3>1. SUFFICES ASSUME NEW v \in Workers, pc'[v] \in Claimed \ Catching
                   PROVE  status'[cur'[v]] \notin {"completed", "expired"}
      BY DEF RenderingIsOpen
    <3>2. pc[v] \in Claimed \ Catching /\ cur'[v] = cur[v] /\ v # w
      BY <1>4, <3>1
    <3>3. cur[v] # j
      BY <1>1, <3>2 DEF ClaimInv, OneRenderer
    <3>4. QED
      BY <2>1, <3>2, <3>3 DEF RenderingIsOpen, HasRow
  <2>6. StoredIsThere'
    BY <1>1, <1>3 DEF StoredIsThere, ThisKey
  <2>7. QED
    BY <2>3, <2>4, <2>5, <2>6
<1>6. CASE ~(Finishable(j) /\ Commits(o))
  <2>1. status' = status /\ key' = key
    BY <1>2, <1>6
  <2>2. QED
    BY <1>1, <1>3, <1>4, <2>1, BytesKept
<1>7. QED
  BY <1>5, <1>6

(* Remove: a render's own bundle goes, which no other render has stored.       *)
LEMMA BytesInvRemove ==
    ASSUME TypeInv, BytesInv, NEW w \in Workers, RemoveStored(w)
    PROVE  BytesInv'
<1> USE DEF TypeInv, TypeOK, BytesInv
<1>1. /\ pc' = [pc EXCEPT ![w] = "fail"] /\ pc[w] = "remove"
      /\ status' = status /\ key' = key /\ cur' = cur /\ sweep' = sweep
      /\ bundles' \in {bundles, bundles \ {ThisKey(w)}}
  BY DEF RemoveStored, Goto
<1>2. StoredIsThere'
  <2>1. \A v \in Workers : pc'[v] \in {"deliver", "finish"} =>
                             v # w /\ pc[v] \in {"deliver", "finish"}
    BY <1>1
  <2>2. \A v \in Workers \ {w} : ThisKey(v) # ThisKey(w)
    BY DEF ThisKey
  <2>3. QED
    BY <1>1, <2>1, <2>2 DEF StoredIsThere, ThisKey
<1>3. RenderingIsOpen'
  BY <1>1 DEF RenderingIsOpen, Catching
<1>4. (KeysAreOwn /\ CompletedHasKey /\ SweptIsExpired)'
  BY <1>1 DEF KeysAreOwn, CompletedHasKey, SweptIsExpired
<1>5. QED
  BY <1>2, <1>3, <1>4

(* Expire: only rows past their completion are swept, and a swept row's bundle *)
(* belongs to no render under way.                                            *)
LEMMA BytesInvExpiry ==
    ASSUME TypeInv, BytesInv, NEW w \in Workers, ExpiryStep(w)
    PROVE  BytesInv'
<1> USE DEF TypeInv, TypeOK, BytesInv
<1>1. pc' = pc /\ cur' = cur /\ key' = key
  BY DEF ExpiryStep, ExpireRows, ForgetPassphrase, RemoveExpired
<1>2. CASE ExpireRows(w)
  <2>1. /\ \A i \in Jobs : IF status[i] = "completed" /\ ~revoked[i] /\ due[i]
                           THEN status'[i] = "expired" ELSE status'[i] = status[i]
        /\ bundles' = bundles
    BY <1>2 DEF ExpireRows, Expirable
  <2>2. \A v \in Workers, i \in Jobs, s \in {"forget", "remove"} :
           <<i, s>> \in sweep'[v] =>
              <<i, s>> \in sweep[v] \/ (status[i] = "completed" /\ ~revoked[i] /\ due[i])
    BY <1>2 DEF ExpireRows, Expirable
  <2>3. SweptIsExpired'
    BY <2>1, <2>2 DEF SweptIsExpired
  <2>4. RenderingIsOpen'
    BY <1>1, <2>1 DEF RenderingIsOpen, HasRow
  <2>5. (KeysAreOwn /\ StoredIsThere /\ CompletedHasKey)'
    BY <1>1, <2>1 DEF KeysAreOwn, StoredIsThere, CompletedHasKey, ThisKey
  <2>6. QED
    BY <2>3, <2>4, <2>5
<1>3. CASE ForgetPassphrase(w)
  <2>1. status' = status /\ bundles' = bundles
    BY <1>3 DEF ForgetPassphrase
  <2>2. SweptIsExpired'
    <3>1. PICK j \in Jobs :
             /\ <<j, "forget">> \in sweep[w]
             /\ sweep' = [sweep EXCEPT ![w] = (@ \ {<<j, "forget">>})
                                               \cup {<<j, "remove">>}]
      BY <1>3 DEF ForgetPassphrase
    <3>2. status[j] = "expired"
      BY <3>1 DEF SweptIsExpired
    <3>3. \A v \in Workers, i \in Jobs, s \in {"forget", "remove"} :
             <<i, s>> \in sweep'[v] => <<i, s>> \in sweep[v] \/ i = j
      BY <3>1
    <3>4. QED
      BY <2>1, <3>2, <3>3 DEF SweptIsExpired
  <2>3. (KeysAreOwn /\ RenderingIsOpen /\ StoredIsThere /\ CompletedHasKey)'
    BY <1>1, <2>1
    DEF KeysAreOwn, RenderingIsOpen, StoredIsThere, CompletedHasKey, ThisKey
  <2>4. QED
    BY <2>2, <2>3
<1>4. CASE RemoveExpired(w)
  <2>1. PICK j \in Jobs : /\ <<j, "remove">> \in sweep[w]
                          /\ bundles' \in {bundles, bundles \ {key[j]}}
                          /\ sweep' = [sweep EXCEPT ![w] = @ \ {<<j, "remove">>}]
    BY <1>4 DEF RemoveExpired
  <2>2. status[j] = "expired" /\ status' = status
    BY <1>4, <2>1 DEF SweptIsExpired, RemoveExpired
  <2>3. StoredIsThere'
    <3>1. \A v \in Workers : pc[v] \in {"deliver", "finish"} => ThisKey(v) # key[j]
      <4>1. SUFFICES ASSUME NEW v \in Workers, pc[v] \in {"deliver", "finish"},
                            ThisKey(v) = key[j]
                     PROVE  FALSE
        OBVIOUS
      <4>2. pc[v] \in Claimed \ Catching /\ ThisKey(v) \in bundles
        BY <4>1 DEF Claimed, Catching, Phases, StoredIsThere
      <4>3. key[j] \in {j} \X Workers
        BY <4>1, <4>2, NullAssumption DEF KeysAreOwn, Keys
      <4>4. cur[v] = j
        BY <4>1, <4>3 DEF ThisKey
      <4>5. QED
        BY <2>2, <4>2, <4>4 DEF RenderingIsOpen
    <3>2. QED
      BY <1>1, <2>1, <3>1 DEF StoredIsThere, ThisKey
  <2>4. (KeysAreOwn /\ RenderingIsOpen /\ CompletedHasKey /\ SweptIsExpired)'
    BY <1>1, <2>1, <2>2 DEF KeysAreOwn, RenderingIsOpen, CompletedHasKey, SweptIsExpired
  <2>5. QED
    BY <2>3, <2>4
<1>5. QED
  BY <1>2, <1>3, <1>4 DEF ExpiryStep

(* Every step keeps it. *)
LEMMA BytesInvNext ==
    ASSUME TypeInv, ClaimInv, BytesInv, [Next]_vars
    PROVE  BytesInv'
<1> USE DEF TypeInv, TypeOK
<1>1. CASE UserStep
  <2>1. /\ pc' = pc /\ cur' = cur /\ key' = key /\ bundles' = bundles /\ sweep' = sweep
    BY <1>1 DEF UserStep, Request, Revoke, PassTTL, FetchBytes, ClaimDownload
  <2>2. \A j \in Jobs : \/ status'[j] = status[j]
                        \/ /\ status[j] \notin {"completed", "expired"}
                           /\ status'[j] \notin {"completed", "expired"}
    BY <1>1 DEF UserStep, Request, Revoke, PassTTL, FetchBytes, ClaimDownload
  <2>3. QED
    BY <2>1, <2>2, BytesKeptByRows
<1>2. ASSUME NEW w \in Workers, RenderStep(w) PROVE BytesInv'
  <2> USE DEF Claimed, Catching, Phases
  <2>1. CASE PollBacklog(w)
    BY <2>1, BytesKept DEF PollBacklog
  <2>2. CASE LeaveLoop(w)
    BY <2>2, BytesKept DEF LeaveLoop
  <2>3. CASE BeginRender(w)
    BY <2>3, BytesInvBegin
  <2>4. CASE MarkFailed(w)
    <3>1. PICK j \in Jobs, o \in TxOutcomes :
             /\ status' = IF (Claimable(j) \/ Finishable(j)) /\ Commits(o)
                          THEN [status EXCEPT ![j] = "failed"] ELSE status
             /\ key' = IF (Claimable(j) \/ Finishable(j)) /\ Commits(o)
                       THEN [key EXCEPT ![j] = NoKey] ELSE key
             /\ pc' = [pc EXCEPT ![w] = IF Returns(o) THEN "loop" ELSE "idle"]
      BY <2>4 DEF MarkFailed
    <3>2. \A i \in Jobs :
             \/ status'[i] = status[i] /\ key'[i] = key[i]
             \/ /\ status[i] \notin {"completed", "expired"}
                /\ status'[i] \notin {"completed", "expired"}
                /\ key'[i] \in {key[i], NoKey}
      BY <3>1 DEF Claimable, Finishable
    <3>3. cur' = cur /\ bundles' = bundles /\ sweep' = sweep
      BY <2>4 DEF MarkFailed
    <3>4. QED
      BY <3>1, <3>2, <3>3, BytesKeptByRows
  <2>5. CASE Collect(w)
    BY <2>5, BytesKept DEF Collect, Catch, Goto
  <2>6. CASE FillSecrets(w)
    BY <2>6, BytesKept DEF FillSecrets, Catch, Goto
  <2>7. CASE StoreBytes(w)
    BY <2>7, BytesInvStore
  <2>8. CASE DeliverPassphrase(w)
    BY <2>8, BytesKept DEF DeliverPassphrase, Catch, Goto
  <2>9. CASE FinishCompleted(w)
    BY <2>9, BytesInvFinish
  <2>10. CASE RemoveStored(w)
    BY <2>10, BytesInvRemove
  <2>11. CASE FinishFailed(w)
    <3>1. \A i \in Jobs :
             \/ status'[i] = status[i] /\ key'[i] = key[i]
             \/ /\ status[i] \notin {"completed", "expired"}
                /\ status'[i] \notin {"completed", "expired"}
                /\ key'[i] \in {key[i], NoKey}
      BY <2>11 DEF FinishFailed, Finishable
    <3>2. bundles' = bundles /\ sweep' = sweep
      BY <2>11 DEF FinishFailed
    <3>3. \A v \in Workers : pc'[v] \in Claimed => pc'[v] = pc[v] /\ cur'[v] = cur[v]
      BY <2>11 DEF FinishFailed, Release, Goto
    <3>4. QED
      BY <3>1, <3>2, <3>3, BytesKeptByRows
  <2>12. QED
    BY <1>2, <2>1, <2>2, <2>3, <2>4, <2>5, <2>6, <2>7, <2>8, <2>9, <2>10, <2>11
    DEF RenderStep
<1>3. ASSUME NEW w \in Workers, ExpiryStep(w) PROVE BytesInv'
  BY <1>3, BytesInvExpiry
<1>4. ASSUME NEW w \in Workers, Crash(w) PROVE BytesInv'
  BY <1>4, BytesKept DEF Crash, Release, Claimed, Catching, Phases
<1>5. CASE UNCHANGED vars
  BY <1>5, BytesKept DEF vars
<1>6. QED
  BY <1>1, <1>2, <1>3, <1>4, <1>5 DEF Next

(* A step that removes no bundle and makes no offer makes none hollow. *)
LEMMA HollowKept ==
    ASSUME bundles \subseteq bundles',
           \A j \in Jobs : Downloadable(j)' => Downloadable(j) /\ key'[j] = key[j]
    PROVE  Hollow' \subseteq Hollow
<1> DEFINE after(j) == Downloadable(j)'
<1>1. Hollow' = {j \in Jobs : after(j) /\ key'[j] \notin bundles'}
  BY DEF Hollow
<1>2. \A j \in Jobs : after(j) => Downloadable(j) /\ key'[j] = key[j]
  OBVIOUS
<1> HIDE DEF after
<1>3. QED
  BY <1>1, <1>2 DEF Hollow

(* A render's catch takes the bytes of one offer at most: its own row's. *)
LEMMA CatchHollowsOne ==
    ASSUME TypeInv, BytesInv, NEW w \in Workers, RemoveStored(w)
    PROVE  \/ Hollow' \subseteq Hollow
           \/ status[cur[w]] = "completed" /\ Hollow' = Hollow \cup {cur[w]}
<1> USE DEF TypeInv, TypeOK
<1>1. /\ UNCHANGED rowVars
      /\ bundles' \in {bundles, bundles \ {ThisKey(w)}}
  BY DEF RemoveStored
<1> DEFINE after == {j \in Jobs : Downloadable(j) /\ key[j] \notin bundles'}
<1>2. Hollow' = after
  BY <1>1 DEF Hollow, Downloadable
<1>3. ASSUME NEW j \in Jobs, Downloadable(j), key[j] = ThisKey(w) PROVE j = cur[w]
  <2>1. key[j] \in {j} \X Workers
    BY <1>3 DEF Downloadable, BytesInv, KeysAreOwn
  <2>2. QED
    BY <1>3, <2>1 DEF ThisKey
<1>4. CASE \E j \in Jobs : Downloadable(j) /\ key[j] \in bundles /\ key[j] \notin bundles'
  <2>1. PICK j \in Jobs : Downloadable(j) /\ key[j] \in bundles /\ key[j] \notin bundles'
    BY <1>4
  <2>2. j = cur[w] /\ bundles' = bundles \ {ThisKey(w)}
    BY <1>1, <1>3, <2>1
  <2>3. after = Hollow \cup {cur[w]}
    BY <1>3, <2>1, <2>2 DEF Hollow
  <2>4. QED
    BY <1>2, <2>1, <2>2, <2>3 DEF Downloadable
<1>5. CASE ~\E j \in Jobs : Downloadable(j) /\ key[j] \in bundles /\ key[j] \notin bundles'
  <2>1. after \subseteq Hollow
    BY <1>5 DEF Hollow
  <2>2. QED
    BY <1>2, <2>1
<1>6. QED
  BY <1>4, <1>5

(* The row that is completed points to the bundle that was stored for it. *)
LEMMA CompletedIsNotHollow ==
    ASSUME TypeInv, BytesInv, NEW w \in Workers, FinishCompleted(w)
    PROVE  Hollow' \subseteq Hollow
<1> USE DEF TypeInv, TypeOK
<1>1. /\ cur[w] \in Jobs /\ ThisKey(w) \in bundles
      /\ bundles' = bundles /\ revoked' = revoked /\ due' = due
  BY DEF FinishCompleted, HasRow, Claimed, Phases, BytesInv, StoredIsThere
<1>2. \/ status' = status /\ key' = key
      \/ /\ status' = [status EXCEPT ![cur[w]] = "completed"]
         /\ key' = [key EXCEPT ![cur[w]] = ThisKey(w)]
  BY DEF FinishCompleted
<1>3. \A j \in Jobs : Downloadable(j)' /\ key'[j] \notin bundles'
                        => Downloadable(j) /\ key[j] \notin bundles
  BY <1>1, <1>2 DEF Downloadable
<1> DEFINE after(j) == Downloadable(j)'
<1>4. Hollow' = {j \in Jobs : after(j) /\ key'[j] \notin bundles'}
  BY DEF Hollow
<1>5. \A j \in Jobs : after(j) /\ key'[j] \notin bundles'
                        => Downloadable(j) /\ key[j] \notin bundles
  BY <1>3
<1> HIDE DEF after
<1>6. QED
  BY <1>4, <1>5 DEF Hollow

(* A sweep removes what expired rows point to, and those are not offered. *)
LEMMA SweepHollowsNone ==
    ASSUME TypeInv, BytesInv, NEW w \in Workers, RemoveExpired(w)
    PROVE  Hollow' \subseteq Hollow
<1> USE DEF TypeInv, TypeOK
<1>1. PICK j \in Jobs : /\ <<j, "remove">> \in sweep[w]
                        /\ bundles' \in {bundles, bundles \ {key[j]}}
  BY DEF RemoveExpired
<1>2. status[j] = "expired" /\ UNCHANGED rowVars
  BY <1>1 DEF RemoveExpired, BytesInv, SweptIsExpired
<1>3. \A i \in Jobs : Downloadable(i) => key[i] # key[j]
  BY <1>2, NullAssumption DEF Downloadable, BytesInv, KeysAreOwn
<1>4. Hollow' = {i \in Jobs : Downloadable(i) /\ key[i] \notin bundles'}
  BY <1>2 DEF Hollow, Downloadable
<1>5. QED
  BY <1>1, <1>3, <1>4 DEF Hollow

(* Every step: an offer loses its bytes to the catch of its own render, if at  *)
(* all.                                                                        *)
LEMMA HollowStep ==
    ASSUME TypeInv, BytesInv, [Next]_vars
    PROVE  Hollow' \subseteq Hollow \/ \E w \in Workers :
              /\ RemoveStored(w)
              /\ status[cur[w]] = "completed"
              /\ Hollow' = Hollow \cup {cur[w]}
<1> USE DEF TypeInv, TypeOK
<1>1. CASE UserStep
  <2>1. bundles' = bundles
    BY <1>1 DEF UserStep, Request, Revoke, PassTTL, FetchBytes, ClaimDownload
  <2>2. \A j \in Jobs : Downloadable(j)' => Downloadable(j) /\ key'[j] = key[j]
    BY <1>1 DEF UserStep, Request, Revoke, PassTTL, FetchBytes, ClaimDownload, Downloadable
  <2>3. QED
    BY <2>1, <2>2, HollowKept
<1>2. ASSUME NEW w \in Workers,
             PollBacklog(w) \/ LeaveLoop(w) \/ BeginRender(w) \/ MarkFailed(w)
             \/ Collect(w) \/ FillSecrets(w) \/ StoreBytes(w) \/ DeliverPassphrase(w)
             \/ FinishFailed(w)
      PROVE  Hollow' \subseteq Hollow
  <2>1. bundles \subseteq bundles' /\ revoked' = revoked /\ due' = due
    BY <1>2 DEF PollBacklog, LeaveLoop, BeginRender, MarkFailed, Collect, FillSecrets,
       StoreBytes, DeliverPassphrase, FinishFailed
  <2>2. \A j \in Jobs : \/ status'[j] = status[j] /\ key'[j] = key[j]
                        \/ status'[j] # "completed"
    BY <1>2 DEF PollBacklog, LeaveLoop, BeginRender, MarkFailed, Collect, FillSecrets,
       StoreBytes, DeliverPassphrase, FinishFailed
  <2>3. \A j \in Jobs : Downloadable(j)' => Downloadable(j) /\ key'[j] = key[j]
    BY <2>1, <2>2 DEF Downloadable
  <2>4. QED
    BY <2>1, <2>3, HollowKept
<1>3. ASSUME NEW w \in Workers, ExpireRows(w) \/ ForgetPassphrase(w) \/ Crash(w)
      PROVE  Hollow' \subseteq Hollow
  <2>1. /\ bundles' = bundles /\ revoked' = revoked /\ due' = due /\ key' = key
        /\ \A j \in Jobs : status'[j] \in {status[j], "expired"}
    BY <1>3 DEF ExpireRows, ForgetPassphrase, Crash
  <2>2. \A j \in Jobs : Downloadable(j)' => Downloadable(j) /\ key'[j] = key[j]
    BY <2>1 DEF Downloadable
  <2>3. QED
    BY <2>1, <2>2, HollowKept
<1>4. CASE UNCHANGED vars
  BY <1>4, HollowKept DEF vars, Downloadable
<1>5. QED
  BY <1>1, <1>2, <1>3, <1>4, CatchHollowsOne, CompletedIsNotHollow, SweepHollowsNone
  DEF Next, RenderStep, ExpiryStep

LEMMA BytesInvInit == Init => ClaimInv /\ BytesInv
BY DEF Init, ClaimInv, RenderingIsClaimed, OneRenderer, BytesInv, KeysAreOwn,
   RenderingIsOpen, StoredIsThere, CompletedHasKey, SweptIsExpired, Claimed, Phases

(* Under every fault, an offer has its bytes when it is made, and only its own *)
(* render, having missed that it was made, takes them away (OffersKeepBytes).  *)
THEOREM OffersKeepTheirBytes == Spec => OffersKeepBytes
<1>1. TypeInv /\ BytesInv /\ [Next]_vars =>
        [Hollow' \subseteq Hollow \/ \E w \in Workers :
           /\ RemoveStored(w)
           /\ status[cur[w]] = "completed"
           /\ Hollow' = Hollow \cup {cur[w]}]_vars
  BY HollowStep
<1>2. QED
  BY <1>1, BytesInvInit, TypeInvInit, TypeInvNext, ClaimInvNext, BytesInvNext, PTL
  DEF Spec, OffersKeepBytes

(* Where replies arrive, a render's catch never has a completed row, ... *)
CatchingIsOpen ==
    \A w \in Workers : pc[w] \in Catching => status[cur[w]] # "completed"

LEMMA CatchingIsOpenNext ==
    ASSUME "ack_lost" \notin Faults, TypeInv, ClaimInv, BytesInv, CatchingIsOpen,
           [Next]_vars
    PROVE  CatchingIsOpen'
<1> USE DEF TypeInv, TypeOK, Catching, Claimed, Phases
<1>1. CASE \E w \in Workers : FinishCompleted(w)
  <2>1. PICK w \in Workers : FinishCompleted(w)
    BY <1>1
  <2>2. PICK o \in TxOutcomes :
          /\ IF Finishable(cur[w]) /\ Commits(o)
             THEN /\ status' = [status EXCEPT ![cur[w]] = "completed"]
                  /\ key' = [key EXCEPT ![cur[w]] = ThisKey(w)]
             ELSE UNCHANGED <<status, key>>
          /\ IF Returns(o) THEN Goto(w, "loop") /\ Release(w)
                           ELSE Catch(w) /\ UNCHANGED <<cur, stored>>
    BY <2>1 DEF FinishCompleted
  <2>3. pc[w] = "finish" /\ cur[w] \in Jobs /\ status[cur[w]] # "completed"
    BY <2>1 DEF FinishCompleted, HasRow, BytesInv, RenderingIsOpen
  <2>4. \A v \in Workers \ {w} : pc'[v] = pc[v] /\ cur'[v] = cur[v]
    BY <2>2 DEF Goto, Release, Catch
  <2>5. \A v \in Workers \ {w} : pc'[v] \in Catching => status'[cur'[v]] # "completed"
    <3>1. SUFFICES ASSUME NEW v \in Workers \ {w}, pc[v] \in Catching
                   PROVE  status'[cur[v]] # "completed"
      BY <2>4
    <3>2. cur[v] # cur[w] /\ cur[v] \in Jobs
      BY <2>3, <3>1 DEF ClaimInv, OneRenderer, HasRow
    <3>3. status'[cur[v]] = status[cur[v]]
      BY <2>2, <3>2
    <3>4. QED
      BY <3>1, <3>3 DEF CatchingIsOpen
  <2>6. CASE Returns(o)
    BY <2>2, <2>5, <2>6 DEF Goto, CatchingIsOpen
  <2>7. CASE ~Returns(o)
    <3>1. status' = status /\ cur' = cur
      BY <2>2, <2>7 DEF TxOutcomes, Commits, Returns
    <3>2. QED
      BY <2>3, <2>5, <3>1 DEF CatchingIsOpen
  <2>8. QED
    BY <2>6, <2>7
<1>2. CASE ~\E w \in Workers : FinishCompleted(w)
  <2>1. ASSUME NEW w \in Workers, RenderStep(w)
        PROVE  /\ \A j \in Jobs : status'[j] = "completed" => status[j] = "completed"
               /\ \A v \in Workers :
                     pc'[v] \in Catching => pc[v] \in Claimed /\ cur'[v] = cur[v]
    <3>1. \A j \in Jobs : status'[j] \in {status[j], "running", "failed"}
      BY <1>2, <2>1 DEF RenderStep, PollBacklog, LeaveLoop, BeginRender, MarkFailed,
         Collect, FillSecrets, StoreBytes, DeliverPassphrase, RemoveStored, FinishFailed
    <3>2. \A v \in Workers :
             pc'[v] \in Catching => pc[v] \in Claimed /\ cur'[v] = cur[v]
      <4>1. CASE PollBacklog(w) \/ LeaveLoop(w) \/ BeginRender(w) \/ MarkFailed(w)
        BY <4>1 DEF PollBacklog, LeaveLoop, BeginRender, MarkFailed
      <4>2. CASE Collect(w) \/ FillSecrets(w) \/ StoreBytes(w) \/ DeliverPassphrase(w)
                 \/ RemoveStored(w) \/ FinishFailed(w)
        BY <4>2 DEF Collect, FillSecrets, StoreBytes, DeliverPassphrase, RemoveStored,
           FinishFailed, Catch, Goto, Release
      <4>3. QED
        BY <1>2, <2>1, <4>1, <4>2 DEF RenderStep
    <3>3. QED
      BY <3>1, <3>2
  <2>2. ASSUME UserStep \/ (\E w \in Workers : ExpiryStep(w) \/ Crash(w)) \/ UNCHANGED vars
        PROVE  /\ \A j \in Jobs : status'[j] = "completed" => status[j] = "completed"
               /\ \A v \in Workers :
                     pc'[v] \in Catching => pc[v] \in Claimed /\ cur'[v] = cur[v]
    BY <2>2 DEF UserStep, Request, Revoke, PassTTL, FetchBytes, ClaimDownload,
       ExpiryStep, ExpireRows, ForgetPassphrase, RemoveExpired, Crash, Release, vars
  <2>3. \A w \in Workers : pc[w] \in Claimed => status[cur[w]] # "completed"
    BY DEF CatchingIsOpen, BytesInv, RenderingIsOpen
  <2>4. QED
    BY <2>1, <2>2, <2>3 DEF CatchingIsOpen, HasRow, Next
<1>3. QED
  BY <1>1, <1>2

(* ... so that every offer has its bytes (DownloadableHasBytes). *)
THEOREM OfferedBundlesHaveBytes ==
    ASSUME "ack_lost" \notin Faults
    PROVE  Spec => []DownloadableHasBytes
<1> DEFINE Inv == CatchingIsOpen /\ Hollow = {}
<1>1. Init => Inv
  BY DEF Init, CatchingIsOpen, Hollow, Downloadable, Catching
<1>2. TypeInv /\ ClaimInv /\ BytesInv /\ Inv /\ [Next]_vars => Inv'
  <2> SUFFICES ASSUME TypeInv, ClaimInv, BytesInv, Inv, [Next]_vars PROVE Inv'
    OBVIOUS
  <2>1. CatchingIsOpen'
    BY CatchingIsOpenNext
  <2>2. \A w \in Workers : RemoveStored(w) => status[cur[w]] # "completed"
    BY DEF RemoveStored, CatchingIsOpen, Catching
  <2>3. Hollow' = {}
    BY <2>2, HollowStep
  <2>4. QED
    BY <2>1, <2>3
<1>3. Inv => DownloadableHasBytes
  BY DEF Hollow, DownloadableHasBytes
<1>4. QED
  BY <1>1, <1>2, <1>3, BytesInvInit, TypeInvInit, TypeInvNext, ClaimInvNext, BytesInvNext,
     PTL DEF Spec

-----------------------------------------------------------------------------
(* The engine implements ExportLifecycle.  A row that does not exist is        *)
(* neither revoked nor past its TTL; for the rest, each step moves at most one *)
(* row's phase, since what the expiry job retires is closed already.           *)

UnmadeIsClean == \A j \in Jobs : status[j] = "none" => ~revoked[j] /\ ~due[j]

phases == [j \in Jobs |-> Phase(j)]

(* What Phase says, without its CASE. *)
LEMMA PhaseIs ==
    ASSUME TypeOK, UnmadeIsClean, NEW j \in Jobs
    PROVE  /\ status[j] = "none" => Phase(j) = "none"
           /\ status[j] # "none" /\ (revoked[j] \/ due[j]) => Phase(j) = "closed"
           /\ status[j] \in {"failed", "expired", "revoked"} => Phase(j) = "closed"
           /\ status[j] = "completed" /\ ~revoked[j] /\ ~due[j] => Phase(j) = "offered"
           /\ status[j] \in {"queued", "running"} /\ ~revoked[j] /\ ~due[j]
                => Phase(j) = "requested"
<1>1. CASE status[j] = "none"
  BY <1>1 DEF UnmadeIsClean, Phase
<1>2. CASE status[j] # "none" /\ (revoked[j] \/ due[j]
                                  \/ status[j] \in {"failed", "expired", "revoked"})
  <2>1. Phase(j) = "closed"
    BY <1>2 DEF Phase
  <2>2. QED
    BY <1>2, <2>1
<1>3. CASE status[j] = "completed" /\ ~revoked[j] /\ ~due[j]
  BY <1>3 DEF Phase
<1>4. CASE status[j] \in {"queued", "running"} /\ ~revoked[j] /\ ~due[j]
  BY <1>4 DEF Phase
<1>5. QED
  BY <1>1, <1>2, <1>3, <1>4

(* The same of the next state. *)
LEMMA PhaseIsNext ==
    ASSUME TypeOK', UnmadeIsClean', NEW j \in Jobs
    PROVE  (/\ status[j] = "none" => Phase(j) = "none"
            /\ status[j] # "none" /\ (revoked[j] \/ due[j]) => Phase(j) = "closed"
            /\ status[j] \in {"failed", "expired", "revoked"} => Phase(j) = "closed"
            /\ status[j] = "completed" /\ ~revoked[j] /\ ~due[j] => Phase(j) = "offered"
            /\ status[j] \in {"queued", "running"} /\ ~revoked[j] /\ ~due[j]
                 => Phase(j) = "requested")'
<1>1. CASE status'[j] = "none"
  BY <1>1 DEF UnmadeIsClean, Phase
<1>2. CASE status'[j] # "none" /\ (revoked'[j] \/ due'[j]
                                   \/ status'[j] \in {"failed", "expired", "revoked"})
  <2>1. Phase(j)' = "closed"
    BY <1>2 DEF Phase
  <2>2. QED
    BY <1>2, <2>1
<1>3. CASE status'[j] = "completed" /\ ~revoked'[j] /\ ~due'[j]
  BY <1>3 DEF Phase
<1>4. CASE status'[j] \in {"queued", "running"} /\ ~revoked'[j] /\ ~due'[j]
  BY <1>4 DEF Phase
<1>5. QED
  BY <1>1, <1>2, <1>3, <1>4

(* Rows that keep their phases keep the map of them. *)
LEMMA SamePhases ==
    ASSUME \A j \in Jobs : Phase(j)' = Phase(j)
    PROVE  phases' = phases
<1> DEFINE after(j) == Phase(j)'
<1>1. phases' = [j \in Jobs |-> after(j)]
  BY DEF phases
<1>2. QED
  <2> HIDE DEF after
  <2>1. \A j \in Jobs : after(j) = Phase(j)
    BY DEF after
  <2>2. QED
    BY <1>1, <2>1 DEF phases

(* What a step of a render does to the rows. *)
LEMMA RenderMoves ==
    ASSUME TypeInv, NEW w \in Workers, RenderStep(w), NEW j \in Jobs
    PROVE  \/ status'[j] = status[j]
           \/ status[j] \in {"queued", "running"}
              /\ status'[j] \in {"running", "completed", "failed"}
<1> USE DEF TypeInv, TypeOK
<1>1. CASE PollBacklog(w) \/ LeaveLoop(w) \/ Collect(w) \/ FillSecrets(w)
           \/ StoreBytes(w) \/ DeliverPassphrase(w) \/ RemoveStored(w)
  BY <1>1 DEF PollBacklog, LeaveLoop, Collect, FillSecrets, StoreBytes,
     DeliverPassphrase, RemoveStored
<1>2. CASE BeginRender(w)
  BY <1>2 DEF BeginRender, Claimable
<1>3. CASE MarkFailed(w)
  BY <1>3 DEF MarkFailed, Claimable, Finishable
<1>4. CASE FinishCompleted(w)
  BY <1>4 DEF FinishCompleted, Finishable
<1>5. CASE FinishFailed(w)
  BY <1>5 DEF FinishFailed, Finishable
<1>6. QED
  BY <1>1, <1>2, <1>3, <1>4, <1>5 DEF RenderStep

(* A render moves one row: the one it takes, gives up or is rendering. *)
LEMMA RenderMovesOne ==
    ASSUME TypeInv, NEW w \in Workers, RenderStep(w)
    PROVE  \/ status' = status
           \/ \E j \in Jobs : \A i \in Jobs \ {j} : status'[i] = status[i]
<1> USE DEF TypeInv, TypeOK
<1>1. CASE PollBacklog(w) \/ LeaveLoop(w) \/ Collect(w) \/ FillSecrets(w)
           \/ StoreBytes(w) \/ DeliverPassphrase(w) \/ RemoveStored(w)
  BY <1>1 DEF PollBacklog, LeaveLoop, Collect, FillSecrets, StoreBytes,
     DeliverPassphrase, RemoveStored
<1>2. CASE BeginRender(w) \/ MarkFailed(w)
  <2>1. PICK j \in Jobs : status' \in {status, [status EXCEPT ![j] = "running"],
                                       [status EXCEPT ![j] = "failed"]}
    BY <1>2 DEF BeginRender, MarkFailed
  <2>2. QED
    BY <2>1
<1>3. CASE FinishCompleted(w) \/ FinishFailed(w)
  <2>1. cur[w] \in Jobs
    BY <1>3 DEF FinishCompleted, FinishFailed, HasRow, Claimed, Phases
  <2>2. status' \in {status, [status EXCEPT ![cur[w]] = "completed"],
                     [status EXCEPT ![cur[w]] = "failed"]}
    BY <1>3 DEF FinishCompleted, FinishFailed
  <2>3. QED
    BY <2>1, <2>2
<1>4. QED
  BY <1>1, <1>2, <1>3 DEF RenderStep

(* Only a request makes a row. *)
LEMMA UnmadeIsCleanNext == TypeInv /\ UnmadeIsClean /\ [Next]_vars => UnmadeIsClean'
<1> SUFFICES ASSUME TypeInv, UnmadeIsClean, [Next]_vars PROVE UnmadeIsClean'
  OBVIOUS
<1> USE DEF TypeInv, TypeOK, UnmadeIsClean
<1>1. CASE UserStep
  BY <1>1 DEF UserStep, Request, Revoke, PassTTL, FetchBytes, ClaimDownload
<1>2. ASSUME NEW w \in Workers, RenderStep(w) PROVE UnmadeIsClean'
  <2>1. revoked' = revoked /\ due' = due
    BY <1>2 DEF RenderStep, PollBacklog, LeaveLoop, BeginRender, MarkFailed, Collect,
       FillSecrets, StoreBytes, DeliverPassphrase, FinishCompleted, RemoveStored,
       FinishFailed
  <2>2. \A j \in Jobs : status'[j] \in {status[j], "running", "completed", "failed"}
    BY <1>2, RenderMoves
  <2>3. QED
    BY <2>1, <2>2
<1>3. ASSUME NEW w \in Workers, ExpiryStep(w) \/ Crash(w) PROVE UnmadeIsClean'
  <2>1. revoked' = revoked /\ due' = due
    BY <1>3 DEF ExpiryStep, ExpireRows, ForgetPassphrase, RemoveExpired, Crash
  <2>2. \A j \in Jobs : status'[j] \in {status[j], "expired"}
    BY <1>3 DEF ExpiryStep, ExpireRows, ForgetPassphrase, RemoveExpired, Crash
  <2>3. QED
    BY <2>1, <2>2
<1>4. CASE UNCHANGED vars
  BY <1>4 DEF vars
<1>5. QED
  BY <1>1, <1>2, <1>3, <1>4 DEF Next

(* A step that moves one row's phase along the lifecycle is one of its steps.  *)
LEMMA OnePhaseMoves ==
    ASSUME NEW j \in Jobs, downloads' = downloads,
           \A i \in Jobs \ {j} : Phase(i)' = Phase(i),
           \/ Phase(j)' = Phase(j)
           \/ Phase(j) = "none" /\ Phase(j)' = "requested"
           \/ Phase(j) = "requested" /\ Phase(j)' = "offered"
           \/ Phase(j) \in {"requested", "offered"} /\ Phase(j)' = "closed"
    PROVE  [Lifecycle!Next]_(Lifecycle!lifecycleVars)
<1> DEFINE after(i) == Phase(i)'
<1>1. phases' = [i \in Jobs |-> after(i)]
  BY DEF phases
<1>2. phases' = [phases EXCEPT ![j] = after(j)]
  <2> HIDE DEF after
  <2>1. \A i \in Jobs \ {j} : after(i) = Phase(i)
    BY DEF after
  <2>2. QED
    BY <1>1, <2>1 DEF phases
<1>3. phases[j] = Phase(j)
  BY DEF phases
<1>4. CASE Phase(j)' = Phase(j)
  <2>1. phases' = phases
    BY <1>2, <1>3, <1>4 DEF phases
  <2>2. QED
    BY <2>1 DEF phases, Lifecycle!lifecycleVars
<1>5. CASE Phase(j) = "none" /\ Phase(j)' = "requested"
  <2>1. Lifecycle!Request(j)
    BY <1>2, <1>3, <1>5 DEF phases, Lifecycle!Request
  <2>2. QED
    BY <2>1 DEF Lifecycle!Next
<1>6. CASE Phase(j) = "requested" /\ Phase(j)' = "offered"
  <2>1. Lifecycle!Offer(j)
    BY <1>2, <1>3, <1>6 DEF phases, Lifecycle!Offer
  <2>2. QED
    BY <2>1 DEF Lifecycle!Next
<1>7. CASE Phase(j) \in {"requested", "offered"} /\ Phase(j)' = "closed"
  <2>1. Lifecycle!Close(j)
    BY <1>2, <1>3, <1>7 DEF phases, Lifecycle!Close
  <2>2. QED
    BY <2>1 DEF Lifecycle!Next
<1>8. QED
  BY <1>4, <1>5, <1>6, <1>7

(* Each step of the engine is a step of the lifecycle or none. *)
LEMMA LifecycleStep ==
    ASSUME TypeInv, TypeInv', UnmadeIsClean, UnmadeIsClean', [Next]_vars
    PROVE  [Lifecycle!Next]_(Lifecycle!lifecycleVars)
<1> DEFINE Goal == [Lifecycle!Next]_(Lifecycle!lifecycleVars)
           Say(j) == /\ status[j] = "none" => Phase(j) = "none"
                     /\ status[j] # "none" /\ (revoked[j] \/ due[j]) => Phase(j) = "closed"
                     /\ status[j] \in {"failed", "expired", "revoked"} => Phase(j) = "closed"
                     /\ status[j] = "completed" /\ ~revoked[j] /\ ~due[j]
                          => Phase(j) = "offered"
                     /\ status[j] \in {"queued", "running"} /\ ~revoked[j] /\ ~due[j]
                          => Phase(j) = "requested"
<1>1. \A j \in Jobs : Say(j) /\ Say(j)'
  BY PhaseIs, PhaseIsNext DEF TypeInv
<1>2. \A j \in Jobs : status[j] \in Statuses /\ status'[j] \in Statuses
  BY DEF TypeInv, TypeOK
<1>3. ASSUME NEW j \in Jobs, status'[j] = status[j], revoked'[j] = revoked[j],
             due'[j] = due[j]
      PROVE  Phase(j)' = Phase(j)
  BY <1>3 DEF Phase
<1>4. ASSUME \A j \in Jobs : Phase(j)' = Phase(j), downloads' = downloads PROVE Goal
  <2>1. phases' = phases
    BY <1>4, SamePhases
  <2>2. QED
    BY <1>4, <2>1 DEF phases, Lifecycle!lifecycleVars
<1> USE DEF Statuses
<1>5. CASE UserStep
  <2> USE DEF TypeInv, TypeOK
  <2>1. ASSUME NEW j \in Jobs, Request(j) PROVE Goal
    <3>1. /\ status' = [status EXCEPT ![j] = "queued"] /\ status[j] = "none"
          /\ UNCHANGED <<revoked, due, downloads>>
      BY <2>1 DEF Request
    <3>2. \A i \in Jobs \ {j} : Phase(i)' = Phase(i)
      BY <1>3, <3>1
    <3>3. Phase(j) = "none" /\ Phase(j)' = "requested"
      BY <1>1, <3>1 DEF UnmadeIsClean
    <3>4. QED
      BY <3>1, <3>2, <3>3, OnePhaseMoves
  <2>2. ASSUME NEW j \in Jobs, Revoke(j) PROVE Goal
    <3>1. /\ status[j] # "none" /\ revoked' = [revoked EXCEPT ![j] = TRUE]
          /\ \A i \in Jobs \ {j} : status'[i] = status[i]
          /\ status'[j] # "none" /\ UNCHANGED <<due, downloads>>
      BY <2>2 DEF Revoke
    <3>2. \A i \in Jobs \ {j} : Phase(i)' = Phase(i)
      BY <1>3, <3>1
    <3>3. Phase(j) \in {"requested", "offered", "closed"} /\ Phase(j)' = "closed"
      BY <1>1, <1>2, <3>1
    <3>4. QED
      BY <3>1, <3>2, <3>3, OnePhaseMoves
  <2>3. ASSUME NEW j \in Jobs, PassTTL(j) PROVE Goal
    <3>1. /\ status[j] # "none" /\ due' = [due EXCEPT ![j] = TRUE]
          /\ UNCHANGED <<status, revoked, downloads>>
      BY <2>3 DEF PassTTL
    <3>2. \A i \in Jobs \ {j} : Phase(i)' = Phase(i)
      BY <1>3, <3>1
    <3>3. Phase(j) \in {"requested", "offered", "closed"} /\ Phase(j)' = "closed"
      BY <1>1, <1>2, <3>1
    <3>4. QED
      BY <3>1, <3>2, <3>3, OnePhaseMoves
  <2>4. ASSUME NEW r \in Readers, FetchBytes(r) PROVE Goal
    BY <1>3, <1>4, <2>4 DEF FetchBytes
  <2>5. ASSUME NEW r \in Readers, NEW j \in Jobs, ClaimDownload(r, j) PROVE Goal
    <3>1. /\ downloads' = [downloads EXCEPT ![j] = @ + 1] /\ Downloadable(j)
          /\ UNCHANGED <<status, revoked, due>>
      BY <2>5 DEF ClaimDownload
    <3>2. phases' = phases
      BY <1>3, <3>1, SamePhases
    <3>3. phases[j] = "offered"
      BY <1>1, <3>1 DEF Downloadable, phases
    <3>4. Lifecycle!Grant(j)
      BY <3>1, <3>2, <3>3 DEF Lifecycle!Grant, phases
    <3>5. QED
      BY <3>4 DEF Lifecycle!Next
  <2>6. QED
    BY <1>5, <2>1, <2>2, <2>3, <2>4, <2>5 DEF UserStep
<1>6. ASSUME NEW w \in Workers, RenderStep(w) PROVE Goal
  <2>1. revoked' = revoked /\ due' = due /\ downloads' = downloads
    BY <1>6 DEF RenderStep, PollBacklog, LeaveLoop, BeginRender, MarkFailed, Collect,
       FillSecrets, StoreBytes, DeliverPassphrase, FinishCompleted, RemoveStored,
       FinishFailed
  <2>2. CASE status' = status
    BY <1>3, <1>4, <2>1, <2>2
  <2>3. CASE \E j \in Jobs : \A i \in Jobs \ {j} : status'[i] = status[i]
    <3>1. PICK j \in Jobs : \A i \in Jobs \ {j} : status'[i] = status[i]
      BY <2>3
    <3>2. \A i \in Jobs \ {j} : Phase(i)' = Phase(i)
      BY <1>3, <2>1, <3>1
    <3>3. CASE status'[j] = status[j]
      BY <1>3, <2>1, <3>2, <3>3, OnePhaseMoves
    <3>4. CASE status[j] \in {"queued", "running"}
               /\ status'[j] \in {"running", "completed", "failed"}
      <4>1. CASE revoked[j] \/ due[j]
        BY <1>1, <2>1, <3>2, <3>4, <4>1, OnePhaseMoves
      <4>2. CASE ~revoked[j] /\ ~due[j]
        <5>1. Phase(j) = "requested" /\ Phase(j)' \in {"requested", "offered", "closed"}
          BY <1>1, <2>1, <3>4, <4>2
        <5>2. QED
          BY <2>1, <3>2, <5>1, OnePhaseMoves
      <4>3. QED
        BY <4>1, <4>2
    <3>5. QED
      BY <1>6, <3>3, <3>4, RenderMoves
  <2>4. QED
    BY <1>6, <2>2, <2>3, RenderMovesOne
<1>7. ASSUME NEW w \in Workers, ExpiryStep(w) \/ Crash(w) PROVE Goal
  <2>1. revoked' = revoked /\ due' = due /\ downloads' = downloads
    BY <1>7 DEF ExpiryStep, ExpireRows, ForgetPassphrase, RemoveExpired, Crash
  <2>2. \A j \in Jobs : status'[j] = status[j] \/ (due[j] /\ status[j] = "completed"
                                                   /\ status'[j] = "expired")
    BY <1>7 DEF ExpiryStep, ExpireRows, ForgetPassphrase, RemoveExpired, Crash,
       Expirable, TypeInv, TypeOK
  <2>3. \A j \in Jobs : Phase(j)' = Phase(j)
    BY <1>1, <1>3, <2>1, <2>2
  <2>4. QED
    BY <1>4, <2>1, <2>3
<1>8. CASE UNCHANGED vars
  BY <1>3, <1>4, <1>8 DEF vars
<1>9. QED
  BY <1>5, <1>6, <1>7, <1>8 DEF Next

(* Under every fault an export goes the way a user is promised: requested,     *)
(* offered once, closed for good, and downloaded only while it is offered      *)
(* (KeepsLifecycle).                                                           *)
THEOREM EngineKeepsLifecycle == Spec => KeepsLifecycle
<1>1. Init => Lifecycle!Init
  BY DEF Init, Lifecycle!Init, Phase
<1>2. Init => UnmadeIsClean
  BY DEF Init, UnmadeIsClean
<1>3. TypeInv /\ TypeInv' /\ UnmadeIsClean /\ UnmadeIsClean' /\ [Next]_vars
        => [Lifecycle!Next]_(Lifecycle!lifecycleVars)
  BY LifecycleStep
<1>4. QED
  BY <1>1, <1>2, <1>3, TypeInvInit, TypeInvNext, UnmadeIsCleanNext, PTL
  DEF Spec, KeepsLifecycle, Lifecycle!Spec

-----------------------------------------------------------------------------
(* Bundles are not left to nobody.  Whoever answers for a bundle hands it on:  *)
(* the render to the row it completes, the row to the sweep that retires it.   *)

StoredLate == \A w \in Workers : pc[w] \in {"idle", "loop"} => ~stored[w]
RevokedIsMarked == \A j \in Jobs : status[j] = "revoked" => revoked[j]

HandOverInv == StoredLate /\ RevokedIsMarked

(* Every step keeps it. *)
LEMMA HandOverInvNext == TypeInv /\ HandOverInv /\ [Next]_vars => HandOverInv'
<1> SUFFICES ASSUME TypeInv, HandOverInv, [Next]_vars PROVE HandOverInv'
  OBVIOUS
<1> USE DEF TypeInv, TypeOK, HandOverInv
<1>1. CASE UserStep
  BY <1>1 DEF UserStep, Request, Revoke, PassTTL, FetchBytes, ClaimDownload, StoredLate,
     RevokedIsMarked
<1>2. ASSUME NEW w \in Workers, RenderStep(w) PROVE HandOverInv'
  <2>1. RevokedIsMarked'
    <3>1. revoked' = revoked
      BY <1>2 DEF RenderStep, PollBacklog, LeaveLoop, BeginRender, MarkFailed, Collect,
         FillSecrets, StoreBytes, DeliverPassphrase, FinishCompleted, RemoveStored,
         FinishFailed
    <3>2. QED
      BY <1>2, <3>1, RenderMoves DEF RevokedIsMarked
  <2>2. StoredLate'
    BY <1>2 DEF StoredLate, RenderStep, PollBacklog, LeaveLoop, BeginRender, MarkFailed,
       Collect, FillSecrets, StoreBytes, DeliverPassphrase, FinishCompleted,
       RemoveStored, FinishFailed, Catch, Goto, Release
  <2>3. QED
    BY <2>1, <2>2
<1>3. ASSUME NEW w \in Workers, ExpiryStep(w) PROVE HandOverInv'
  <2>1. pc' = pc /\ stored' = stored /\ revoked' = revoked
    BY <1>3 DEF ExpiryStep, ExpireRows, ForgetPassphrase, RemoveExpired
  <2>2. \A j \in Jobs : status'[j] \in {status[j], "expired"}
    BY <1>3 DEF ExpiryStep, ExpireRows, ForgetPassphrase, RemoveExpired
  <2>3. QED
    BY <2>1, <2>2 DEF StoredLate, RevokedIsMarked
<1>4. ASSUME NEW w \in Workers, Crash(w) PROVE HandOverInv'
  BY <1>4 DEF Crash, Release, StoredLate, RevokedIsMarked
<1>5. CASE UNCHANGED vars
  BY <1>5 DEF vars, StoredLate, RevokedIsMarked
<1>6. QED
  BY <1>1, <1>2, <1>3, <1>4, <1>5 DEF Next

(* The mishaps that may leave a bundle to nobody. *)
Mishap(w) == Crash(w) \/ (ExpireRows(w) /\ sweep'[w] = {})

(* It is enough that a step adds no bundle, forgives no revocation, and hands  *)
(* each bundle it concerns to somebody.                                        *)
LEMMA HandedOver ==
    ASSUME TypeInv, bundles' \subseteq bundles,
           \A j \in Jobs : revoked[j] => revoked'[j],
           \A k \in bundles : ~revoked'[k[1]] /\ Accounted(k) => Accounted(k)'
    PROVE  Orphans' \subseteq Orphans
<1> DEFINE after(k) == Accounted(k)'
<1>1. Orphans' = {k \in bundles' : ~revoked'[k[1]] /\ ~after(k)}
  BY DEF Orphans
<1>2. \A k \in bundles : k[1] \in Jobs
  BY DEF TypeInv, TypeOK, Keys
<1>3. \A k \in bundles : ~revoked'[k[1]] /\ Accounted(k) => after(k)
  OBVIOUS
<1> HIDE DEF after
<1>4. QED
  BY <1>1, <1>2, <1>3 DEF Orphans

(* A step that keeps the claims, completed rows and sweeps as they are hands   *)
(* nothing on and so loses nothing.                                            *)
LEMMA NothingHandedOn ==
    ASSUME TypeInv, BytesInv, bundles' = bundles,
           \A j \in Jobs : revoked[j] => revoked'[j],
           \A w \in Workers : stored[w] /\ pc[w] # "fail" =>
                                stored'[w] /\ pc'[w] # "fail" /\ cur'[w] = cur[w],
           \A j \in Jobs : status[j] = "completed" =>
                             status'[j] = "completed" /\ key'[j] = key[j],
           \A j \in Jobs : status[j] = "expired" => key'[j] = key[j],
           sweep' = sweep
    PROVE  Orphans' \subseteq Orphans
<1>1. SUFFICES ASSUME NEW k \in bundles, Accounted(k) PROVE Accounted(k)'
  BY HandedOver
<1>2. k[1] \in Jobs
  BY DEF TypeInv, TypeOK, Keys
<1>3. CASE \E w \in Workers : stored[w] /\ pc[w] # "fail" /\ ThisKey(w) = k
  BY <1>3 DEF Accounted, ThisKey
<1>4. CASE key[k[1]] = k /\ status[k[1]] = "completed"
  BY <1>2, <1>4 DEF Accounted
<1>5. CASE key[k[1]] = k /\ \E w \in Workers : \E s \in {"forget", "remove"} :
                                <<k[1], s>> \in sweep[w]
  <2>1. status[k[1]] = "expired"
    BY <1>2, <1>5 DEF BytesInv, SweptIsExpired
  <2>2. QED
    BY <1>2, <1>5, <2>1 DEF Accounted
<1>6. QED
  BY <1>1, <1>3, <1>4, <1>5 DEF Accounted

(* Completing a row hands its bundle from the render to the row.               *)
LEMMA FinishHandsOver ==
    ASSUME TypeInv, ClaimInv, BytesInv, HandOverInv,
           NEW w \in Workers, FinishCompleted(w), status[cur[w]] # "failed"
    PROVE  Orphans' \subseteq Orphans
<1> USE DEF TypeInv, TypeOK
<1> DEFINE j == cur[w]
<1>1. /\ j \in Jobs /\ pc[w] = "finish" /\ pc[w] \in Claimed
      /\ bundles' = bundles /\ sweep' = sweep /\ revoked' = revoked
  BY DEF FinishCompleted, HasRow, Claimed, Phases
<1>0. status[j] \notin {"completed", "expired"}
  BY <1>1 DEF BytesInv, RenderingIsOpen, Catching
<1>2. PICK o \in TxOutcomes :
        /\ IF Finishable(j) /\ Commits(o)
           THEN /\ status' = [status EXCEPT ![j] = "completed"]
                /\ key' = [key EXCEPT ![j] = ThisKey(w)]
           ELSE UNCHANGED <<status, key>>
        /\ IF Returns(o) THEN Goto(w, "loop") /\ Release(w)
                         ELSE Catch(w) /\ UNCHANGED <<cur, stored>>
  BY DEF FinishCompleted
<1>3. status[j] = "running" \/ revoked[j]
  <2>1. status[j] \in Statuses \ {"none", "queued", "completed", "expired", "failed"}
    BY <1>1, <1>0 DEF ClaimInv, RenderingIsClaimed, BytesInv, RenderingIsOpen
  <2>2. QED
    BY <1>1, <2>1 DEF Statuses, HandOverInv, RevokedIsMarked
<1>4. CASE ~Returns(o)
  <2>1. cur' = cur /\ stored' = stored
        /\ pc' = [pc EXCEPT ![w] = IF stored[w] THEN "remove" ELSE "fail"]
    BY <1>2, <1>4 DEF Catch, Goto
  <2>2. \A i \in Jobs : status[i] \in {"completed", "expired"} =>
                          status'[i] = status[i] /\ key'[i] = key[i]
    BY <1>1, <1>2 DEF Finishable
  <2>3. QED
    BY <1>1, <2>1, <2>2, NothingHandedOn
<1>5. CASE Returns(o)
  <2>1. Commits(o) /\ pc' = [pc EXCEPT ![w] = "loop"]
        /\ cur' = [cur EXCEPT ![w] = NoJob] /\ stored' = [stored EXCEPT ![w] = FALSE]
    BY <1>2, <1>5 DEF Commits, Returns, Goto, Release
  <2>2. SUFFICES ASSUME NEW k \in bundles, ~revoked'[k[1]], Accounted(k)
                 PROVE  Accounted(k)'
    BY <1>1, HandedOver
  <2>3. k[1] \in Jobs
    BY DEF Keys
  <2>4. CASE stored[w] /\ ThisKey(w) = k
    <3>1. k[1] = j
      BY <2>4 DEF ThisKey
    <3>2. status'[j] = "completed" /\ key'[j] = k
      BY <1>1, <1>2, <1>3, <2>1, <2>2, <2>4, <3>1 DEF Finishable
    <3>3. QED
      BY <3>1, <3>2 DEF Accounted
  <2>5. CASE \E v \in Workers \ {w} : stored[v] /\ pc[v] # "fail" /\ ThisKey(v) = k
    <3>1. PICK v \in Workers \ {w} : stored[v] /\ pc[v] # "fail" /\ ThisKey(v) = k
      BY <2>5
    <3>2. stored'[v] /\ pc'[v] # "fail" /\ cur'[v] = cur[v]
      BY <2>1, <3>1
    <3>3. QED
      BY <3>1, <3>2 DEF Accounted, ThisKey
  <2>6. CASE key[k[1]] = k /\ status[k[1]] = "completed"
    <3>1. k[1] # j
      BY <1>0, <2>6
    <3>2. key'[k[1]] = k /\ status'[k[1]] = "completed"
      BY <1>1, <1>2, <2>3, <2>6, <3>1
    <3>3. QED
      BY <3>2 DEF Accounted
  <2>7. CASE key[k[1]] = k /\ \E v \in Workers : \E s \in {"forget", "remove"} :
                                  <<k[1], s>> \in sweep[v]
    <3>1. k[1] # j
      BY <1>0, <2>3, <2>7 DEF BytesInv, SweptIsExpired
    <3>2. key'[k[1]] = k
      BY <1>1, <1>2, <2>3, <2>7, <3>1
    <3>3. QED
      BY <1>1, <2>7, <3>2 DEF Accounted
  <2>8. QED
    BY <2>2, <2>4, <2>5, <2>6, <2>7 DEF Accounted
<1>6. QED
  BY <1>4, <1>5

(* Retiring a row hands its bundle from the row to the sweep. *)
LEMMA ExpiryHandsOver ==
    ASSUME TypeInv, BytesInv,
           NEW w \in Workers,
           (ExpireRows(w) /\ sweep'[w] # {}) \/ ForgetPassphrase(w)
    PROVE  Orphans' \subseteq Orphans
<1> USE DEF TypeInv, TypeOK
<1>1. /\ pc' = pc /\ cur' = cur /\ stored' = stored /\ key' = key
      /\ bundles' = bundles /\ revoked' = revoked
  BY DEF ExpireRows, ForgetPassphrase
<1>2. SUFFICES ASSUME NEW k \in bundles, Accounted(k) PROVE Accounted(k)'
  BY <1>1, HandedOver
<1>3. k[1] \in Jobs
  BY DEF Keys
<1>4. CASE \E v \in Workers : stored[v] /\ pc[v] # "fail" /\ ThisKey(v) = k
  BY <1>1, <1>4 DEF Accounted, ThisKey
<1>5. CASE key[k[1]] = k /\ status[k[1]] = "completed"
  <2>1. CASE ExpireRows(w) /\ sweep'[w] # {}
    <3>1. status'[k[1]] = "completed" \/ <<k[1], "forget">> \in sweep'[w]
      <4>1. sweep'[w] = {j \in Jobs : Expirable(j)} \X {"forget"}
        BY <2>1 DEF ExpireRows
      <4>2. CASE Expirable(k[1])
        BY <1>3, <4>1, <4>2
      <4>3. CASE ~Expirable(k[1])
        BY <1>3, <1>5, <2>1, <4>3 DEF ExpireRows
      <4>4. QED
        BY <4>2, <4>3
    <3>2. QED
      BY <1>1, <1>5, <3>1 DEF Accounted
  <2>2. CASE ForgetPassphrase(w)
    BY <1>1, <1>5, <2>2 DEF ForgetPassphrase, Accounted
  <2>3. QED
    BY <2>1, <2>2
<1>6. CASE key[k[1]] = k /\ \E v \in Workers : \E s \in {"forget", "remove"} :
                                <<k[1], s>> \in sweep[v]
  <2>1. PICK v \in Workers, s \in {"forget", "remove"} : <<k[1], s>> \in sweep[v]
    BY <1>6
  <2>2. \E t \in {"forget", "remove"} : <<k[1], t>> \in sweep'[v]
    <3>1. CASE ExpireRows(w)
      <4>1. v # w
        BY <2>1, <3>1 DEF ExpireRows
      <4>2. sweep'[v] = sweep[v]
        BY <3>1, <4>1 DEF ExpireRows
      <4>3. QED
        BY <2>1, <4>2
    <3>2. CASE ForgetPassphrase(w)
      <4>1. PICK j \in Jobs : sweep' = [sweep EXCEPT ![w] = (@ \ {<<j, "forget">>})
                                                           \cup {<<j, "remove">>}]
        BY <3>2 DEF ForgetPassphrase
      <4>2. CASE v = w /\ k[1] = j
        BY <4>1, <4>2
      <4>3. CASE v # w \/ k[1] # j
        BY <2>1, <4>1, <4>3
      <4>4. QED
        BY <4>2, <4>3
    <3>3. QED
      BY <3>1, <3>2
  <2>3. QED
    BY <1>1, <1>6, <2>2 DEF Accounted
<1>7. QED
  BY <1>2, <1>4, <1>5, <1>6 DEF Accounted

(* The same where files may fail: what a step does not hand on, it has left.    *)
LEMMA HandedOverOrLeft ==
    ASSUME bundles' \subseteq Keys,
           \A j \in Jobs : revoked[j] => revoked'[j],
           \A k \in bundles' \ left' : Accounted(k) \/ k \notin bundles => Accounted(k)'
    PROVE  Orphans' \subseteq Orphans \cup left'
<1> DEFINE after(k) == Accounted(k)'
<1>1. Orphans' = {k \in bundles' : ~revoked'[k[1]] /\ ~after(k)}
  BY DEF Orphans
<1>2. \A k \in bundles' : k[1] \in Jobs
  BY DEF Keys
<1>3. \A k \in bundles' \ left' : Accounted(k) \/ k \notin bundles => after(k)
  OBVIOUS
<1> HIDE DEF after
<1>4. QED
  BY <1>1, <1>2, <1>3 DEF Orphans

(* A render answers for what it has stored in full. *)
LEMMA StoreTakesOver ==
    ASSUME TypeInv, NEW w \in Workers, StoreBytes(w)
    PROVE  Orphans' \subseteq Orphans \cup left'
<1> USE DEF TypeInv, TypeOK
<1>1. /\ cur' = cur /\ key' = key /\ status' = status /\ sweep' = sweep
      /\ revoked' = revoked
  BY DEF StoreBytes
<1>2. \A v \in Workers \ {w} : pc'[v] = pc[v] /\ stored'[v] = stored[v]
  BY DEF StoreBytes, Goto
<1>3. bundles' \subseteq bundles \cup {ThisKey(w)}
  BY DEF StoreBytes
<1>4. ThisKey(w) \in left' \/ ThisKey(w) \notin bundles' \/ (stored'[w] /\ pc'[w] # "fail")
  <2>1. PICK o \in FileOutcomes :
          IF o = "ok"
          THEN /\ stored' = [stored EXCEPT ![w] = TRUE]
               /\ Goto(w, IF cur[w] \in Secretful THEN "deliver" ELSE "finish")
          ELSE left' = left \cup ({ThisKey(w)} \cap bundles')
    BY DEF StoreBytes
  <2>2. QED
    BY <2>1 DEF Goto
<1>5. bundles' \subseteq Keys
  <2>1. ThisKey(w) \in Keys
    BY KeyIsKey DEF StoreBytes, HasRow, Claimed, Phases
  <2>2. QED
    BY <1>3, <2>1
<1>6. ASSUME NEW k \in bundles' \ left', Accounted(k) \/ k \notin bundles
      PROVE  Accounted(k)'
  <2>1. CASE k = ThisKey(w)
    BY <1>1, <1>4, <1>6, <2>1 DEF Accounted, ThisKey
  <2>2. CASE k # ThisKey(w)
    BY <1>1, <1>2, <1>3, <1>6, <2>2 DEF Accounted, ThisKey
  <2>3. QED
    BY <2>1, <2>2
<1>7. QED
  BY <1>1, <1>5, <1>6, HandedOverOrLeft

(* The catch removes what the render stored, or the file system keeps it.      *)
LEMMA RemovalIsLeft ==
    ASSUME TypeInv, NEW w \in Workers, RemoveStored(w)
    PROVE  Orphans' \subseteq Orphans \cup left'
<1> USE DEF TypeInv, TypeOK
<1>1. /\ cur' = cur /\ key' = key /\ status' = status /\ sweep' = sweep
      /\ revoked' = revoked /\ stored' = stored /\ bundles' \subseteq bundles
      /\ \A v \in Workers \ {w} : pc'[v] = pc[v]
  BY DEF RemoveStored, Goto
<1>2. ThisKey(w) \in left' \/ ThisKey(w) \notin bundles'
  BY DEF RemoveStored
<1>3. ASSUME NEW k \in bundles' \ left', Accounted(k) PROVE Accounted(k)'
  BY <1>1, <1>2, <1>3 DEF Accounted, ThisKey
<1>4. bundles' \subseteq Keys
  BY <1>1
<1>5. QED
  BY <1>1, <1>3, <1>4, HandedOverOrLeft

(* So does the sweep with what the row it retired had. *)
LEMMA SweepIsLeft ==
    ASSUME TypeInv, NEW w \in Workers, RemoveExpired(w)
    PROVE  Orphans' \subseteq Orphans \cup left'
<1> USE DEF TypeInv, TypeOK
<1>1. PICK j \in Jobs :
        /\ sweep' = [sweep EXCEPT ![w] = @ \ {<<j, "remove">>}]
        /\ key[j] \in left' \/ key[j] \notin bundles'
  BY DEF RemoveExpired
<1>2. /\ cur' = cur /\ key' = key /\ status' = status /\ pc' = pc
      /\ revoked' = revoked /\ stored' = stored /\ bundles' \subseteq bundles
  BY DEF RemoveExpired
<1>3. ASSUME NEW k \in bundles' \ left', Accounted(k) PROVE Accounted(k)'
  <2>1. CASE key[k[1]] = k /\ \E v \in Workers : \E s \in {"forget", "remove"} :
                                  <<k[1], s>> \in sweep[v]
    <3>1. k[1] # j
      BY <1>1, <1>3, <2>1
    <3>2. PICK v \in Workers, s \in {"forget", "remove"} : <<k[1], s>> \in sweep[v]
      BY <2>1
    <3>3. <<k[1], s>> \in sweep'[v]
      BY <1>1, <3>1, <3>2
    <3>4. QED
      BY <1>2, <2>1, <3>3 DEF Accounted
  <2>2. CASE \E v \in Workers : stored[v] /\ pc[v] # "fail" /\ ThisKey(v) = k
    BY <1>2, <2>2 DEF Accounted, ThisKey
  <2>3. CASE key[k[1]] = k /\ status[k[1]] = "completed"
    BY <1>2, <2>3 DEF Accounted
  <2>4. QED
    BY <1>3, <2>1, <2>2, <2>3 DEF Accounted
<1>4. bundles' \subseteq Keys
  BY <1>2
<1>5. QED
  BY <1>2, <1>3, <1>4, HandedOverOrLeft

(* A registration refused to a row that was failed meanwhile leaves its bundle. *)
LEMMA RefusedIsLeft ==
    ASSUME TypeInv, NEW w \in Workers, FinishCompleted(w), status[cur[w]] = "failed"
    PROVE  Orphans' \subseteq Orphans \cup left'
<1> USE DEF TypeInv, TypeOK
<1>1. /\ key' = key /\ status' = status /\ sweep' = sweep
      /\ revoked' = revoked /\ bundles' = bundles
      /\ \A v \in Workers \ {w} : pc'[v] = pc[v] /\ stored'[v] = stored[v]
                                  /\ cur'[v] = cur[v]
  BY DEF FinishCompleted, Finishable, Goto, Catch, Release
<1>2. ThisKey(w) \in left'
      \/ (cur'[w] = cur[w] /\ stored'[w] = stored[w] /\ (stored[w] => pc'[w] # "fail"))
  <2>1. PICK o \in TxOutcomes :
          /\ left' = IF Returns(o) THEN left \cup {ThisKey(w)} ELSE left
          /\ ~Returns(o) => Catch(w) /\ UNCHANGED <<cur, stored>>
    BY DEF FinishCompleted
  <2>2. QED
    BY <2>1 DEF Goto, Catch
<1>3. ASSUME NEW k \in bundles' \ left', Accounted(k) PROVE Accounted(k)'
  BY <1>1, <1>2, <1>3 DEF Accounted, ThisKey
<1>4. QED
  BY <1>1, <1>3, HandedOverOrLeft

(* No step but a mishap adds an orphan that the history does not name. *)
LEMMA OrphansStep ==
    ASSUME TypeInv, ClaimInv, BytesInv, HandOverInv, [Next]_vars
    PROVE  Orphans' \subseteq Orphans \cup left' \/ \E w \in Workers : Mishap(w)
<1> SUFFICES ASSUME \A w \in Workers : ~Mishap(w) PROVE Orphans' \subseteq Orphans \cup left'
  OBVIOUS
<1> USE DEF TypeInv, TypeOK
<1>1. CASE UserStep
  <2>1. /\ pc' = pc /\ cur' = cur /\ stored' = stored /\ key' = key
        /\ bundles' = bundles /\ sweep' = sweep
    BY <1>1 DEF UserStep, Request, Revoke, PassTTL, FetchBytes, ClaimDownload
  <2>2. \A j \in Jobs : (revoked[j] => revoked'[j])
                        /\ (status[j] = "completed" => status'[j] = "completed")
    BY <1>1 DEF UserStep, Request, Revoke, PassTTL, FetchBytes, ClaimDownload
  <2>3. QED
    BY <2>1, <2>2, NothingHandedOn
<1>2. ASSUME NEW w \in Workers, RenderStep(w) PROVE Orphans' \subseteq Orphans \cup left'
  <2> USE DEF Goto
  <2>1. CASE PollBacklog(w)
    BY <2>1, NothingHandedOn DEF PollBacklog
  <2>2. CASE LeaveLoop(w)
    BY <2>2, NothingHandedOn DEF LeaveLoop
  <2>3. CASE BeginRender(w) \/ MarkFailed(w)
    <3>1. /\ bundles' = bundles /\ sweep' = sweep /\ revoked' = revoked /\ stored' = stored
      BY <2>3 DEF BeginRender, MarkFailed
    <3>2. \A v \in Workers : stored[v] => pc'[v] = pc[v] /\ cur'[v] = cur[v]
      BY <2>3 DEF BeginRender, MarkFailed, HandOverInv, StoredLate
    <3>3. \A j \in Jobs : status[j] \in {"completed", "expired"} =>
                            status'[j] = status[j] /\ key'[j] = key[j]
      BY <2>3 DEF BeginRender, MarkFailed, Claimable, Finishable
    <3>4. QED
      BY <3>1, <3>2, <3>3, NothingHandedOn
  <2>4. CASE Collect(w)
    BY <2>4, NothingHandedOn DEF Collect, Catch
  <2>5. CASE FillSecrets(w)
    BY <2>5, NothingHandedOn DEF FillSecrets, Catch
  <2>6. CASE DeliverPassphrase(w)
    BY <2>6, NothingHandedOn DEF DeliverPassphrase, Catch
  <2>7. CASE FinishCompleted(w)
    BY <2>7, FinishHandsOver, RefusedIsLeft
  <2>8. CASE FinishFailed(w)
    <3>1. /\ bundles' = bundles /\ sweep' = sweep /\ revoked' = revoked /\ pc[w] = "fail"
          /\ \A v \in Workers \ {w} : pc'[v] = pc[v] /\ stored'[v] = stored[v]
                                      /\ cur'[v] = cur[v]
      BY <2>8 DEF FinishFailed, Release
    <3>2. \A j \in Jobs : status[j] \in {"completed", "expired"} =>
                            status'[j] = status[j] /\ key'[j] = key[j]
      BY <2>8 DEF FinishFailed, Finishable
    <3>3. QED
      BY <3>1, <3>2, NothingHandedOn
  <2>9. CASE StoreBytes(w) \/ RemoveStored(w)
    BY <2>9, StoreTakesOver, RemovalIsLeft
  <2>10. QED
    BY <1>2, <2>1, <2>2, <2>3, <2>4, <2>5, <2>6, <2>7, <2>8, <2>9 DEF RenderStep
<1>3. ASSUME NEW w \in Workers, ExpiryStep(w) PROVE Orphans' \subseteq Orphans \cup left'
  BY <1>3, ExpiryHandsOver, SweepIsLeft DEF ExpiryStep, Mishap
<1>4. CASE UNCHANGED vars
  BY <1>4, NothingHandedOn DEF vars
<1>5. \A w \in Workers : ~Crash(w)
  BY DEF Mishap
<1>6. QED
  BY <1>1, <1>2, <1>3, <1>4, <1>5 DEF Next

-----------------------------------------------------------------------------
(* Nor are rows.  A claim puts a row in somebody's hands, and whoever lets go   *)
(* of it has said what became of it.                                           *)

(* A revoked row waits for nobody. *)
RevokedIsOver == \A j \in Jobs : revoked[j] => status[j] \notin {"queued", "running"}

LEMMA RevokedIsOverNext ==
    ASSUME TypeInv, RevokedExists, RevokedIsOver, [Next]_vars
    PROVE  RevokedIsOver'
<1> USE DEF TypeInv, TypeOK, RevokedIsOver
<1>1. CASE UserStep
  BY <1>1 DEF UserStep, Request, Revoke, PassTTL, FetchBytes, ClaimDownload, RevokedExists
<1>2. ASSUME NEW w \in Workers, RenderStep(w) PROVE RevokedIsOver'
  <2>1. revoked' = revoked
    BY <1>2 DEF RenderStep, PollBacklog, LeaveLoop, BeginRender, MarkFailed, Collect,
       FillSecrets, StoreBytes, DeliverPassphrase, FinishCompleted, RemoveStored,
       FinishFailed
  <2>2. QED
    BY <1>2, <2>1, RenderMoves
<1>3. ASSUME NEW w \in Workers, ExpiryStep(w) \/ Crash(w) PROVE RevokedIsOver'
  <2>1. /\ revoked' = revoked
        /\ \A j \in Jobs : status'[j] \in {status[j], "expired"}
    BY <1>3 DEF ExpiryStep, ExpireRows, ForgetPassphrase, RemoveExpired, Crash
  <2>2. QED
    BY <2>1
<1>4. CASE UNCHANGED vars
  BY <1>4 DEF vars
<1>5. QED
  BY <1>1, <1>2, <1>3, <1>4 DEF Next

(* It is enough that whoever holds a row keeps it or says what became of it,   *)
(* and that a row that is started is held.                                     *)
LEMMA NothingStrands ==
    ASSUME TypeInv,
           \A w \in Workers : pc[w] \in Claimed =>
              \/ pc'[w] \in Claimed /\ cur'[w] = cur[w]
              \/ status'[cur[w]] # "running",
           \A j \in Jobs : status'[j] = "running" =>
              \/ status[j] = "running"
              \/ \E w \in Workers : pc'[w] \in Claimed /\ cur'[w] = j
    PROVE  Stranded' \subseteq Stranded
BY DEF Stranded

(* What may leave a row running with nobody on it. *)
Lapse(w) == \/ Crash(w)
            \/ BeginRender(w) /\ pc'[w] = "loop"
            \/ FinishFailed(w) /\ status' = status

(* No other step does. *)
LEMMA StrandedStep ==
    ASSUME TypeInv, RevokedIsOver, [Next]_vars
    PROVE  Stranded' \subseteq Stranded \/ \E w \in Workers : Lapse(w)
<1> SUFFICES ASSUME \A w \in Workers : ~Lapse(w) PROVE Stranded' \subseteq Stranded
  OBVIOUS
<1> USE DEF TypeInv, TypeOK
<1>1. CASE UserStep
  BY <1>1, NothingStrands
  DEF UserStep, Request, Revoke, PassTTL, FetchBytes, ClaimDownload
<1>2. ASSUME NEW w \in Workers, RenderStep(w) PROVE Stranded' \subseteq Stranded
  <2> USE DEF Claimed, Phases
  <2>1. CASE PollBacklog(w) \/ LeaveLoop(w) \/ Collect(w) \/ FillSecrets(w)
             \/ StoreBytes(w) \/ DeliverPassphrase(w) \/ RemoveStored(w)
    <3>1. \A v \in Workers : pc[v] \in Claimed => pc'[v] \in Claimed /\ cur'[v] = cur[v]
      BY <2>1 DEF PollBacklog, LeaveLoop, Collect, FillSecrets, StoreBytes,
         DeliverPassphrase, RemoveStored, Catch, Goto
    <3>2. status' = status
      BY <2>1 DEF PollBacklog, LeaveLoop, Collect, FillSecrets, StoreBytes,
         DeliverPassphrase, RemoveStored
    <3>3. QED
      BY <3>1, <3>2, NothingStrands
  <2>2. CASE BeginRender(w)
    <3>1. PICK j \in todo[w], o \in TxOutcomes :
            /\ status' = IF Claimable(j) /\ Commits(o)
                         THEN [status EXCEPT ![j] = "running"] ELSE status
            /\ IF Claimable(j) /\ Returns(o)
               THEN /\ pc' = [pc EXCEPT ![w] = "collect"]
                    /\ cur' = [cur EXCEPT ![w] = j]
               ELSE UNCHANGED <<pc, cur>>
      BY <2>2 DEF BeginRender
    <3>2. pc[w] = "loop" /\ pc'[w] # "loop" /\ j \in Jobs
      BY <2>2, <3>1 DEF BeginRender, Lapse
    <3>3. /\ pc' = [pc EXCEPT ![w] = "collect"]
          /\ cur' = [cur EXCEPT ![w] = j]
          /\ \A i \in Jobs \ {j} : status'[i] = status[i]
      BY <3>1, <3>2
    <3>4. QED
      BY <3>2, <3>3, NothingStrands
  <2>3. CASE MarkFailed(w)
    <3>1. \A j \in Jobs : status'[j] \in {status[j], "failed"}
      BY <2>3 DEF MarkFailed
    <3>2. \A v \in Workers : pc[v] \in Claimed => pc'[v] \in Claimed /\ cur'[v] = cur[v]
      BY <2>3 DEF MarkFailed
    <3>3. QED
      BY <3>1, <3>2, NothingStrands
  <2>4. CASE FinishCompleted(w)
    <3>1. PICK o \in TxOutcomes :
            /\ IF Finishable(cur[w]) /\ Commits(o)
               THEN status' = [status EXCEPT ![cur[w]] = "completed"]
               ELSE status' = status
            /\ IF Returns(o) THEN Goto(w, "loop") /\ Release(w)
                             ELSE Catch(w) /\ UNCHANGED <<cur, stored>>
      BY <2>4 DEF FinishCompleted
    <3>2. cur[w] \in Jobs /\ \A j \in Jobs : status'[j] \in {status[j], "completed"}
      BY <2>4, <3>1 DEF FinishCompleted, HasRow
    <3>3. \A v \in Workers \ {w} : pc'[v] = pc[v] /\ cur'[v] = cur[v]
      BY <3>1 DEF Goto, Release, Catch
    <3>4. CASE Returns(o)
      <4>1. status'[cur[w]] # "running"
        BY <3>1, <3>2, <3>4 DEF Finishable, Returns, Commits, RevokedIsOver
      <4>2. QED
        BY <3>2, <3>3, <4>1, NothingStrands
    <3>5. CASE ~Returns(o)
      <4>1. pc'[w] \in Claimed /\ cur'[w] = cur[w]
        BY <3>1, <3>5 DEF Catch, Goto
      <4>2. QED
        BY <3>2, <3>3, <4>1, NothingStrands
    <3>6. QED
      BY <3>4, <3>5
  <2>5. CASE FinishFailed(w)
    <3>1. /\ cur[w] \in Jobs /\ status'[cur[w]] = "failed"
          /\ \A j \in Jobs : status'[j] \in {status[j], "failed"}
      BY <2>5 DEF FinishFailed, HasRow, Lapse
    <3>2. \A v \in Workers \ {w} : pc'[v] = pc[v] /\ cur'[v] = cur[v]
      BY <2>5 DEF FinishFailed, Goto, Release
    <3>3. QED
      BY <3>1, <3>2, NothingStrands
  <2>6. QED
    BY <1>2, <2>1, <2>2, <2>3, <2>4, <2>5 DEF RenderStep
<1>3. ASSUME NEW w \in Workers, ExpiryStep(w) PROVE Stranded' \subseteq Stranded
  <2>1. /\ pc' = pc /\ cur' = cur
        /\ \A j \in Jobs : status'[j] \in {status[j], "expired"}
    BY <1>3 DEF ExpiryStep, ExpireRows, ForgetPassphrase, RemoveExpired
  <2>2. QED
    BY <2>1, NothingStrands
<1>4. CASE UNCHANGED vars
  BY <1>4, NothingStrands DEF vars
<1>5. QED
  BY <1>1, <1>2, <1>3, <1>4 DEF Next, Lapse

(* Under every fault, a bundle is left to nobody only as the history says or by *)
(* the mishaps listed, and only the lapses listed leave a row running with no renderer                 *)
(* (NothingIsOrphaned).                                                        *)
THEOREM OnlyMishapsOrphan == Spec => NothingIsOrphaned
<1>1. Init => HandOverInv /\ RevokedExists /\ RevokedIsOver
  BY DEF Init, HandOverInv, StoredLate, RevokedIsMarked, RevokedExists, RevokedIsOver
<1>2. TypeInv /\ ClaimInv /\ BytesInv /\ HandOverInv /\ RevokedIsOver /\ [Next]_vars =>
        [/\ Orphans' \subseteq Orphans \cup left' \/ \E w \in Workers :
              \/ Crash(w)
              \/ ExpireRows(w) /\ sweep'[w] = {}
         /\ Stranded' \subseteq Stranded \/ \E w \in Workers :
              \/ Crash(w)
              \/ BeginRender(w) /\ pc'[w] = "loop"
              \/ FinishFailed(w) /\ status' = status]_vars
  BY OrphansStep, StrandedStep DEF Mishap, Lapse
<1>3. QED
  BY <1>1, <1>2, BytesInvInit, TypeInvInit, TypeInvNext, ClaimInvNext, BytesInvNext,
     HandOverInvNext, RevokedExistsNext, RevokedIsOverNext, PTL DEF Spec, NothingIsOrphaned

=============================================================================
