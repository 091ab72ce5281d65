--------------------------- MODULE Outbound_proofs ---------------------------
(***************************************************************************)
(* Proofs about Outbound: the audit log, the fan-out, the deliver pass and   *)
(* the task and expiry alerts together, for any number of operations,       *)
(* destinations, steps, people, thresholds, batch sizes, attempts and         *)
(* mishaps.                                                                 *)
(***************************************************************************)
EXTENDS Outbound, AuditChain_proofs, FiniteSetTheorems

-----------------------------------------------------------------------------
(* The inductive invariant. *)

(* An operation has one row, in the making or committed. *)
RowInv ==
    /\ IsFiniteSet(rows)
    /\ \A t \in Events : draft[t] # NoRow => draft[t].event = t /\ ~Committed(t)
    /\ \A r, q \in rows : r.event = q.event => r = q

(* What has a delivery has been passed by the cursor, or is recorded as sent. *)
SourceInv ==
    \A d \in Deliveries : ~Has(d, {"none"}) =>
        /\ d[2] \in Events => \E r \in rows : r.event = d[2] /\ r.seq <= cursor
        /\ d[2] \in Alerts => alert[d[2]].status = "sent"

(* The row of an overdue step is deleted only when no sweep looks at it. *)
WindowInv ==
    \A d \in Deliveries : d[2] \in Overdue /\ Has(d, {"gone"}) => window[d[2]] = "past"

(* The rows of a batch that are still to be recorded. *)
Unrecorded == pass.todo \cup (IF pass.pc = "idle" THEN {} ELSE {pass.cur})

PassInv ==
    /\ pass.pc # "idle" => pass.cur \in Deliveries /\ pass.cur \notin pass.todo
    /\ \A d \in Unrecorded : Has(d, {"pending"})

(* Attempts are left, and doubts are mishaps. *)
CountInv ==
    \A d \in Deliveries :
        /\ Has(d, {"pending", "waiting"}) => delivery[d].attempts < MaxAttempts
        /\ delivery[d].doubts <= mishaps

(* A delivery that was taken, and of which that is or will be recorded. *)
Known(d) ==
    IF pass.pc = "record" /\ pass.cur = d THEN pass.ok ELSE Has(d, {"delivered", "gone"})

(* Every other copy of a message is one whose fate is in doubt. *)
ReceivedInv ==
    \A d \in Deliveries :
        /\ delivery[d].received <= delivery[d].doubts + (IF Known(d) THEN 1 ELSE 0)
        /\ Has(d, {"delivered"}) \/ (pass.pc = "record" /\ pass.cur = d /\ pass.ok) =>
               delivery[d].received >= 1

TypeInv == QueueTypeOK /\ AlertTypeOK
DeliveryInv == PassInv /\ CountInv /\ ReceivedInv /\ WindowInv

AllInv ==
    /\ Inv /\ RowInv /\ TypeInv /\ SourceInv /\ DeliveryInv
    /\ NothingMissed /\ AlertsAccountedFor

USE DEF queueVars, alertVars

(* It holds with an empty log and an empty queue. *)
LEMMA AllInvInit == Init => AllInv
<1> SUFFICES ASSUME Init PROVE AllInv
  OBVIOUS
<1> USE QueueAssumption, AlertAssumption DEF Init, QueueInit, AlertInit, Has
<1>1. Inv
  BY InvInit
<1>2. RowInv
  BY FS_EmptySet DEF ChainInit, RowInv
<1>3. QueueTypeOK
  <2>1. head.seq = 0
    BY DEF ChainInit, Zero
  <2>2. QED
    BY <2>1 DEF QueueTypeOK, DeliveryRow, Status, Idle
<1>4. AlertTypeOK
  BY DEF AlertTypeOK
<1>5. SourceInv /\ NothingMissed /\ AlertsAccountedFor
  BY DEF ChainInit, SourceInv, NothingMissed, AlertsAccountedFor, Deliveries, Sources
<1>6. DeliveryInv
  BY DEF DeliveryInv, PassInv, Unrecorded, CountInv, ReceivedInv, Known, WindowInv, Idle
<1>7. QED
  BY <1>1, <1>2, <1>3, <1>4, <1>5, <1>6 DEF AllInv, TypeInv

-----------------------------------------------------------------------------
(* The log. *)

(* A step of Outbound is a step of the chain or leaves it alone. *)
LEMMA ChainStep ==
    ASSUME AllInv, Next
    PROVE  /\ Inv'
           /\ \/ UNCHANGED chainVars
              \/ \E t \in Events : Link(t) \/ CommitAudited(t) \/ RollBackAudited(t)
<1>1. \/ UNCHANGED chainVars
      \/ \E t \in Events : Link(t) \/ CommitAudited(t) \/ RollBackAudited(t)
  BY DEF Next, Writers
<1>2. [ChainNext]_chainVars
  BY <1>1 DEF ChainNext
<1>3. QED
  BY <1>1, <1>2, InvNext DEF AllInv

(* Rows are only added, each beyond the head and for an operation without one. *)
LEMMA RowsGrow ==
    ASSUME AllInv, Next
    PROVE  /\ RowInv'
           /\ head'.seq \in Nat /\ head.seq <= head'.seq
           /\ rows \subseteq rows'
           /\ \A r \in rows' : r \in rows \/ r.seq > head.seq
<1> USE DEF AllInv, RowInv, Committed
<1>0. head.seq \in Nat
  BY DEF Inv, ChainTypeOK, Pair
<1>1. CASE UNCHANGED <<rows, head, draft>>
  BY <1>0, <1>1
<1>2. ASSUME NEW t \in Events, Link(t)
      PROVE  RowInv' /\ UNCHANGED <<rows, head>>
  <2>1. NextRow(t).event = t
    BY DEF NextRow
  <2>2. QED
    BY <1>2, <2>1 DEF Link, Inv, ChainTypeOK
<1>3. ASSUME NEW t \in Events, CommitAudited(t)
      PROVE  /\ RowInv' /\ rows' = rows \cup {draft[t]}
             /\ draft[t].seq = head.seq + 1 /\ head'.seq = head.seq + 1
  <2>1. draft[t] = NextRow(t)
    BY <1>3 DEF CommitAudited, Inv, DraftInv
  <2>2. draft[t].seq = head.seq + 1 /\ draft[t].event = t
    BY <2>1 DEF NextRow
  <2>3. rows' = rows \cup {draft[t]} /\ head'.seq = head.seq + 1
    BY <1>3, <2>2 DEF CommitAudited, PairOf
  <2>4. IsFiniteSet(rows')
    BY <2>3, FS_AddElement
  <2>5. \A r, q \in rows' : r.event = q.event => r = q
    BY <1>3, <2>2, <2>3 DEF CommitAudited
  <2>6. \A u \in Events : draft'[u] = NoRow
    BY <1>3 DEF CommitAudited, Inv, ChainTypeOK, DraftInv
  <2>7. QED
    BY <2>2, <2>3, <2>4, <2>5, <2>6
<1>4. ASSUME NEW t \in Events, RollBackAudited(t)
      PROVE  RowInv' /\ UNCHANGED <<rows, head>>
  BY <1>4 DEF RollBackAudited, Inv, ChainTypeOK
<1>5. QED
  BY <1>0, <1>1, <1>2, <1>3, <1>4, ChainStep DEF chainVars

(* A log that only grows beyond its head, and deliveries that are there or not  *)
(* as before, leave what is known of sources as it is.                       *)
LEMMA SourcesKept ==
    ASSUME AllInv, Next, UNCHANGED <<cursor, alert>>,
           \A d \in Deliveries : Has(d, {"none"})' <=> Has(d, {"none"})
    PROVE  SourceInv' /\ NothingMissed' /\ AlertsAccountedFor'
<1>1. /\ rows \subseteq rows'
      /\ \A r \in rows' : r \in rows \/ r.seq > head.seq
      /\ head.seq \in Nat /\ cursor \in Nat /\ cursor <= head.seq
      /\ \A r \in rows' : r.seq \in Nat
  <2>1. \A r \in rows' : r.seq \in Nat
    BY ChainStep DEF Inv, ChainTypeOK, Row
  <2>2. QED
    BY <2>1, RowsGrow DEF AllInv, Inv, ChainTypeOK, Pair, TypeInv, QueueTypeOK
<1>2. SourceInv'
  BY <1>1 DEF AllInv, SourceInv
<1>3. NothingMissed'
  <2> SUFFICES ASSUME NEW r \in rows', NEW e \in Endpoints,
                      r.seq <= cursor, <<e, r.event>> \in Wants
               PROVE  ~Has(<<e, r.event>>, {"none"})'
    BY DEF NothingMissed
  <2>1. r \in rows
    BY <1>1
  <2>2. <<e, r.event>> \in Deliveries
    BY QueueAssumption
  <2>3. QED
    BY <2>1, <2>2 DEF AllInv, NothingMissed
<1>4. AlertsAccountedFor'
  <2>1. \A l \in Alerts, e \in Endpoints : <<e, l>> \in Deliveries
    BY DEF Deliveries, Sources
  <2>2. QED
    BY <2>1 DEF AllInv, AlertsAccountedFor, Hears
<1>5. QED
  BY <1>2, <1>3, <1>4

-----------------------------------------------------------------------------
(* Putting deliveries on the queue. *)

(* The sources one step may queue. *)
Source(S) ==
    \/ S = {r.event : r \in Candidates}
    \/ \E l \in poll : S = {l}
    \/ S \subseteq Assigned
    \/ S \subseteq {o \in Overdue : window[o] = "open"}

(* None of them has been queued and deleted before, but for assignments. *)
LEMMA SourceIsNew ==
    ASSUME AllInv, NEW S, Source(S), NEW d \in Deliveries, d[2] \in S, Has(d, {"gone"})
    PROVE  d[2] \in Assigned
<1> USE DEF AllInv, SourceInv
<1>0. ~Has(d, {"none"})
  BY DEF Has
<1>1. ASSUME S = {r.event : r \in Candidates} PROVE FALSE
  <2>1. PICK r \in rows : r.event = d[2] /\ r.seq > cursor
    BY <1>1 DEF Candidates, Unread
  <2>2. d[2] \in Events
    BY <2>1 DEF Inv, ChainTypeOK, Row
  <2>3. \A q \in rows : q.event = d[2] => q = r
    BY <2>1 DEF RowInv
  <2>4. r.seq \in Nat /\ cursor \in Nat
    BY DEF Inv, ChainTypeOK, Row, TypeInv, QueueTypeOK
  <2>5. QED
    BY <1>0, <2>1, <2>2, <2>3, <2>4
<1>2. ASSUME NEW l \in poll, S = {l} PROVE FALSE
  BY <1>0, <1>2 DEF TypeInv, AlertTypeOK
<1>3. ASSUME S \subseteq {o \in Overdue : window[o] = "open"} PROVE FALSE
  BY <1>3 DEF DeliveryInv, WindowInv
<1>4. QED
  BY <1>1, <1>2, <1>3 DEF Source

(* What is put on the queue is a new row, or nothing happens to it; only an     *)
(* assignment can have had a row before.                                     *)
LEMMA QueuedIs ==
    ASSUME AllInv, NEW S, Source(S), delivery' = Queued(S), NEW d \in Deliveries
    PROVE  /\ IF d \in Wants /\ d[2] \in S /\ Has(d, {"none", "gone"})
              THEN delivery'[d] = NewRow ELSE delivery'[d] = delivery[d]
           /\ Has(d, {"gone"}) /\ d[2] \notin Assigned => delivery'[d] = delivery[d]
BY SourceIsNew DEF Queued

(* A row that is queued is pending, and nothing of it has been received. *)
LEMMA FreshRow ==
    /\ NewRow \in DeliveryRow
    /\ NewRow.status = "pending" /\ NewRow.attempts = 0
    /\ NewRow.received = 0 /\ NewRow.doubts = 0
BY QueueAssumption DEF NewRow, DeliveryRow, Status

(* What is queued is pending with all its attempts before it. *)
LEMMA Enqueue ==
    ASSUME AllInv, NEW S, Source(S), delivery' = Queued(S), UNCHANGED <<window, relay, pass, mishaps>>,
           cursor' \in Nat, cursor' <= head'.seq
    PROVE  QueueTypeOK' /\ DeliveryInv'
<1> USE QueueAssumption DEF AllInv, TypeInv, QueueTypeOK, DeliveryInv
<1>1. \A d \in Deliveries : delivery[d] \in DeliveryRow
  OBVIOUS
<1>2. \A d \in Deliveries :
        /\ delivery'[d] \in DeliveryRow
        /\ \/ delivery'[d] = delivery[d]
           \/ /\ Has(d, {"none", "gone"}) /\ delivery'[d].status = "pending"
              /\ delivery'[d].attempts = 0
              /\ delivery'[d].received = 0 /\ delivery'[d].doubts = 0
  BY <1>1, QueuedIs, FreshRow
<1>3. QueueTypeOK'
  <2>1. delivery' = [d \in Deliveries |-> delivery'[d]]
    BY DEF Queued
  <2>2. QED
    BY <1>2, <2>1
<1>4. PassInv'
  BY <1>2 DEF PassInv, Unrecorded, Has
<1>5. CountInv'
  BY <1>2 DEF CountInv, Has
<1>6. ReceivedInv'
  <2> SUFFICES ASSUME NEW d \in Deliveries
               PROVE  /\ delivery'[d].received <= delivery'[d].doubts + (IF Known(d)' THEN 1 ELSE 0)
                      /\ \/ Has(d, {"delivered"})'
                         \/ pass'.pc = "record" /\ pass'.cur = d /\ pass'.ok
                         => delivery'[d].received >= 1
    BY DEF ReceivedInv
  <2>1. CASE delivery'[d] = delivery[d]
    BY <2>1 DEF ReceivedInv, Known, Has
  <2>2. CASE /\ Has(d, {"none", "gone"}) /\ delivery'[d].status = "pending"
             /\ delivery'[d].received = 0 /\ delivery'[d].doubts = 0
    <3>1. ~(pass.pc = "record" /\ pass.cur = d)
      BY <2>2 DEF PassInv, Unrecorded, Has
    <3>2. QED
      BY <2>2, <3>1 DEF Has
  <2>3. QED
    BY <1>2, <2>1, <2>2
<1>7. WindowInv'
  BY <1>2 DEF WindowInv, Has
<1>8. QED
  BY <1>3, <1>4, <1>5, <1>6, <1>7

(* Of the rows beyond the cursor, the first batch: none is left out below the   *)
(* last of them.                                                             *)
LEMMA BatchIsFirst ==
    ASSUME AllInv, NEW r \in Candidates, NEW q \in Unread, q.seq <= r.seq
    PROVE  q \in Candidates
<1> DEFINE Before(x) == {y \in Unread : y.seq < x.seq}
<1>1. IsFiniteSet(Unread)
  BY FS_Subset DEF Unread, AllInv, RowInv
<1>2. \A x \in rows : x.seq \in Nat
  BY DEF AllInv, Inv, ChainTypeOK, Row
<1>3. Before(q) \subseteq Before(r) /\ Before(r) \subseteq Unread
  BY <1>2 DEF Candidates, Unread
<1>4. IsFiniteSet(Before(r))
  BY <1>1, <1>3, FS_Subset
<1>5. /\ Cardinality(Before(q)) <= Cardinality(Before(r))
      /\ Cardinality(Before(q)) \in Nat /\ Cardinality(Before(r)) \in Nat
  BY <1>3, <1>4, FS_Subset, FS_CardinalityType
<1>6. Cardinality(Before(r)) < FanoutBatch
  BY DEF Candidates
<1> HIDE DEF Before
<1>7. Cardinality(Before(q)) < FanoutBatch
  BY <1>5, <1>6, QueueAssumption
<1>8. QED
  BY <1>7 DEF Before, Candidates

(* A fan-out queues what it read and moves the cursor to the last of it. *)
LEMMA FanOutNext ==
    ASSUME AllInv, Next, FanOut, UNCHANGED <<chainVars, alertVars>>
    PROVE  AllInv'
<1> DEFINE S == {r.event : r \in Candidates}
<1> USE DEF AllInv
<1>1. PICK last \in Candidates : cursor' = last.seq /\ \A q \in Candidates : q.seq <= last.seq
  BY DEF FanOut
<1>2. \A r \in rows : r.seq \in Nat /\ r.seq <= head.seq
  BY DEF Inv, ChainTypeOK, Row, Pair, ChainIsContiguous
<1>3. /\ last \in rows /\ cursor' \in Nat /\ cursor' <= head'.seq
      /\ cursor \in Nat /\ cursor < cursor'
  BY <1>1, <1>2 DEF Candidates, Unread, chainVars, TypeInv, QueueTypeOK
<1>4. Source(S) /\ delivery' = Queued(S)
  BY DEF Source, FanOut
<1>5. QueueTypeOK' /\ DeliveryInv'
  BY <1>3, <1>4, Enqueue DEF FanOut
<1>6. AlertTypeOK'
  BY DEF TypeInv, AlertTypeOK
<1>7. \A r \in rows : r.seq <= cursor' => r.seq <= cursor \/ r \in Candidates
  <2> SUFFICES ASSUME NEW r \in rows, r.seq <= cursor', ~(r.seq <= cursor)
               PROVE  r \in Candidates
    OBVIOUS
  <2>1. r \in Unread /\ r.seq <= last.seq
    BY <1>1, <1>2, <1>3 DEF Unread
  <2>2. QED
    BY <1>1, <2>1, BatchIsFirst
<1>8. \A d \in Deliveries :
        /\ ~Has(d, {"none"})' => ~Has(d, {"none"}) \/ d[2] \in S
        /\ ~Has(d, {"none"}) => ~Has(d, {"none"})'
        /\ d \in Wants /\ d[2] \in S => ~Has(d, {"none"})'
  <2> SUFFICES ASSUME NEW d \in Deliveries
               PROVE  /\ ~Has(d, {"none"})' => ~Has(d, {"none"}) \/ d[2] \in S
                      /\ ~Has(d, {"none"}) => ~Has(d, {"none"})'
                      /\ d \in Wants /\ d[2] \in S => ~Has(d, {"none"})'
    OBVIOUS
  <2>1. delivery[d] \in DeliveryRow
    BY DEF TypeInv, QueueTypeOK
  <2>2. QED
    BY <1>4, <2>1, QueuedIs, FreshRow DEF Has, DeliveryRow
<1>9. \A t \in S : \E r \in rows : r.event = t /\ r.seq <= cursor' /\ t \in Events
  BY <1>1 DEF Candidates, Unread, Inv, ChainTypeOK, Row
<1>10. SourceInv'
  <2>1. UNCHANGED <<rows, alert>>
    BY DEF chainVars
  <2> SUFFICES ASSUME NEW d \in Deliveries, ~Has(d, {"none"})'
               PROVE  /\ d[2] \in Events => \E r \in rows : r.event = d[2] /\ r.seq <= cursor'
                      /\ d[2] \in Alerts => alert[d[2]].status = "sent"
    BY <2>1 DEF SourceInv
  <2>2. CASE d[2] \in S
    BY <1>9, <2>2, QueueAssumption
  <2>3. CASE ~Has(d, {"none"})
    BY <1>2, <1>3, <2>3 DEF SourceInv
  <2>4. QED
    BY <1>8, <2>2, <2>3
<1>11. NothingMissed'
  <2>1. \A r \in rows, e \in Endpoints : <<e, r.event>> \in Wants => <<e, r.event>> \in Deliveries
    BY QueueAssumption
  <2>2. \A r \in rows, e \in Endpoints :
          r.seq <= cursor' /\ <<e, r.event>> \in Wants => ~Has(<<e, r.event>>, {"none"})'
    BY <1>7, <1>8, <2>1 DEF NothingMissed
  <2>3. QED
    BY <2>2 DEF NothingMissed, chainVars
<1>12. AlertsAccountedFor'
  <2>1. \A l \in Alerts, e \in Endpoints : <<e, l>> \in Deliveries
    BY DEF Deliveries, Sources
  <2>2. QED
    BY <1>8, <2>1 DEF AlertsAccountedFor, Hears
<1>13. QED
  BY <1>5, <1>6, <1>10, <1>11, <1>12, ChainStep, RowsGrow DEF TypeInv

-----------------------------------------------------------------------------
(* The other steps. *)

(* A step that leaves the log, the cursor and the alerts alone, and neither     *)
(* makes nor loses a delivery.                                               *)
LEMMA Quiet ==
    ASSUME AllInv, Next, UNCHANGED <<chainVars, cursor, alertVars>>,
           QueueTypeOK', DeliveryInv',
           \A d \in Deliveries : Has(d, {"none"})' <=> Has(d, {"none"})
    PROVE  AllInv'
<1>1. AlertTypeOK'
  BY DEF AllInv, TypeInv, AlertTypeOK
<1>2. QED
  BY <1>1, ChainStep, RowsGrow, SourcesKept DEF AllInv, TypeInv

(* Nothing is deleted and no day passes. *)
LEMMA WindowKept ==
    ASSUME AllInv, UNCHANGED window,
           \A d \in Deliveries : Has(d, {"gone"})' => Has(d, {"gone"})
    PROVE  WindowInv'
BY DEF AllInv, DeliveryInv, WindowInv

(* An operation writes, commits or rolls back. *)
LEMMA WriteNext ==
    ASSUME AllInv, Next, UNCHANGED <<queueVars, alertVars>>
    PROVE  AllInv'
<1> USE DEF AllInv
<1>1. QueueTypeOK'
  BY RowsGrow DEF TypeInv, QueueTypeOK, Inv, ChainTypeOK, Pair
<1>2. AlertTypeOK'
  BY DEF TypeInv, AlertTypeOK
<1>3. DeliveryInv'
  BY DEF DeliveryInv, PassInv, Unrecorded, CountInv, ReceivedInv, Known, WindowInv, Has
<1>4. \A d \in Deliveries : Has(d, {"none"})' <=> Has(d, {"none"})
  BY DEF Has
<1>5. QED
  BY <1>1, <1>2, <1>3, <1>4, ChainStep, RowsGrow, SourcesKept DEF TypeInv

Mails == {"unopened", "open", "none"}

(* The pass goes on with a row of the batch, or is over. *)
LEMMA TakeIs ==
    ASSUME NEW S \in SUBSET Deliveries, NEW mail \in Mails, Take(S, mail)
    PROVE  /\ pass' \in [pc : {"idle", "send", "record"}, todo : SUBSET Deliveries,
                         cur : Deliveries \cup {Nothing}, ok : BOOLEAN, mail : Mails]
           /\ pass'.pc # "record"
           /\ Unrecorded' \subseteq S
           /\ pass'.pc # "idle" => pass'.cur \in Deliveries /\ pass'.cur \notin pass'.todo
<1>1. CASE S = {}
  <2>1. pass' = [pc |-> "idle", todo |-> {}, cur |-> Nothing, ok |-> FALSE,
                 mail |-> "unopened"]
    BY <1>1 DEF Take, Idle
  <2>2. QED
    BY <2>1 DEF Unrecorded, Mails
<1>2. CASE S # {}
  <2>1. PICK d \in S : pass' = [pc |-> "send", todo |-> S \ {d}, cur |-> d,
                                ok |-> FALSE, mail |-> mail]
    BY <1>2 DEF Take
  <2>2. QED
    BY <2>1 DEF Unrecorded
<1>3. QED
  BY <1>1, <1>2

(* A claim takes pending rows and changes none. *)
LEMMA ClaimNext ==
    ASSUME AllInv, Next, Claim, UNCHANGED <<chainVars, alertVars>>
    PROVE  AllInv'
<1> USE DEF AllInv, Claim
<1>1. PICK S : S = {d \in Deliveries : Due(d)}
  OBVIOUS
<1>2. S \in SUBSET Deliveries /\ Take(S, "unopened") /\ \A d \in S : Has(d, {"pending"})
  BY <1>1 DEF Due
<1>3. /\ pass' \in [pc : {"idle", "send", "record"}, todo : SUBSET Deliveries,
                    cur : Deliveries \cup {Nothing}, ok : BOOLEAN, mail : Mails]
      /\ pass'.pc # "record"
      /\ Unrecorded' \subseteq S
      /\ pass'.pc # "idle" => pass'.cur \in Deliveries /\ pass'.cur \notin pass'.todo
  BY <1>2, TakeIs DEF Mails
<1>4. QueueTypeOK'
  BY <1>3 DEF TypeInv, QueueTypeOK, Mails, chainVars
<1>5. PassInv'
  BY <1>2, <1>3 DEF PassInv, Has
<1>6. CountInv'
  BY DEF DeliveryInv, CountInv, Has
<1>7. ReceivedInv'
  BY <1>3 DEF DeliveryInv, ReceivedInv, Known, Has
<1>8. WindowInv'
  BY WindowKept DEF Has
<1>9. QED
  BY <1>4, <1>5, <1>6, <1>7, <1>8, Quiet DEF DeliveryInv, Has

(* What a send does to the columns of a row. *)
LEMMA RowBumped ==
    ASSUME NEW row \in DeliveryRow, NEW new, new = [row EXCEPT !.received = @ + 1]
    PROVE  /\ new.status = row.status /\ new.attempts = row.attempts
           /\ new.received = row.received + 1 /\ new.doubts = row.doubts + 0
BY DEF DeliveryRow

(* A send whose answer came too late, on one row. *)
LEMMA RowDoubted ==
    ASSUME NEW row \in DeliveryRow, NEW new,
           new = [row EXCEPT !.received = @ + 1, !.doubts = @ + 1]
    PROVE  /\ new.status = row.status /\ new.attempts = row.attempts
           /\ new.received = row.received + 1 /\ new.doubts = row.doubts + 1
BY DEF DeliveryRow

(* However a send ends, it touches nothing of a row but what was received   *)
(* and what is in doubt.                                                    *)
LEMMA RowShape ==
    ASSUME NEW row \in DeliveryRow, NEW new,
           \/ new = [row EXCEPT !.received = @ + 1]
           \/ new = row
           \/ new = [row EXCEPT !.received = @ + 1, !.doubts = @ + 1]
    PROVE  new = [row EXCEPT !.received = new.received, !.doubts = new.doubts]
BY DEF DeliveryRow

(* Sending changes what has been received of the row in hand, never its status. *)
LEMMA SendNext ==
    ASSUME AllInv, Next, Send, UNCHANGED <<chainVars, alertVars>>
    PROVE  AllInv'
<1> USE DEF AllInv, TypeInv
<1>1. /\ pass.pc = "send" /\ pass.cur \in Deliveries /\ pass.cur \notin pass.todo
      /\ \A d \in pass.todo : Has(d, {"pending"})
      /\ delivery[pass.cur].status = "pending"
      /\ \A d \in Deliveries : delivery[d] \in DeliveryRow
      /\ mishaps \in 0 .. MaxMishaps /\ MaxMishaps \in Nat
  BY QueueAssumption DEF Send, DeliveryInv, PassInv, Unrecorded, Has, QueueTypeOK
<1>2. /\ pass' = [pass EXCEPT !.pc = "record", !.ok = pass'.ok, !.mail = Mailer]
      /\ pass'.ok \in BOOLEAN /\ Mailer \in Mails
  BY DEF Send, Sent, Mailer, Mails, QueueTypeOK
<1>3. PICK got, doubt \in {0, 1} :
        /\ delivery'[pass.cur].status = delivery[pass.cur].status
        /\ delivery'[pass.cur].attempts = delivery[pass.cur].attempts
        /\ delivery'[pass.cur].received = delivery[pass.cur].received + got
        /\ delivery'[pass.cur].doubts = delivery[pass.cur].doubts + doubt
        /\ got = doubt + (IF pass'.ok THEN 1 ELSE 0)
        /\ mishaps' = mishaps + doubt /\ mishaps' \in 0 .. MaxMishaps
  <2>1. CASE Sent(TRUE) /\ delivery' = [delivery EXCEPT ![pass.cur].received = @ + 1]
             /\ UNCHANGED mishaps
    <3>1. pass'.ok = TRUE
      BY <2>1 DEF Sent, QueueTypeOK
    <3>2. delivery'[pass.cur] = [delivery[pass.cur] EXCEPT !.received = @ + 1]
      BY <1>1, <2>1 DEF QueueTypeOK
    <3>3. /\ delivery'[pass.cur].status = delivery[pass.cur].status
          /\ delivery'[pass.cur].attempts = delivery[pass.cur].attempts
          /\ delivery'[pass.cur].received = delivery[pass.cur].received + 1
          /\ delivery'[pass.cur].doubts = delivery[pass.cur].doubts + 0
      BY <1>1, <3>2, RowBumped
    <3>4. mishaps' = mishaps + 0 /\ 1 = 0 + 1 /\ mishaps' \in 0 .. MaxMishaps
      BY <1>1, <2>1
    <3>5. QED
      BY <3>1, <3>3, <3>4
  <2>2. CASE Sent(FALSE) /\ UNCHANGED <<delivery, mishaps>>
    <3>1. pass'.ok = FALSE
      BY <2>2 DEF Sent, QueueTypeOK
    <3>2. /\ delivery'[pass.cur] = delivery[pass.cur]
          /\ delivery[pass.cur].received \in Nat /\ delivery[pass.cur].doubts \in Nat
      BY <1>1, <2>2 DEF DeliveryRow
    <3>3. mishaps' = mishaps + 0 /\ 0 = 0 + 0 /\ mishaps' \in 0 .. MaxMishaps
      BY <1>1, <2>2
    <3>4. QED
      BY <3>1, <3>2, <3>3
  <2>3. CASE /\ Sent(FALSE) /\ mishaps < MaxMishaps /\ mishaps' = mishaps + 1
             /\ delivery' = [delivery EXCEPT ![pass.cur].received = @ + 1,
                                             ![pass.cur].doubts = @ + 1]
    <3>1. pass'.ok = FALSE
      BY <2>3 DEF Sent, QueueTypeOK
    <3>2. delivery'[pass.cur] = [delivery[pass.cur] EXCEPT !.received = @ + 1,
                                                           !.doubts = @ + 1]
      BY <1>1, <2>3 DEF QueueTypeOK
    <3>3. /\ delivery'[pass.cur].status = delivery[pass.cur].status
          /\ delivery'[pass.cur].attempts = delivery[pass.cur].attempts
          /\ delivery'[pass.cur].received = delivery[pass.cur].received + 1
          /\ delivery'[pass.cur].doubts = delivery[pass.cur].doubts + 1
      BY <1>1, <3>2, RowDoubted
    <3>4. mishaps' = mishaps + 1 /\ 1 = 1 + 0 /\ mishaps' \in 0 .. MaxMishaps
      BY <1>1, <2>3
    <3>5. QED
      BY <3>1, <3>3, <3>4
  <2>4. QED
    BY <2>1, <2>2, <2>3 DEF Send
<1>4. /\ \A d \in Deliveries : d # pass.cur => delivery'[d] = delivery[d]
      /\ delivery' = [d \in Deliveries |-> delivery'[d]]
      /\ delivery'[pass.cur] =
           [delivery[pass.cur] EXCEPT !.received = delivery'[pass.cur].received,
                                      !.doubts = delivery'[pass.cur].doubts]
  <2>1. \/ delivery' = [delivery EXCEPT ![pass.cur].received = @ + 1]
        \/ delivery' = delivery
        \/ delivery' = [delivery EXCEPT ![pass.cur].received = @ + 1, ![pass.cur].doubts = @ + 1]
    BY DEF Send
  <2>2. \/ delivery'[pass.cur] = [delivery[pass.cur] EXCEPT !.received = @ + 1]
        \/ delivery'[pass.cur] = delivery[pass.cur]
        \/ delivery'[pass.cur] = [delivery[pass.cur] EXCEPT !.received = @ + 1, !.doubts = @ + 1]
    BY <1>1, <2>1 DEF QueueTypeOK
  <2>3. delivery[pass.cur] \in DeliveryRow
    BY <1>1
  <2>4. delivery'[pass.cur] =
           [delivery[pass.cur] EXCEPT !.received = delivery'[pass.cur].received,
                                      !.doubts = delivery'[pass.cur].doubts]
    BY <2>2, <2>3, RowShape
  <2>5. QED
    BY <1>1, <2>1, <2>4 DEF QueueTypeOK
<1>5. CountInv'
  <2>1. /\ delivery[pass.cur].doubts \in Nat /\ delivery[pass.cur].doubts <= mishaps
        /\ delivery[pass.cur].attempts < MaxAttempts
    BY <1>1 DEF DeliveryInv, CountInv, Has, DeliveryRow
  <2>2. /\ delivery'[pass.cur].doubts <= mishaps'
        /\ delivery'[pass.cur].attempts < MaxAttempts
    BY <1>1, <1>3, <2>1
  <2>3. \A d \in Deliveries : d # pass.cur =>
          /\ Has(d, {"pending", "waiting"})' => delivery'[d].attempts < MaxAttempts
          /\ delivery'[d].doubts <= mishaps'
    <3>1. \A d \in Deliveries : delivery[d].doubts \in Nat /\ delivery[d].doubts <= mishaps
      BY <1>1 DEF DeliveryInv, CountInv, DeliveryRow
    <3>2. mishaps <= mishaps'
      BY <1>1, <1>3
    <3>3. QED
      BY <1>1, <1>3, <1>4, <3>1, <3>2 DEF DeliveryInv, CountInv, Has
  <2>4. QED
    BY <2>2, <2>3 DEF CountInv, Has
<1>6. QueueTypeOK'
  <2>1. delivery'[pass.cur] \in DeliveryRow
    <3>1. delivery'[pass.cur].doubts \in 0 .. MaxMishaps
      <4>1. delivery'[pass.cur].doubts <= mishaps'
        BY <1>1, <1>5 DEF CountInv
      <4>2. delivery[pass.cur].doubts \in Nat
        BY <1>1 DEF DeliveryRow
      <4>3. QED
        BY <1>1, <1>3, <4>1, <4>2
    <3>2. delivery'[pass.cur].received \in Nat
      BY <1>1, <1>3 DEF DeliveryRow
    <3>3. QED
      BY <1>1, <1>4, <3>1, <3>2 DEF DeliveryRow
  <2>2. delivery' \in [Deliveries -> DeliveryRow]
    BY <1>1, <1>4, <2>1
  <2>3. UNCHANGED <<cursor, window, relay, head>>
    BY DEF Send, chainVars
  <2>4. pass' \in [pc : {"idle", "send", "record"}, todo : SUBSET Deliveries,
                   cur : Deliveries \cup {Nothing}, ok : BOOLEAN, mail : Mails]
    BY <1>2 DEF QueueTypeOK, Mails
  <2>5. QED
    BY <1>3, <2>2, <2>3, <2>4 DEF QueueTypeOK, Mails
<1>7. pass'.pc = "record" /\ pass'.cur = pass.cur /\ pass'.todo = pass.todo
  BY <1>2 DEF QueueTypeOK
<1>8. PassInv'
  <2>1. /\ Unrecorded' = pass.todo \cup {pass.cur}
        /\ pass'.cur \in Deliveries /\ pass'.cur \notin pass'.todo
    BY <1>1, <1>7 DEF Unrecorded
  <2>2. \A d \in pass.todo : d \in Deliveries /\ d # pass.cur
    BY <1>1 DEF QueueTypeOK
  <2>3. \A d \in pass.todo \cup {pass.cur} : Has(d, {"pending"})'
    BY <1>1, <1>3, <1>4, <2>2 DEF Has
  <2>4. QED
    BY <2>1, <2>3 DEF PassInv
<1>9. ReceivedInv'
  <2>1. \A d \in Deliveries : d # pass.cur => (Known(d)' <=> Known(d))
    BY <1>1, <1>4, <1>7 DEF Known, Has
  <2>2. ~Known(pass.cur) /\ (Known(pass.cur)' <=> pass'.ok)
    BY <1>1, <1>7 DEF Known, Has
  <2>3. \A d \in Deliveries : d # pass.cur =>
          /\ delivery'[d].received <= delivery'[d].doubts + (IF Known(d)' THEN 1 ELSE 0)
          /\ Has(d, {"delivered"})' => delivery'[d].received >= 1
    BY <1>1, <1>4, <2>1 DEF DeliveryInv, ReceivedInv, Has
  <2>4. /\ delivery'[pass.cur].received
             <= delivery'[pass.cur].doubts + (IF pass'.ok THEN 1 ELSE 0)
        /\ pass'.ok => delivery'[pass.cur].received >= 1
    <3>1. /\ delivery[pass.cur].received \in Nat /\ delivery[pass.cur].doubts \in Nat
          /\ delivery[pass.cur].received <= delivery[pass.cur].doubts
      BY <1>1, <2>2 DEF DeliveryInv, ReceivedInv, DeliveryRow
    <3>2. QED
      BY <1>3, <1>4, <3>1
  <2>5. QED
    BY <1>1, <1>3, <1>7, <2>2, <2>3, <2>4 DEF ReceivedInv, Has
<1>10. \A d \in Deliveries : Has(d, {"none"})' <=> Has(d, {"none"})
  BY <1>1, <1>3, <1>4 DEF Has
<1>11. UNCHANGED cursor
  BY DEF Send
<1>12. WindowInv'
  BY <1>1, <1>3, <1>4, WindowKept DEF Send, Has
<1>13. QED
  BY <1>5, <1>6, <1>8, <1>9, <1>10, <1>11, <1>12, Quiet DEF DeliveryInv

(* What a record does to a row with an attempt left. *)
LEMMA SettledIs ==
    ASSUME NEW row \in DeliveryRow, row.attempts < MaxAttempts, NEW ok \in BOOLEAN
    PROVE  /\ Settled(row, ok) \in DeliveryRow
           /\ Settled(row, ok).status \in {"delivered", "dead", "waiting"}
           /\ Settled(row, ok).status = "delivered" <=> ok
           /\ Settled(row, ok).status = "waiting" => Settled(row, ok).attempts < MaxAttempts
           /\ Settled(row, ok).received = row.received
           /\ Settled(row, ok).doubts = row.doubts
<1> DEFINE status == IF ok THEN "delivered"
                     ELSE IF row.attempts + 1 >= MaxAttempts THEN "dead" ELSE "waiting"
<1>1. /\ row.attempts \in Nat /\ row.attempts + 1 \in 0 .. MaxAttempts
      /\ row.received \in Nat /\ row.doubts \in 0 .. MaxMishaps /\ MaxAttempts \in Nat
  BY QueueAssumption DEF DeliveryRow
<1>2. Settled(row, ok) = [row EXCEPT !.attempts = @ + 1, !.status = status]
  BY DEF Settled
<1>3. /\ status \in {"delivered", "dead", "waiting"} /\ (status = "delivered" <=> ok)
      /\ status = "waiting" => row.attempts + 1 < MaxAttempts
  BY <1>1
<1> HIDE DEF status
<1>4. status \in Status
  BY <1>3 DEF Status
<1>5. QED
  BY <1>1, <1>2, <1>3, <1>4 DEF DeliveryRow

(* A record settles the row in hand; the pass goes on or ends. *)
LEMMA Settle ==
    ASSUME AllInv, Next, UNCHANGED <<chainVars, alertVars, cursor, window, relay>>,
           pass.pc = "record",
           delivery' = [delivery EXCEPT ![pass.cur] = Settled(@, pass.ok)],
           Take(pass.todo, pass.mail) \/ pass' = Idle,
           mishaps' \in 0 .. MaxMishaps, mishaps <= mishaps'
    PROVE  AllInv'
<1> USE DEF AllInv, TypeInv
<1>1. /\ pass.cur \in Deliveries /\ pass.cur \notin pass.todo /\ pass.todo \subseteq Deliveries
      /\ \A d \in Unrecorded : Has(d, {"pending"})
      /\ delivery[pass.cur].status = "pending" /\ delivery[pass.cur].attempts < MaxAttempts
      /\ \A d \in Deliveries : delivery[d] \in DeliveryRow
      /\ pass.ok \in BOOLEAN /\ pass.mail \in Mails
      /\ mishaps \in 0 .. MaxMishaps
  BY DEF DeliveryInv, PassInv, CountInv, Unrecorded, Has, QueueTypeOK, Mails
<1>2. /\ pass' \in [pc : {"idle", "send", "record"}, todo : SUBSET Deliveries,
                    cur : Deliveries \cup {Nothing}, ok : BOOLEAN, mail : Mails]
      /\ pass'.pc # "record"
      /\ Unrecorded' \subseteq pass.todo
      /\ pass'.pc # "idle" => pass'.cur \in Deliveries /\ pass'.cur \notin pass'.todo
  <2>1. CASE Take(pass.todo, pass.mail)
    BY <1>1, <2>1, TakeIs
  <2>2. CASE pass' = Idle
    BY <2>2 DEF Idle, Unrecorded, Mails
  <2>3. QED
    BY <2>1, <2>2
<1>3. /\ \A d \in Deliveries : d # pass.cur => delivery'[d] = delivery[d]
      /\ delivery'[pass.cur] = Settled(delivery[pass.cur], pass.ok)
      /\ delivery' = [d \in Deliveries |-> delivery'[d]]
  BY <1>1 DEF QueueTypeOK
<1>4. /\ delivery'[pass.cur] \in DeliveryRow
      /\ delivery'[pass.cur].status \in {"delivered", "dead", "waiting"}
      /\ delivery'[pass.cur].status = "delivered" <=> pass.ok
      /\ delivery'[pass.cur].status = "waiting" => delivery'[pass.cur].attempts < MaxAttempts
      /\ delivery'[pass.cur].received = delivery[pass.cur].received
      /\ delivery'[pass.cur].doubts = delivery[pass.cur].doubts
  BY <1>1, <1>3, SettledIs
<1>5. QueueTypeOK'
  <2>1. delivery' \in [Deliveries -> DeliveryRow]
    BY <1>1, <1>3, <1>4
  <2>2. QED
    BY <1>2, <2>1 DEF QueueTypeOK, Mails, chainVars
<1>6. PassInv'
  BY <1>1, <1>2, <1>3 DEF PassInv, Unrecorded, Has
<1>7. CountInv'
  <2>1. \A d \in Deliveries : delivery[d].doubts \in Nat /\ delivery[d].doubts <= mishaps
    BY <1>1 DEF DeliveryInv, CountInv, DeliveryRow
  <2>2. \A d \in Deliveries : delivery'[d].doubts = delivery[d].doubts
    BY <1>3, <1>4
  <2>3. QED
    BY <1>1, <1>3, <1>4, <2>1, <2>2 DEF DeliveryInv, CountInv, Has
<1>8. ReceivedInv'
  <2>1. \A d \in Deliveries : d # pass.cur => (Known(d)' <=> Known(d))
    BY <1>2, <1>3 DEF Known, Has
  <2>2. \A d \in Deliveries : d = pass.cur => (Known(d)' <=> Known(d))
    BY <1>1, <1>2, <1>4 DEF Known, Has
  <2>3. \A d \in Deliveries :
          /\ delivery'[d].received = delivery[d].received
          /\ delivery'[d].doubts = delivery[d].doubts
    BY <1>3, <1>4
  <2>4. \A d \in Deliveries : Has(d, {"delivered"})' => delivery'[d].received >= 1
    BY <1>1, <1>3, <1>4, <2>3 DEF DeliveryInv, ReceivedInv, Has
  <2>5. QED
    BY <1>2, <2>1, <2>2, <2>3, <2>4 DEF DeliveryInv, ReceivedInv, Has
<1>9. \A d \in Deliveries : Has(d, {"none"})' <=> Has(d, {"none"})
  BY <1>1, <1>3, <1>4 DEF Has
<1>10. WindowInv'
  BY <1>1, <1>3, <1>4, WindowKept DEF Has
<1>11. QED
  BY <1>5, <1>6, <1>7, <1>8, <1>9, <1>10, Quiet DEF DeliveryInv

(* A record settles the row in hand, whether or not the pass goes on. *)
LEMMA RecordNext ==
    ASSUME AllInv, Next, Record \/ RecordLast, UNCHANGED <<chainVars, alertVars>>
    PROVE  AllInv'
<1>1. mishaps \in 0 .. MaxMishaps /\ MaxMishaps \in Nat
  BY QueueAssumption DEF AllInv, TypeInv, QueueTypeOK
<1>2. CASE Record
  BY <1>1, <1>2, Settle DEF Record
<1>3. CASE RecordLast
  BY <1>1, <1>3, Settle DEF RecordLast
<1>4. QED
  BY <1>2, <1>3

(* What was sent and is never recorded is in doubt. *)
LEMMA LoseNext ==
    ASSUME AllInv, Next, LoseBatch, UNCHANGED <<chainVars, alertVars>>
    PROVE  AllInv'
<1> USE DEF AllInv, TypeInv, LoseBatch
<1>1. /\ pass.cur \in Deliveries /\ delivery[pass.cur].status = "pending"
      /\ \A d \in Deliveries : delivery[d] \in DeliveryRow
      /\ mishaps \in 0 .. MaxMishaps /\ mishaps < MaxMishaps /\ MaxMishaps \in Nat
  BY QueueAssumption DEF DeliveryInv, PassInv, Unrecorded, Has, QueueTypeOK
<1>2. /\ mishaps' = mishaps + 1 /\ mishaps' \in 0 .. MaxMishaps
      /\ pass' = Idle /\ pass'.pc = "idle" /\ pass'.todo = {}
  BY <1>1 DEF Idle
<1>3. /\ \A d \in Deliveries : d # pass.cur => delivery'[d] = delivery[d]
      /\ delivery' = [d \in Deliveries |-> delivery'[d]]
      /\ IF pass.pc = "record" /\ pass.ok
         THEN delivery'[pass.cur] = [delivery[pass.cur] EXCEPT !.doubts = @ + 1]
         ELSE delivery'[pass.cur] = delivery[pass.cur]
  BY <1>1 DEF QueueTypeOK
<1>4. delivery[pass.cur].doubts \in Nat /\ delivery[pass.cur].doubts <= mishaps
  BY <1>1 DEF DeliveryInv, CountInv, DeliveryRow
<1>5. /\ delivery'[pass.cur] \in DeliveryRow
      /\ delivery'[pass.cur].status = "pending"
      /\ delivery'[pass.cur].attempts = delivery[pass.cur].attempts
      /\ delivery'[pass.cur].received = delivery[pass.cur].received
      /\ delivery'[pass.cur].doubts =
           delivery[pass.cur].doubts + (IF pass.pc = "record" /\ pass.ok THEN 1 ELSE 0)
  <2>1. delivery[pass.cur] \in DeliveryRow
    BY <1>1
  <2>2. CASE pass.pc = "record" /\ pass.ok
    <3>1. delivery[pass.cur].doubts + 1 \in 0 .. MaxMishaps
      BY <1>1, <1>4
    <3>2. QED
      BY <1>1, <1>3, <2>1, <2>2, <3>1 DEF DeliveryRow
  <2>3. CASE ~(pass.pc = "record" /\ pass.ok)
    BY <1>1, <1>3, <1>4, <2>1, <2>3
  <2>4. QED
    BY <2>2, <2>3
<1>6. QueueTypeOK'
  <2>1. delivery' \in [Deliveries -> DeliveryRow]
    BY <1>1, <1>3, <1>5
  <2>2. QED
    BY <1>2, <2>1 DEF QueueTypeOK, Idle, chainVars
<1>7. PassInv'
  BY <1>2 DEF PassInv, Unrecorded
<1>8. CountInv'
  <2>1. \A d \in Deliveries : d # pass.cur =>
          /\ Has(d, {"pending", "waiting"})' => delivery'[d].attempts < MaxAttempts
          /\ delivery'[d].doubts <= mishaps'
    <3>1. \A d \in Deliveries : delivery[d].doubts \in Nat /\ delivery[d].doubts <= mishaps
      BY <1>1 DEF DeliveryInv, CountInv, DeliveryRow
    <3>2. QED
      BY <1>1, <1>2, <1>3, <3>1 DEF DeliveryInv, CountInv, Has
  <2>2. delivery'[pass.cur].attempts < MaxAttempts /\ delivery'[pass.cur].doubts <= mishaps'
    BY <1>1, <1>2, <1>4, <1>5 DEF DeliveryInv, CountInv, Has
  <2>3. QED
    BY <2>1, <2>2 DEF CountInv
<1>9. ReceivedInv'
  <2>1. \A d \in Deliveries : d # pass.cur => (Known(d)' <=> Known(d))
    BY <1>2, <1>3 DEF Known, Has
  <2>2. \A d \in Deliveries : d = pass.cur =>
          /\ ~Known(d)' /\ ~Has(d, {"delivered"})'
          /\ Known(d) <=> pass.pc = "record" /\ pass.ok
    BY <1>1, <1>2, <1>5 DEF Known, Has
  <2>3. delivery'[pass.cur].received <= delivery'[pass.cur].doubts
    <3>1. delivery[pass.cur].received \in Nat
      BY <1>1 DEF DeliveryRow
    <3>2. delivery[pass.cur].received
            <= delivery[pass.cur].doubts + (IF pass.pc = "record" /\ pass.ok THEN 1 ELSE 0)
      BY <1>1, <2>2 DEF DeliveryInv, ReceivedInv
    <3>3. QED
      BY <1>4, <1>5, <3>1, <3>2
  <2>4. \A d \in Deliveries : d # pass.cur =>
          /\ delivery'[d].received <= delivery'[d].doubts + (IF Known(d)' THEN 1 ELSE 0)
          /\ Has(d, {"delivered"})' => delivery'[d].received >= 1
    BY <1>3, <2>1 DEF DeliveryInv, ReceivedInv, Has
  <2>5. delivery'[pass.cur].doubts \in Nat
    BY <1>4, <1>5
  <2>6. QED
    BY <1>2, <2>2, <2>3, <2>4, <2>5 DEF ReceivedInv
<1>10. \A d \in Deliveries : Has(d, {"none"})' <=> Has(d, {"none"})
  BY <1>1, <1>3, <1>5 DEF Has
<1>11. WindowInv'
  BY <1>1, <1>3, <1>5, WindowKept DEF Has
<1>12. QED
  BY <1>6, <1>7, <1>8, <1>9, <1>10, <1>11, Quiet DEF DeliveryInv

(* A row outside the pass changes its status and nothing else. *)
LEMMA Restate ==
    ASSUME AllInv, Next, UNCHANGED <<chainVars, alertVars, cursor, window, relay, pass, mishaps>>,
           NEW d \in Deliveries, NEW to \in Status,
           delivery' = [delivery EXCEPT ![d].status = to],
           \/ Has(d, {"waiting"}) /\ to = "pending"
           \/ Has(d, {"delivered", "dead"}) /\ to = "gone" /\ TwoDaysOld(d)
    PROVE  AllInv'
<1> USE DEF AllInv, TypeInv
<1>1. \A c \in Deliveries : delivery[c] \in DeliveryRow
  BY DEF QueueTypeOK
<1>2. /\ \A c \in Deliveries : c # d => delivery'[c] = delivery[c]
      /\ delivery' = [c \in Deliveries |-> delivery'[c]]
      /\ delivery'[d] = [delivery[d] EXCEPT !.status = to]
  BY DEF QueueTypeOK
<1>3. /\ delivery'[d] \in DeliveryRow /\ delivery'[d].status = to
      /\ delivery'[d].attempts = delivery[d].attempts
      /\ delivery'[d].received = delivery[d].received
      /\ delivery'[d].doubts = delivery[d].doubts
  BY <1>1, <1>2 DEF DeliveryRow
<1>4. d \notin Unrecorded /\ delivery[d].status \notin {"none", "pending"} /\ to # "none"
  BY DEF DeliveryInv, PassInv, Has
<1>5. QueueTypeOK'
  <2>1. delivery' \in [Deliveries -> DeliveryRow]
    BY <1>1, <1>2, <1>3
  <2>2. QED
    BY <2>1 DEF QueueTypeOK, chainVars
<1>6. PassInv'
  BY <1>2, <1>4 DEF DeliveryInv, PassInv, Unrecorded, Has, QueueTypeOK
<1>7. CountInv'
  BY <1>2, <1>3 DEF DeliveryInv, CountInv, Has
<1>8. ReceivedInv'
  <2>1. \A c \in Deliveries : c # d => (Known(c)' <=> Known(c))
    BY <1>2 DEF Known, Has
  <2>2. ~(pass.pc = "record" /\ pass.cur = d)
    BY <1>4 DEF Unrecorded
  <2>3. Known(d) => Known(d)'
    BY <1>3, <2>2 DEF Known, Has
  <2>4. /\ delivery'[d].received <= delivery'[d].doubts + (IF Known(d)' THEN 1 ELSE 0)
        /\ ~Has(d, {"delivered"})'
    <3>1. delivery[d].received \in Nat /\ delivery[d].doubts \in Nat
      BY <1>1 DEF DeliveryRow
    <3>2. QED
      BY <1>3, <2>3, <3>1 DEF DeliveryInv, ReceivedInv, Has
  <2>5. \A c \in Deliveries : c # d =>
          /\ delivery'[c].received <= delivery'[c].doubts + (IF Known(c)' THEN 1 ELSE 0)
          /\ Has(c, {"delivered"})' \/ (pass.pc = "record" /\ pass.cur = c /\ pass.ok) =>
               delivery'[c].received >= 1
    BY <1>2, <2>1 DEF DeliveryInv, ReceivedInv, Has
  <2>6. QED
    BY <2>2, <2>4, <2>5 DEF ReceivedInv
<1>9. \A c \in Deliveries : Has(c, {"none"})' <=> Has(c, {"none"})
  BY <1>2, <1>3, <1>4 DEF Has
<1>10. WindowInv'
  BY <1>2, <1>3 DEF DeliveryInv, WindowInv, TwoDaysOld, Has
<1>11. QED
  BY <1>5, <1>6, <1>7, <1>8, <1>9, <1>10, Quiet DEF DeliveryInv

(* A task event queues new rows, or, for an assignment, one in place of a row   *)
(* that was deleted.                                                         *)
LEMMA TaskNext ==
    ASSUME AllInv, Next, TaskAssigned \/ RaiseTaskEvents, UNCHANGED <<chainVars, alertVars>>
    PROVE  AllInv'
<1>1. PICK S : /\ Source(S) /\ delivery' = Queued(S)
               /\ S \subseteq TaskEvents
  BY DEF TaskAssigned, RaiseTaskEvents, Source, TaskEvents
<1>2. /\ UNCHANGED <<cursor, alert, window, relay, pass, mishaps>>
      /\ cursor' \in Nat /\ cursor' <= head'.seq
  BY DEF TaskAssigned, RaiseTaskEvents, AllInv, TypeInv, QueueTypeOK, chainVars
<1>3. QueueTypeOK' /\ DeliveryInv'
  BY <1>1, <1>2, Enqueue
<1>4. AlertTypeOK'
  BY DEF AllInv, TypeInv, AlertTypeOK
<1>5. \A d \in Deliveries :
        \/ delivery'[d] = delivery[d]
        \/ d[2] \in TaskEvents /\ ~Has(d, {"none"})'
  BY <1>1, QueuedIs, FreshRow DEF Has
<1>6. SourceInv'
  <2> SUFFICES ASSUME NEW d \in Deliveries, ~Has(d, {"none"})'
               PROVE  /\ d[2] \in Events => \E r \in rows : r.event = d[2] /\ r.seq <= cursor
                      /\ d[2] \in Alerts => alert[d[2]].status = "sent"
    BY <1>2 DEF SourceInv, chainVars
  <2>1. CASE d[2] \in TaskEvents
    BY <2>1, QueueAssumption
  <2>2. CASE delivery'[d] = delivery[d]
    BY <2>2 DEF AllInv, SourceInv, Has
  <2>3. QED
    BY <1>5, <2>1, <2>2
<1>7. \A d \in Deliveries : ~Has(d, {"none"}) => ~Has(d, {"none"})'
  BY <1>5 DEF Has
<1>8. NothingMissed'
  <2>1. \A r \in rows, e \in Endpoints : <<e, r.event>> \in Wants => <<e, r.event>> \in Deliveries
    BY QueueAssumption
  <2>2. QED
    BY <1>2, <1>7, <2>1 DEF AllInv, NothingMissed, chainVars
<1>9. AlertsAccountedFor'
  <2>1. \A l \in Alerts, e \in Endpoints : <<e, l>> \in Deliveries
    BY DEF Deliveries, Sources
  <2>2. QED
    BY <1>7, <2>1 DEF AllInv, AlertsAccountedFor, Hears
<1>10. QED
  BY <1>3, <1>4, <1>6, <1>8, <1>9, ChainStep, RowsGrow DEF AllInv, TypeInv

(* A day that is over stays over. *)
LEMMA DueDateNext ==
    ASSUME AllInv, Next, NEW o \in Overdue, DueDate(o), UNCHANGED <<chainVars, alertVars>>
    PROVE  AllInv'
<1> USE DEF AllInv, TypeInv
<1>1. /\ window' \in [Overdue -> {"ahead", "open", "past"}]
      /\ \A q \in Overdue : window[q] = "past" => window'[q] = "past"
      /\ UNCHANGED <<cursor, delivery, relay, pass, mishaps>>
  BY DEF DueDate, QueueTypeOK
<1>2. QueueTypeOK'
  BY <1>1 DEF QueueTypeOK, chainVars
<1>3. DeliveryInv'
  BY <1>1 DEF DeliveryInv, PassInv, Unrecorded, CountInv, ReceivedInv, Known, WindowInv, Has
<1>4. \A d \in Deliveries : Has(d, {"none"})' <=> Has(d, {"none"})
  BY <1>1 DEF Has
<1>5. QED
  BY <1>1, <1>2, <1>3, <1>4, Quiet

(* The relay decides what is claimed next and nothing else. *)
LEMMA RelayNext ==
    ASSUME AllInv, Next, SwitchRelay, UNCHANGED <<chainVars, alertVars>>
    PROVE  AllInv'
<1> USE DEF AllInv, TypeInv, SwitchRelay
<1>1. QueueTypeOK'
  BY DEF QueueTypeOK, chainVars
<1>2. DeliveryInv'
  BY DEF DeliveryInv, PassInv, Unrecorded, CountInv, ReceivedInv, Known, WindowInv, Has
<1>3. \A d \in Deliveries : Has(d, {"none"})' <=> Has(d, {"none"})
  BY DEF Has
<1>4. QED
  BY <1>1, <1>2, <1>3, Quiet

(* Every step of the queue keeps the invariant. *)
LEMMA QueueStep ==
    ASSUME AllInv, Next, QueueNext, UNCHANGED <<chainVars, alertVars>>
    PROVE  AllInv'
<1>1. ASSUME NEW d \in Deliveries, BackoffOver(d) PROVE AllInv'
  <2>1. "pending" \in Status
    BY DEF Status
  <2>2. QED
    BY <1>1, <2>1, Restate DEF BackoffOver
<1>2. ASSUME NEW d \in Deliveries, Delete(d) PROVE AllInv'
  <2>1. "gone" \in Status
    BY DEF Status
  <2>2. QED
    BY <1>2, <2>1, Restate DEF Delete
<1>3. QED
  BY <1>1, <1>2, FanOutNext, TaskNext, DueDateNext, ClaimNext, SendNext, RecordNext, LoseNext,
     RelayNext
  DEF QueueNext, Deliverer

-----------------------------------------------------------------------------
(* Expiry warnings. *)

(* A step of the alerts that leaves the queue alone, keeps what was sent, and    *)
(* forgets no alert.                                                         *)
LEMMA AlertsKept ==
    ASSUME AllInv, Next, UNCHANGED <<chainVars, cursor, delivery, window, relay, pass>>,
           mishaps' \in 0 .. MaxMishaps, mishaps <= mishaps',
           AlertTypeOK',
           \A l \in Alerts : alert[l].status # "none" => alert'[l] = alert[l],
           \A l \in Alerts : alert[l].status = "none" =>
               \/ alert'[l].status \in {"none", "pending"}
               \/ /\ alert'[l].status = "suppressed"
                  /\ \E k \in Alerts : k < l /\ alert'[k].status # "none"
    PROVE  AllInv'
<1> USE DEF AllInv, TypeInv
<1>1. QueueTypeOK'
  BY DEF QueueTypeOK, chainVars
<1>2. DeliveryInv'
  <2>1. PassInv' /\ ReceivedInv'
    BY DEF DeliveryInv, PassInv, Unrecorded, ReceivedInv, Known, Has
  <2>2. CountInv'
    <3>1. \A d \in Deliveries : delivery[d].doubts \in Nat
      BY DEF QueueTypeOK, DeliveryRow
    <3>2. mishaps \in Nat
      BY DEF QueueTypeOK
    <3>3. QED
      BY <3>1, <3>2 DEF DeliveryInv, CountInv, Has
  <2>3. WindowInv'
    BY WindowKept DEF Has
  <2>4. QED
    BY <2>1, <2>2, <2>3 DEF DeliveryInv
<1>3. SourceInv'
  BY DEF SourceInv, Has, chainVars
<1>4. NothingMissed'
  BY DEF NothingMissed, Has, chainVars
<1>5. AlertsAccountedFor'
  <2> SUFFICES ASSUME NEW l \in Alerts
               PROVE  /\ alert'[l].status = "sent" =>
                           \E e \in Endpoints : ~Has(<<e, l>>, {"none"})'
                      /\ alert'[l].status = "suppressed" =>
                           \/ \E k \in Alerts : k < l /\ alert'[k].status # "none"
                           \/ Hears(l) = {}
    BY DEF AlertsAccountedFor, Hears
  <2>1. CASE alert[l].status # "none"
    <3>1. alert'[l] = alert[l]
      BY <2>1
    <3>2. \A k \in Alerts : alert[k].status # "none" => alert'[k].status # "none"
      OBVIOUS
    <3>3. QED
      BY <3>1, <3>2 DEF AlertsAccountedFor, Has
  <2>2. CASE alert[l].status = "none"
    BY <2>2
  <2>3. QED
    BY <2>1, <2>2
<1>6. QED
  BY <1>1, <1>2, <1>3, <1>4, <1>5, ChainStep, RowsGrow

(* Time, renewals, and passes over the alerts that change none of them. *)
LEMMA CalendarNext ==
    ASSUME AllInv, Next, Day \/ Renew \/ PollAlerts \/ LosePoll, UNCHANGED chainVars
    PROVE  AllInv'
<1> USE AlertAssumption, QueueAssumption DEF AllInv, TypeInv
<1>1. mishaps \in 0 .. MaxMishaps /\ mishaps' \in 0 .. MaxMishaps /\ mishaps <= mishaps'
  BY DEF Day, Renew, PollAlerts, LosePoll, QueueTypeOK
<1>2. UNCHANGED <<cursor, delivery, window, relay, pass, alert>>
  BY DEF Day, Renew, PollAlerts, LosePoll
<1>3. AlertTypeOK'
  <2>1. CASE Day
    BY <2>1 DEF Day, AlertTypeOK
  <2>2. CASE Renew
    BY <2>2 DEF Renew, AlertTypeOK
  <2>3. CASE PollAlerts
    BY <2>3 DEF PollAlerts, AlertTypeOK
  <2>4. CASE LosePoll
    BY <2>4 DEF LosePoll, AlertTypeOK
  <2>5. QED
    BY <2>1, <2>2, <2>3, <2>4
<1>4. QED
  BY <1>1, <1>2, <1>3, AlertsKept

(* A threshold that gives way gives way to a smaller one that is recorded. *)
LEMMA EvaluateNext ==
    ASSUME AllInv, Next, Evaluate, UNCHANGED chainVars
    PROVE  AllInv'
<1> USE AlertAssumption DEF AllInv, TypeInv
<1>1. mishaps \in 0 .. MaxMishaps /\ UNCHANGED <<cursor, delivery, window, relay, pass, mishaps>>
  BY DEF Evaluate, QueueTypeOK
<1>2. /\ Fresh = {l \in Alerts : left <= l /\ alert[l].status = "none"}
      /\ alert' = [l \in Alerts |->
           IF l \notin Fresh THEN alert[l]
           ELSE [status |-> IF \A k \in Fresh : l <= k THEN "pending" ELSE "suppressed",
                 for |-> period]]
      /\ UNCHANGED <<left, period, poll>>
  BY DEF Evaluate, Fresh
<1>3. \A l \in Alerts : alert[l].status # "none" => alert'[l] = alert[l]
  BY <1>2
<1>4. \A l \in Alerts : alert[l].status = "none" =>
        \/ alert'[l].status \in {"none", "pending"}
        \/ /\ alert'[l].status = "suppressed"
           /\ \E k \in Alerts : k < l /\ alert'[k].status # "none"
  <2> SUFFICES ASSUME NEW l \in Fresh
               PROVE  \/ alert'[l].status = "pending"
                      \/ /\ alert'[l].status = "suppressed"
                         /\ \E k \in Alerts : k < l /\ alert'[k].status # "none"
    BY <1>2
  <2>1. \A k \in Fresh : k \in Alerts /\ alert'[k].status \in {"pending", "suppressed"}
    BY <1>2
  <2>2. CASE \A k \in Fresh : l <= k
    BY <1>2, <2>2
  <2>3. ASSUME NEW k \in Fresh, ~(l <= k)
        PROVE  /\ alert'[l].status = "suppressed"
               /\ \E i \in Alerts : i < l /\ alert'[i].status # "none"
    <3>1. k < l
      <4>1. k \in Alerts /\ l \in Alerts
        BY <1>2
      <4>2. k \in Int /\ l \in Int
        BY <4>1
      <4>3. QED
        BY <2>3, <4>2
    <3>2. alert'[l].status = "suppressed"
      BY <1>2, <2>3
    <3>3. QED
      BY <2>1, <3>1, <3>2
  <2>4. QED
    BY <2>2, <2>3
<1>5. AlertTypeOK'
  <2>1. alert' \in [Alerts -> [status : {"none", "pending", "sent", "suppressed"},
                               for : 0 .. MaxPeriod]]
    BY <1>2 DEF AlertTypeOK
  <2>2. poll' \subseteq {l \in Alerts : alert'[l].status = "pending"}
    BY <1>2, <1>3 DEF AlertTypeOK
  <2>3. QED
    BY <1>2, <2>1, <2>2 DEF AlertTypeOK
<1>6. mishaps' \in 0 .. MaxMishaps /\ mishaps <= mishaps'
  BY <1>1, QueueAssumption
<1>7. QED
  BY <1>1, <1>3, <1>4, <1>5, <1>6, AlertsKept

(* A warning is put on the queue and recorded in one step. *)
LEMMA QueueAlertNext ==
    ASSUME AllInv, Next, NEW l \in Alerts, QueueAlert(l), UNCHANGED chainVars
    PROVE  AllInv'
<1> USE DEF AllInv, TypeInv
<1>1. /\ l \in poll /\ alert[l].status = "pending" /\ l \notin Events
      /\ cursor \in Nat /\ cursor <= head.seq
      /\ UNCHANGED <<rows, head, cursor, left, period, window, relay, pass, mishaps>>
  BY QueueAssumption DEF QueueAlert, AlertTypeOK, QueueTypeOK, chainVars
<1>2. Source({l}) /\ delivery' = Queued({l})
  BY <1>1 DEF Source, QueueAlert
<1>3. QueueTypeOK' /\ DeliveryInv'
  BY <1>1, <1>2, Enqueue
<1>4. /\ alert'[l].status = IF Hears(l) # {} THEN "sent" ELSE "suppressed"
      /\ alert'[l].for = alert[l].for
      /\ \A k \in Alerts : k # l => alert'[k] = alert[k]
      /\ alert' \in [Alerts -> [status : {"none", "pending", "sent", "suppressed"},
                                for : 0 .. MaxPeriod]]
  BY DEF QueueAlert, AlertTypeOK
<1>5. AlertTypeOK'
  BY <1>1, <1>4 DEF AlertTypeOK, QueueAlert
<1>6. \A d \in Deliveries :
        /\ ~Has(d, {"none"})' => ~Has(d, {"none"}) \/ (d \in Wants /\ d[2] = l)
        /\ ~Has(d, {"none"}) => ~Has(d, {"none"})'
        /\ d \in Wants /\ d[2] = l => ~Has(d, {"none"})'
  <2> SUFFICES ASSUME NEW d \in Deliveries
               PROVE  /\ ~Has(d, {"none"})' => ~Has(d, {"none"}) \/ (d \in Wants /\ d[2] = l)
                      /\ ~Has(d, {"none"}) => ~Has(d, {"none"})'
                      /\ d \in Wants /\ d[2] = l => ~Has(d, {"none"})'
    OBVIOUS
  <2>1. delivery[d] \in DeliveryRow
    BY DEF QueueTypeOK
  <2>2. IF d \in Wants /\ d[2] \in {l} /\ Has(d, {"none", "gone"})
        THEN delivery'[d] = NewRow ELSE delivery'[d] = delivery[d]
    BY <1>2, QueuedIs
  <2>3. QED
    BY <2>1, <2>2, FreshRow DEF Has
<1>7. SourceInv'
  <2> SUFFICES ASSUME NEW d \in Deliveries, ~Has(d, {"none"})'
               PROVE  /\ d[2] \in Events => \E r \in rows : r.event = d[2] /\ r.seq <= cursor
                      /\ d[2] \in Alerts => alert'[d[2]].status = "sent"
    BY <1>1 DEF SourceInv
  <2>1. CASE d \in Wants /\ d[2] = l
    <3>1. d[1] \in Hears(l)
      BY <2>1 DEF Hears, Deliveries
    <3>2. QED
      BY <1>1, <1>4, <2>1, <3>1
  <2>2. CASE ~Has(d, {"none"})
    <3>1. /\ d[2] \in Events => \E r \in rows : r.event = d[2] /\ r.seq <= cursor
          /\ d[2] \in Alerts => alert[d[2]].status = "sent"
      BY <2>2 DEF SourceInv
    <3>2. QED
      BY <1>1, <1>4, <3>1
  <2>3. QED
    BY <1>6, <2>1, <2>2
<1>8. NothingMissed'
  <2>1. \A r \in rows, e \in Endpoints : <<e, r.event>> \in Wants => <<e, r.event>> \in Deliveries
    BY QueueAssumption
  <2>2. QED
    BY <1>1, <1>6, <2>1 DEF NothingMissed
<1>9. AlertsAccountedFor'
  <2> SUFFICES ASSUME NEW k \in Alerts
               PROVE  /\ alert'[k].status = "sent" =>
                           \E e \in Endpoints : ~Has(<<e, k>>, {"none"})'
                      /\ alert'[k].status = "suppressed" =>
                           \/ \E i \in Alerts : i < k /\ alert'[i].status # "none"
                           \/ Hears(k) = {}
    BY DEF AlertsAccountedFor, Hears
  <2>1. \A e \in Endpoints : <<e, k>> \in Deliveries /\ <<e, k>>[2] = k
    BY DEF Deliveries, Sources
  <2>2. \A i \in Alerts : alert[i].status # "none" => alert'[i].status # "none"
    BY <1>4
  <2>3. CASE k = l
    <3>1. \A e \in Hears(l) : e \in Endpoints /\ <<e, l>> \in Wants
      BY DEF Hears
    <3>2. QED
      BY <1>4, <1>6, <2>1, <2>3, <3>1
  <2>4. CASE k # l
    BY <1>4, <1>6, <2>1, <2>2, <2>4 DEF AlertsAccountedFor
  <2>5. QED
    BY <2>3, <2>4
<1>10. QED
  BY <1>3, <1>5, <1>7, <1>8, <1>9, ChainStep, RowsGrow

(* The invariant is inductive. *)
LEMMA AllInvNext == AllInv /\ [Next]_vars => AllInv'
<1> SUFFICES ASSUME AllInv, [Next]_vars PROVE AllInv'
  OBVIOUS
<1>1. CASE Next
  <2>1. CASE Writers /\ UNCHANGED <<queueVars, alertVars>>
    BY <1>1, <2>1, WriteNext
  <2>2. CASE QueueNext /\ UNCHANGED <<chainVars, alertVars>>
    BY <1>1, <2>2, QueueStep
  <2>3. CASE AlertNext /\ UNCHANGED chainVars
    BY <1>1, <2>3, CalendarNext, EvaluateNext, QueueAlertNext DEF AlertNext
  <2>4. QED
    BY <1>1, <2>1, <2>2, <2>3 DEF Next
<1>2. CASE UNCHANGED vars
  <2>1. Inv'
    BY <1>2, InvNext DEF AllInv, vars
  <2>2. RowInv' /\ TypeInv' /\ SourceInv'
    BY <1>2 DEF vars, chainVars, AllInv, RowInv, Committed, TypeInv, QueueTypeOK, AlertTypeOK,
                SourceInv, Has
  <2>3. DeliveryInv'
    BY <1>2 DEF vars, AllInv, DeliveryInv, PassInv, Unrecorded, CountInv, ReceivedInv, Known, WindowInv, Has
  <2>4. NothingMissed' /\ AlertsAccountedFor'
    BY <1>2 DEF vars, chainVars, AllInv, NothingMissed, AlertsAccountedFor, Hears, Has
  <2>5. QED
    BY <2>1, <2>2, <2>3, <2>4 DEF AllInv
<1>3. QED
  BY <1>1, <1>2

-----------------------------------------------------------------------------
(* The log, the queue and the alerts have their types. *)
THEOREM OutboundTypeCorrect == Spec => []TypeOK
<1>1. AllInv => TypeOK
  BY DEF AllInv, Inv, TypeInv, TypeOK
<1>2. QED
  BY <1>1, AllInvInit, AllInvNext, PTL DEF Spec

(* However operations overlap and in batches of any size, the cursor passes no   *)
(* event that a destination wants without queueing it (fan_out_notifications).*)
THEOREM NoEventIsMissed == Spec => []NothingMissed
<1>1. AllInv => NothingMissed
  BY DEF AllInv
<1>2. QED
  BY <1>1, AllInvInit, AllInvNext, PTL DEF Spec

(* With any number of refusals, late answers, lost records and crashes, a        *)
(* destination receives a delivery once and once more for each mishap of that  *)
(* delivery (claim_notifications, record_notification_delivery).               *)
THEOREM RepeatsAreMishaps == Spec => []TwiceOnlyByMishap
<1>1. AllInv => TwiceOnlyByMishap
  <2> SUFFICES ASSUME AllInv, NEW d \in Deliveries
               PROVE  /\ delivery[d].received <= 1 + delivery[d].doubts
                      /\ Has(d, {"delivered"}) => delivery[d].received >= 1
    BY DEF TwiceOnlyByMishap
  <2>1. delivery[d].received \in Nat /\ delivery[d].doubts \in Nat
    BY DEF AllInv, TypeInv, QueueTypeOK, DeliveryRow
  <2>2. /\ delivery[d].received <= delivery[d].doubts + (IF Known(d) THEN 1 ELSE 0)
        /\ Has(d, {"delivered"}) => delivery[d].received >= 1
    BY DEF AllInv, DeliveryInv, ReceivedInv
  <2>3. QED
    BY <2>1, <2>2
<1>2. QED
  BY <1>1, AllInvInit, AllInvNext, PTL DEF Spec

(* A warning recorded as sent is on the queue, whatever fails between the passes *)
(* (enqueue_notification and record_alert_delivery in one transaction).       *)
THEOREM WarningsAreAccountedFor == Spec => []AlertsAccountedFor
<1>1. AllInv => AlertsAccountedFor
  BY DEF AllInv
<1>2. QED
  BY <1>1, AllInvInit, AllInvNext, PTL DEF Spec

(* No step brings back what was settled, or sends it: a pass only touches the    *)
(* row in hand, which is pending, and what is queued is new or an assignment.  *)
LEMMA SettledStays ==
    ASSUME AllInv, Next, NEW d \in Deliveries,
           \/ Has(d, {"delivered", "dead"})
           \/ Has(d, {"gone"}) /\ d[2] \notin Assigned
    PROVE  LeftSettled(d)
<1> USE DEF AllInv, TypeInv, LeftSettled
<1>1. ASSUME NEW S, Source(S), delivery' = Queued(S)
      PROVE  LeftSettled(d)
  <2>1. delivery'[d] = delivery[d]
    BY <1>1, QueuedIs DEF Has
  <2>2. QED
    BY <2>1
<1>2. pass.pc # "idle" => pass.cur \in Deliveries /\ pass.cur # d
  BY DEF DeliveryInv, PassInv, Unrecorded, Has
<1>3. CASE FanOut
  BY <1>1, <1>3 DEF FanOut, Source
<1>4. ASSUME NEW l \in Alerts, QueueAlert(l)
      PROVE  LeftSettled(d)
  BY <1>1, <1>4 DEF QueueAlert, Source
<1>5. CASE TaskAssigned \/ RaiseTaskEvents
  BY <1>1, <1>5 DEF TaskAssigned, RaiseTaskEvents, Source
<1>6. CASE Send
  BY <1>2, <1>6 DEF Send, QueueTypeOK
<1>7. CASE Record \/ RecordLast
  BY <1>2, <1>7 DEF Record, RecordLast, QueueTypeOK
<1>8. CASE LoseBatch
  BY <1>2, <1>8 DEF LoseBatch, QueueTypeOK
<1>9. ASSUME NEW c \in Deliveries, BackoffOver(c) \/ Delete(c)
      PROVE  LeftSettled(d)
  <2>1. CASE BackoffOver(c)
    <3>1. c # d
      BY <2>1 DEF BackoffOver, Has
    <3>2. QED
      BY <2>1, <3>1 DEF BackoffOver, QueueTypeOK
  <2>2. CASE Delete(c)
    <3>1. CASE c = d
      <4>1. delivery[d] \in DeliveryRow
        BY DEF QueueTypeOK
      <4>2. delivery'[d] = [delivery[d] EXCEPT !.status = "gone"]
        BY <2>2, <3>1 DEF Delete, QueueTypeOK
      <4>3. QED
        BY <4>1, <4>2 DEF DeliveryRow
    <3>2. CASE c # d
      BY <2>2, <3>2 DEF Delete, QueueTypeOK
    <3>3. QED
      BY <3>1, <3>2
  <2>3. QED
    BY <1>9, <2>1, <2>2
<1>10. CASE UNCHANGED delivery
  BY <1>10
<1>11. QED
  BY <1>3, <1>4, <1>5, <1>6, <1>7, <1>8, <1>9, <1>10
  DEF Next, QueueNext, Deliverer, AlertNext, Claim, SwitchRelay, DueDate, Day, Renew, Evaluate,
      PollAlerts, LosePoll

(* Whatever is deleted, and however often the log is read and the hourly sweep   *)
(* looks back, a settled delivery is not queued or sent again by the pass, by    *)
(* the fan-out or by an alert, and an assignment not as long as its row is kept  *)
(* (archive_notifications, delete_archived_notifications: 1220:16-22).  Passes   *)
(* run one at a time: a second one beside a lost lock is not covered.          *)
THEOREM NothingIsRequeued == Spec => NeverRequeued
<1>1. AllInv /\ [Next]_vars =>
        [\A d \in Deliveries :
            \/ Has(d, {"delivered", "dead"})
            \/ Has(d, {"gone"}) /\ d[2] \notin Assigned
            => LeftSettled(d)]_delivery
  BY SettledStays DEF vars
<1>2. QED
  BY <1>1, AllInvInit, AllInvNext, PTL DEF Spec, NeverRequeued
=============================================================================
