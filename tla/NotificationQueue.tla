-------------------------- MODULE NotificationQueue --------------------------
(***************************************************************************)
(* The notification queue of one tenant: the fan-out that reads the audit   *)
(* log from a cursor and queues one delivery per destination and event      *)
(* (db/sql/0420, 0700), the task events that are queued beside it (0870),    *)
(* and the pass that claims due deliveries without marking them, sends each  *)
(* and records each in a transaction of its own                             *)
(* (src/src/workers/notifications.ts).  The job's advisory lock is          *)
(* WorkerRuntime's matter: here there is one pass at a time.                *)
(***************************************************************************)
EXTENDS AuditChain, FiniteSets

CONSTANTS
    Endpoints,    \* destinations, switched on
    Mail,         \* those that need the mail relay
    Alerts,       \* expiry alerts: sources that are not in the audit log
    Assigned,     \* task.assigned: one source for each run and person
    Overdue,      \* task.overdue: one source for each step and due date
    Wants,        \* <<endpoint, source>>: what a destination subscribes to
    FanoutBatch,  \* rows one fan-out reads
    MaxAttempts,  \* webhook_endpoint.max_attempts
    MaxMishaps,   \* bound: late answers, lost records and crashes
    Nothing       \* no delivery

TaskEvents == Assigned \cup Overdue
Sources == Events \cup Alerts \cup TaskEvents
Deliveries == Endpoints \X Sources

ASSUME QueueAssumption ==
    /\ Mail \subseteq Endpoints
    /\ Events \cap Alerts = {} /\ (Events \cup Alerts) \cap TaskEvents = {}
    /\ Assigned \cap Overdue = {} /\ Wants \subseteq Deliveries
    /\ FanoutBatch \in Nat \ {0} /\ MaxAttempts \in Nat \ {0} /\ MaxMishaps \in Nat
    /\ Nothing \notin Deliveries

VARIABLES
    cursor,    \* notification_cursor.last_chain_seq
    delivery,  \* webhook_delivery, and what its destination has received
    window,    \* a step's due date: ahead, within the last day, or long past
    relay,     \* smtp_setting.enabled
    pass,      \* the deliver pass: rows claimed, the one in hand, its outcome
    mishaps    \* mishaps so far

queueVars == <<cursor, delivery, window, relay, pass, mishaps>>

(* "waiting" is pending with next_attempt_at in the future; "gone" is deleted. *)
Status == {"none", "pending", "waiting", "delivered", "dead", "gone"}
DeliveryRow ==
    [status : Status, attempts : 0 .. MaxAttempts, received : Nat, doubts : 0 .. MaxMishaps]
Idle == [pc |-> "idle", todo |-> {}, cur |-> Nothing, ok |-> FALSE, mail |-> "unopened"]

QueueTypeOK ==
    /\ cursor \in Nat /\ cursor <= head.seq
    /\ delivery \in [Deliveries -> DeliveryRow]
    /\ window \in [Overdue -> {"ahead", "open", "past"}]
    /\ relay \in BOOLEAN
    /\ pass \in [pc : {"idle", "send", "record"}, todo : SUBSET Deliveries,
                 cur : Deliveries \cup {Nothing}, ok : BOOLEAN,
                 mail : {"unopened", "open", "none"}]
    /\ mishaps \in 0 .. MaxMishaps

QueueInit ==
    /\ cursor = 0
    /\ delivery = [d \in Deliveries |->
                     [status |-> "none", attempts |-> 0, received |-> 0, doubts |-> 0]]
    /\ window = [o \in Overdue |-> "ahead"]
    /\ relay \in BOOLEAN
    /\ pass = Idle
    /\ mishaps = 0

Has(d, S) == delivery[d].status \in S

-----------------------------------------------------------------------------
(* Putting deliveries on the queue. *)

NewRow == [status |-> "pending", attempts |-> 0, received |-> 0, doubts |-> 0]

(* INSERT ... SELECT from the subscribers of the sources in S, ON       *)
(* CONFLICT (endpoint_id, event_uid) DO NOTHING.                              *)
Queued(S) ==
    [d \in Deliveries |->
        IF d \in Wants /\ d[2] \in S /\ Has(d, {"none", "gone"}) THEN NewRow ELSE delivery[d]]

Unread == {r \in rows : r.seq > cursor}

(* ORDER BY chain_seq LIMIT FanoutBatch *)
Candidates ==
    {r \in Unread : Cardinality({q \in Unread : q.seq < r.seq}) < FanoutBatch}

(* Mutant: the cursor goes to the head of the chain. *)
FanOutToHead ==
    /\ Unread # {}
    /\ delivery' = Queued({r.event : r \in Candidates})
    /\ cursor' = head.seq
    /\ UNCHANGED <<window, relay, pass, mishaps>>

(* fan_out_notifications: one transaction, under the lock of the cursor row.   *)
FanOut ==
    /\ Unread # {}
    /\ delivery' = Queued({r.event : r \in Candidates})
    /\ \E r \in Candidates : cursor' = r.seq /\ \A q \in Candidates : q.seq <= r.seq
    /\ UNCHANGED <<window, relay, pass, mishaps>>

(* task_assigned_event: a trigger of the transaction that assigns steps.  The  *)
(* key is the run and the person, so a later step of that run, or the same     *)
(* step given away and back, is the same source again.                       *)
TaskAssigned ==
    /\ \E S \in (SUBSET Assigned) \ {{}} : delivery' = Queued(S)
    /\ UNCHANGED <<cursor, window, relay, pass, mishaps>>

(* raise_task_channel_events, every hour: the steps still to be done whose due  *)
(* date was reached within the last day.                                     *)
RaiseTaskEvents ==
    /\ \E S \in (SUBSET {o \in Overdue : window[o] = "open"}) \ {{}} : delivery' = Queued(S)
    /\ UNCHANGED <<cursor, window, relay, pass, mishaps>>

-----------------------------------------------------------------------------
(* The deliver pass. *)

(* Pending, its time has come, and for mail a relay is configured. *)
Due(d) == Has(d, {"pending"}) /\ (d[1] \in Mail => relay)

(* The next row of the batch, or its end. *)
Take(S, mail) ==
    IF S = {} THEN pass' = Idle
    ELSE \E d \in S : pass' = [pc |-> "send", todo |-> S \ {d}, cur |-> d,
                               ok |-> FALSE, mail |-> mail]

(* notification_backlog and claim_notifications: a read, nothing is marked.    *)
Claim ==
    /\ pass.pc = "idle"
    /\ \E d \in Deliveries : Due(d)
    /\ Take({d \in Deliveries : Due(d)}, "unopened")
    /\ UNCHANGED <<cursor, delivery, window, relay, mishaps>>

(* EmailBatch.open, at the first mail row of a batch; one connection for all. *)
Mailer ==
    IF pass.cur[1] \notin Mail \/ pass.mail # "unopened" THEN pass.mail
    ELSE IF relay THEN "open" ELSE "none"

Reachable == pass.cur[1] \in Mail => Mailer = "open"

Sent(ok) == pass' = [pass EXCEPT !.pc = "record", !.ok = ok, !.mail = Mailer]

(* deliverOne: taken; refused, or no relay; or taken with an answer that came  *)
(* after the timeout, and so reported as failed.                              *)
Send ==
    /\ pass.pc = "send"
    /\ \/ /\ Reachable
          /\ delivery' = [delivery EXCEPT ![pass.cur].received = @ + 1]
          /\ Sent(TRUE)
          /\ UNCHANGED mishaps
       \/ Sent(FALSE) /\ UNCHANGED <<delivery, mishaps>>
       \/ /\ Reachable
          /\ mishaps < MaxMishaps
          /\ mishaps' = mishaps + 1
          /\ delivery' = [delivery EXCEPT ![pass.cur].received = @ + 1,
                                          ![pass.cur].doubts = @ + 1]
          /\ Sent(FALSE)
    /\ UNCHANGED <<cursor, window, relay>>

(* Mutants: a send that succeeded leaves the row in the queue; one attempt too  *)
(* many; attempts without an end.                                            *)
SettledAsFailed(row, ok) ==
    [row EXCEPT !.attempts = @ + 1,
                !.status = IF row.attempts + 1 >= MaxAttempts THEN "dead" ELSE "waiting"]
SettledLate(row, ok) ==
    [row EXCEPT !.attempts = @ + 1,
                !.status = IF ok THEN "delivered"
                           ELSE IF row.attempts >= MaxAttempts THEN "dead" ELSE "waiting"]
SettledNeverDead(row, ok) ==
    [row EXCEPT !.attempts = IF @ < MaxAttempts THEN @ + 1 ELSE @,
                !.status = IF ok THEN "delivered" ELSE "waiting"]

(* record_notification_delivery *)
Settled(row, ok) ==
    [row EXCEPT !.attempts = @ + 1,
                !.status = IF ok THEN "delivered"
                           ELSE IF row.attempts + 1 >= MaxAttempts THEN "dead" ELSE "waiting"]

Record ==
    /\ pass.pc = "record"
    /\ delivery' = [delivery EXCEPT ![pass.cur] = Settled(@, pass.ok)]
    /\ Take(pass.todo, pass.mail)
    /\ UNCHANGED <<cursor, window, relay, mishaps>>

(* The record is the last of this pass: its reply is lost and the catch ends   *)
(* the tenant's batch, or the runtime has been told to stop.                  *)
RecordLast ==
    /\ pass.pc = "record" /\ mishaps < MaxMishaps
    /\ mishaps' = mishaps + 1
    /\ delivery' = [delivery EXCEPT ![pass.cur] = Settled(@, pass.ok)]
    /\ pass' = Idle
    /\ UNCHANGED <<cursor, window, relay>>

(* The transaction of the record fails, or the process dies: what was sent    *)
(* and not recorded will be sent again.                                      *)
LoseBatch ==
    /\ pass.pc # "idle" /\ mishaps < MaxMishaps
    /\ mishaps' = mishaps + 1
    /\ delivery' = IF pass.pc = "record" /\ pass.ok
                   THEN [delivery EXCEPT ![pass.cur].doubts = @ + 1] ELSE delivery
    /\ pass' = Idle
    /\ UNCHANGED <<cursor, window, relay>>

-----------------------------------------------------------------------------
(* Time, and the people who look after destinations. *)

(* next_attempt_at is reached. *)
BackoffOver(d) ==
    /\ Has(d, {"waiting"})
    /\ delivery' = [delivery EXCEPT ![d].status = "pending"]
    /\ UNCHANGED <<cursor, window, relay, pass, mishaps>>

SwitchRelay ==
    /\ relay' = ~relay
    /\ UNCHANGED <<cursor, delivery, window, pass, mishaps>>

(* A step falls due, and a day later the sweep no longer looks at it. *)
DueDate(o) ==
    /\ \/ window[o] = "ahead" /\ window' = [window EXCEPT ![o] = "open"]
       \/ window[o] = "open" /\ window' = [window EXCEPT ![o] = "past"]
    /\ UNCHANGED <<cursor, delivery, relay, pass, mishaps>>

(* Mutant: any archived row may be deleted. *)
AnyAge(d) == TRUE

(* created_at < now() - interval '2 days'.  An overdue step's row is written    *)
(* within a day of its due date, so that day is over by then; nothing dates    *)
(* the others.                                                              *)
TwoDaysOld(d) == d[2] \in Overdue => window[d[2]] = "past"

(* archive_notifications, then delete_archived_notifications: finished         *)
(* deliveries only, and not the newest.                                      *)
Delete(d) ==
    /\ Has(d, {"delivered", "dead"})
    /\ TwoDaysOld(d)
    /\ delivery' = [delivery EXCEPT ![d].status = "gone"]
    /\ UNCHANGED <<cursor, window, relay, pass, mishaps>>

Deliverer == Claim \/ Send \/ Record \/ RecordLast \/ LoseBatch

QueueNext ==
    \/ FanOut \/ TaskAssigned \/ RaiseTaskEvents \/ Deliverer \/ SwitchRelay
    \/ \E o \in Overdue : DueDate(o)
    \/ \E d \in Deliveries : BackoffOver(d) \/ Delete(d)

-----------------------------------------------------------------------------
(* The cursor never passes an event a destination subscribes to without        *)
(* queueing it, though events commit while fan-outs run and their numbers are  *)
(* taken before they commit: "a sequence number cannot skip a row the way      *)
(* 'everything since t' can when two transactions commit out of order" (0420).*)
NothingMissed ==
    \A r \in rows, e \in Endpoints :
        r.seq <= cursor /\ <<e, r.event>> \in Wants => ~Has(<<e, r.event>>, {"none"})

(* The step leaves a delivery settled as it was, or deletes it, and its        *)
(* destination receives nothing more of it.                                  *)
LeftSettled(d) ==
    /\ delivery'[d].status \in {delivery[d].status, "gone"}
    /\ delivery'[d].received = delivery[d].received

(* Nothing is queued or sent again once it was settled, even when the row that *)
(* made it unique has been deleted: the cursor stands for it, or the alert's   *)
(* own record, or for an overdue step the two days ("A row younger than two    *)
(* days is kept even when asked, so clearing the log never re-sends a         *)
(* reminder", 1220).  A task.assigned row is unique only while it is kept:     *)
(* "Older task.assigned keys could in principle collide again ...; that sends *)
(* one more message, which is the right way for that to fail".                *)
NeverRequeued ==
    [][\A d \in Deliveries :
         \/ Has(d, {"delivered", "dead"})
         \/ Has(d, {"gone"}) /\ d[2] \notin Assigned
         => LeftSettled(d)]_delivery

(* A destination hears of a row once, and once more for each answer that came   *)
(* too late and each record lost after its send, of that delivery and no       *)
(* other: a crash after many sends repeats only the one in hand.              *)
TwiceOnlyByMishap ==
    \A d \in Deliveries :
        /\ delivery[d].received <= 1 + delivery[d].doubts
        /\ Has(d, {"delivered"}) => delivery[d].received >= 1
=============================================================================
