---------------------------- MODULE TaskReminders ----------------------------
(***************************************************************************)
(* Reminders about the assigned steps of a run (db/sql/0690, 0700) and the  *)
(* job that mails them (src/src/workers/reminders.ts): raised once per step *)
(* and threshold, claimed by a read, sent, and recorded in a transaction     *)
(* whose failure is taken for a failure of the send.                         *)
(***************************************************************************)
EXTENDS ChecklistRuns

CONSTANTS
    Leads,        \* days before the due date
    MaxAttempts,  \* v_max of record_task_reminder
    NoReminder    \* not a reminder

Kinds == Leads \cup {-1}          \* "'assigned' reminders use -1"
Reminders == Steps \X Kinds

ASSUME ReminderAssumption ==
    /\ Leads \subseteq Nat /\ MaxAttempts \in Nat \ {0}
    /\ NoReminder \notin Reminders

VARIABLES
    reminder,  \* task_reminder, and what its person has received
    pass,      \* the deliver pass: rows claimed, the one in hand, where it is
    relay      \* a relay is configured and enabled (smtp_setting.enabled)

reminderVars == <<reminder, pass, relay>>
vars == <<scheduleVars, runVars, reminderVars>>

Off == [pc |-> "idle", todo |-> {}, cur |-> NoReminder]

TypeOK ==
    /\ RunsTypeOK
    /\ reminder \in [Reminders ->
         [status : {"none", "pending", "waiting", "sent", "dead", "suppressed"},
          user : People \cup {Nobody}, attempts : Nat, received : Nat, doubts : Nat]]
    /\ pass \in [pc : {"idle", "send", "sent", "failed"}, todo : SUBSET Reminders,
                 cur : Reminders \cup {NoReminder}]
    /\ relay \in BOOLEAN

Init ==
    /\ RunsInit
    /\ reminder = [r \in Reminders |->
         [status |-> "none", user |-> Nobody, attempts |-> 0, received |-> 0, doubts |-> 0]]
    /\ pass = Off
    /\ relay \in BOOLEAN

Is(r, S) == reminder[r].status \in S

-----------------------------------------------------------------------------
(* Raising: with an assignment, and by the hourly sweep. *)

(* Mutant: a reminder that was raised is raised again. *)
InsertedAgain(new) ==
    [r \in Reminders |->
        IF r \in DOMAIN new
        THEN [reminder[r] EXCEPT !.status = new[r].status, !.user = new[r].user,
                                 !.attempts = 0]
        ELSE reminder[r]]

(* INSERT of the rows `new`; ON CONFLICT (step, kind, threshold) DO NOTHING. *)
Inserted(new) ==
    [r \in Reminders |->
        IF r \in DOMAIN new /\ Is(r, {"none"})
        THEN [reminder[r] EXCEPT !.status = new[r].status, !.user = new[r].user]
        ELSE reminder[r]]

(* raise_assignment_reminder, in the transaction that assigns step s to `to`;   *)
(* not for somebody who gave it to themselves.                               *)
Assigned(s, to, by) ==
    IF to \in {Nobody, by} THEN reminder
    ELSE Inserted([r \in {<<s, -1>>} |-> [status |-> "pending", user |-> to]])

(* suppress_reminders_for_step *)
Suppressed(s) ==
    [r \in Reminders |->
        IF r[1] = s /\ Is(r, {"pending", "waiting"})
        THEN [reminder[r] EXCEPT !.status = "suppressed"] ELSE reminder[r]]

RaiseRun(w) ==
    /\ Raise(w)
    /\ reminder' = IF run # "none" \/ ~published THEN reminder
                   ELSE Inserted([r \in {q \in Reminders : q[2] = -1 /\ step'[q[1]].who # Nobody} |->
                                    [status |-> "pending", user |-> step'[r[1]].who]])
    /\ UNCHANGED <<pass, relay>>

PatchStep(p, s) ==
    /\ WriteStep(p, s)
    /\ reminder' = CASE request[p].do = "assign" -> Assigned(s, request[p].to, p)
                     [] request[p].do = "done" -> Suppressed(s)
                     [] OTHER -> reminder
    /\ UNCHANGED <<pass, relay>>

(* Thresholds step s has crossed. *)
Crossed(s) == {l \in Leads : step[s].due <= today + l}

Wanted(s) ==
    /\ run = "in_progress"
    /\ step[s].who # Nobody /\ step[s].status = "pending"

(* raise_task_reminders: of the thresholds crossed the smallest is to be sent,  *)
(* the others are recorded as suppressed.  It asks for no relay: "a reminder    *)
(* raised without one simply sits `pending`" (0700).                          *)
Sweep ==
    LET M == {r \in Reminders : Wanted(r[1]) /\ r[2] \in Crossed(r[1])}
    IN  /\ \E r \in M : Is(r, {"none"})
        /\ reminder' = Inserted([r \in M |->
              [status |-> IF \A l \in Crossed(r[1]) : r[2] <= l THEN "pending" ELSE "suppressed",
               user |-> step[r[1]].who]])
        /\ UNCHANGED <<scheduleVars, runVars, pass, relay>>

-----------------------------------------------------------------------------
(* Delivering. *)

(* set_smtp_setting *)
SwitchRelay ==
    /\ Counted
    /\ relay' = ~relay
    /\ UNCHANGED <<scheduleVars, run, step, request, reminder, pass>>

Due(r) == Is(r, {"pending"}) /\ step[r[1]].status = "pending"

Take(S) ==
    IF S = {} THEN pass' = Off
    ELSE \E r \in S : pass' = [pc |-> "send", todo |-> S \ {r}, cur |-> r]

(* email_backlog names tenants whose relay is enabled, and EmailBatch.open asks *)
(* once more; the connection it opens serves the batch.  claim_task_reminders   *)
(* is a read, nothing is marked.                                             *)
Claim ==
    /\ pass.pc = "idle" /\ relay
    /\ \E r \in Reminders : Due(r)
    /\ Take({r \in Reminders : Due(r)})
    /\ UNCHANGED <<scheduleVars, runVars, reminder, relay>>

Then(pc) == pass' = [pass EXCEPT !.pc = pc]

Received(doubt) ==
    reminder' = [reminder EXCEPT ![pass.cur].received = @ + 1, ![pass.cur].doubts = @ + doubt]

(* batch.send: taken; refused; or taken with an answer that came too late. *)
Send ==
    /\ pass.pc = "send"
    /\ \/ Received(0) /\ Then("sent") /\ UNCHANGED events
       \/ Then("failed") /\ UNCHANGED <<reminder, events>>
       \/ Received(1) /\ Then("failed") /\ Counted
    /\ UNCHANGED <<scheduleVars, run, step, request, relay>>

(* Mutant: a row is retried for ever. *)
SettledNeverDead(row, ok) ==
    [row EXCEPT !.attempts = IF @ < MaxAttempts THEN @ + 1 ELSE @,
                !.status = IF ok THEN "sent" ELSE "waiting"]

(* record_task_reminder: whatever the row's status has become meanwhile. *)
Settled(row, ok) ==
    [row EXCEPT !.attempts = @ + 1,
                !.status = IF ok THEN "sent"
                           ELSE IF row.attempts + 1 >= MaxAttempts THEN "dead" ELSE "waiting"]

Record ==
    /\ pass.pc \in {"sent", "failed"}
    /\ reminder' = [reminder EXCEPT ![pass.cur] = Settled(@, pass.pc = "sent")]
    /\ Take(pass.todo)
    /\ UNCHANGED <<scheduleVars, runVars, relay>>

(* The transaction that records a send fails, or only its reply is lost: the   *)
(* same catch that takes a refusal records a failure.                        *)
RecordFails ==
    /\ pass.pc = "sent"
    /\ Counted
    /\ \E row \in {reminder[pass.cur], Settled(reminder[pass.cur], TRUE)} :
         reminder' = [reminder EXCEPT ![pass.cur] = [row EXCEPT !.doubts = row.doubts + 1]]
    /\ Then("failed")
    /\ UNCHANGED <<scheduleVars, run, step, request, relay>>

(* The runtime dies, is told to stop, or cannot record a failure. *)
LoseBatch ==
    /\ pass.pc # "idle"
    /\ Counted
    /\ reminder' = IF pass.pc = "sent" THEN [reminder EXCEPT ![pass.cur].doubts = @ + 1]
                                       ELSE reminder
    /\ pass' = Off
    /\ UNCHANGED <<scheduleVars, run, step, request, relay>>

BackoffOver(r) ==
    /\ Is(r, {"waiting"})
    /\ reminder' = [reminder EXCEPT ![r].status = "pending"]
    /\ UNCHANGED <<scheduleVars, runVars, pass, relay>>

-----------------------------------------------------------------------------
ScheduleStep ==
    \/ NextDay \/ Pause \/ Publish
    \/ \E w \in Raisers : ReadSlot(w) \/ RaiseFails(w)

RunStep ==
    \E p \in People :
        \/ AskComplete(p) \/ AskAbandon(p) \/ Complete(p) \/ Abandon(p) \/ GiveUp(p)
        \/ \E s \in Steps : AskStep(p, s)

Next ==
    \/ (ScheduleStep \/ RunStep) /\ UNCHANGED reminderVars
    \/ \E w \in Raisers : RaiseRun(w)
    \/ \E p \in People, s \in Steps : PatchStep(p, s)
    \/ Sweep \/ SwitchRelay \/ Claim \/ Send \/ Record \/ RecordFails \/ LoseBatch
    \/ \E r \in Reminders : BackoffOver(r)

Spec == Init /\ [][Next]_vars

(* The jobs keep being started and a raise that began ends; what people do,     *)
(* whether there is a relay and whether it answers is left open.             *)
Fairness ==
    /\ WF_vars((\E w \in Raisers : ReadSlot(w)) /\ UNCHANGED reminderVars)
    /\ WF_vars(\E w \in Raisers : RaiseRun(w))
    /\ WF_vars(Sweep)
    /\ WF_vars(Claim \/ Send \/ Record)
    /\ WF_vars(\E r \in Reminders : BackoffOver(r))

FairSpec == Spec /\ Fairness

-----------------------------------------------------------------------------
(* "one reminder per step per kind per threshold, forever" (0690): a message    *)
(* goes out once, and once more for each answer that came too late and each    *)
(* record of it that was lost.                                               *)
RemindedOnce ==
    \A r \in Reminders :
        /\ reminder[r].received <= 1 + reminder[r].doubts
        /\ Is(r, {"sent"}) => reminder[r].received >= 1

(* A step that falls due and is somebody's is mailed about, or given up after   *)
(* MaxAttempts, unless it is finished, or was once (its reminders stay          *)
(* suppressed when it is reopened), its run ends, or there is no relay:         *)
(* without one the reminder sits pending.                                    *)
RemindersSettle ==
    \A s \in Steps :
        (Wanted(s) /\ 0 \in Crossed(s)) ~>
            Is(<<s, 0>>, {"sent", "dead", "suppressed"}) \/ ~Wanted(s) \/ ~relay
=============================================================================
