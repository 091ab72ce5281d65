------------------------- MODULE TaskReminders_proofs -------------------------
(***************************************************************************)
(* Proofs about ChecklistRuns and TaskReminders, for any number of runtimes,  *)
(* people, steps, thresholds and days, and every interval.                   *)
(***************************************************************************)
EXTENDS TaskReminders, TLAPS

-----------------------------------------------------------------------------
(* Arithmetic of the schedule. *)

(* The next slot lies ahead, by at most one interval. *)
LEMMA AheadIsAhead ==
    ASSUME NEW now \in Nat, NEW d \in Nat, d <= now
    PROVE  /\ Ahead(d, now) \in Nat \ {0}
           /\ now < Ahead(d, now) /\ Ahead(d, now) <= now + Interval
<1> DEFINE k == (now - d) \div Interval
<1>1. now \in Nat /\ Interval \in Nat \ {0} /\ now - d \in Nat
  BY ChecklistAssumption
<1>2. \A x \in Nat, i \in Nat \ {0} :
        x \div i \in Nat /\ (x \div i) * i <= x /\ x < (x \div i) * i + i
  BY SMTT(30)
<1>3. k \in Nat /\ k * Interval <= now - d /\ now - d < k * Interval + Interval
  BY <1>1, <1>2
<1>4. Interval * (k + 1) = k * Interval + Interval /\ k * Interval \in Nat
  BY <1>1, <1>3
<1>5. Ahead(d, now) = d + (k * Interval + Interval)
  BY <1>4 DEF Ahead
<1> HIDE DEF k
<1>6. QED
  BY <1>1, <1>3, <1>4, <1>5

-----------------------------------------------------------------------------
(* The inductive invariant. *)

(* One transaction at most has read a slot: the next one, which had come when  *)
(* it began.                                                                *)
RaisingInv ==
    /\ \A w \in Raisers : raising[w] # 0 => raising[w] = next /\ next <= began[w] /\ began[w] <= today
    /\ \A v, w \in Raisers : raising[v] # 0 /\ raising[w] # 0 => v = w

(* The rows a deliver pass has still to send. *)
Unsent == pass.todo \cup (IF pass.pc \in {"send", "sent"} THEN {pass.cur} ELSE {})

PassInv ==
    /\ pass.pc # "idle" => pass.cur \in Reminders
    /\ pass.pc = "idle" => pass.todo = {}
    /\ pass.cur \notin pass.todo
    /\ \A r \in Unsent : Is(r, {"pending", "suppressed"})

(* A row whose message has gone out, and of which that is or will be recorded. *)
Known(r) ==
    IF pass.pc \in {"sent", "failed"} /\ pass.cur = r THEN pass.pc = "sent"
                                                     ELSE Is(r, {"sent"})

(* Every other message that went out is one whose fate is in doubt. *)
ReceivedInv ==
    \A r \in Reminders :
        /\ reminder[r].received <= reminder[r].doubts + (IF Known(r) THEN 1 ELSE 0)
        /\ Known(r) \/ Is(r, {"sent"}) => reminder[r].received >= 1

Inv == TypeOK /\ RaisingInv /\ SlotRaisedOnce /\ PassInv /\ ReceivedInv

USE DEF scheduleVars, runVars, reminderVars

(* It holds before the first slot. *)
LEMMA InvInit == Init => Inv
<1> SUFFICES ASSUME Init PROVE Inv
  OBVIOUS
<1> USE ChecklistAssumption, ReminderAssumption DEF Init, RunsInit
<1>1. RunsTypeOK
  BY DEF RunsTypeOK, Idle, Terminal, Slots
<1>2. TypeOK
  BY <1>1 DEF TypeOK, Off
<1>3. RaisingInv /\ SlotRaisedOnce
  BY DEF RaisingInv, SlotRaisedOnce, Slots
<1>4. PassInv
  BY DEF PassInv, Off, Unsent
<1>5. ReceivedInv
  BY DEF ReceivedInv, Known, Off, Is
<1>6. QED
  BY <1>2, <1>3, <1>4, <1>5 DEF Inv

-----------------------------------------------------------------------------
(* The schedule and the run. *)

(* What a step may do to the rows of the schedule and the run keeps their types. *)
LEMMA RunsTypeNext == ASSUME Inv, Next PROVE RunsTypeOK'
<1> USE ChecklistAssumption DEF Inv, TypeOK, RunsTypeOK, Counted, Answered, Idle, Terminal
<1>1. CASE UNCHANGED <<scheduleVars, runVars>>
  BY <1>1
<1>2. CASE UNCHANGED <<scheduleVars, run, step, request>> /\ Counted
  BY <1>2
<1>3. CASE NextDay \/ Pause \/ Publish
  <2>1. CASE NextDay
    BY <2>1 DEF NextDay
  <2>2. CASE Pause
    BY <2>2 DEF Pause
  <2>3. CASE Publish
    BY <2>3 DEF Publish
  <2>4. QED
    BY <1>3, <2>1, <2>2, <2>3
<1>4. ASSUME NEW w \in Raisers, ReadSlot(w) PROVE RunsTypeOK'
  BY <1>4 DEF ReadSlot
<1>5. ASSUME NEW w \in Raisers, RaiseFails(w) PROVE RunsTypeOK'
  BY <1>5 DEF RaiseFails
<1>6. ASSUME NEW w \in Raisers, Raise(w) PROVE RunsTypeOK'
  <2>1. raising[w] \in Slots /\ raising[w] <= began[w] /\ began[w] \in Slots
    BY <1>6 DEF Raise, RaisingInv, Slots
  <2>2. Ahead(raising[w], began[w]) \in Nat \ {0} /\ Ahead(raising[w], began[w]) <= MaxDay + Interval
    <3> DEFINE a == Ahead(raising[w], began[w])
    <3>1. raising[w] \in Nat /\ began[w] \in Nat /\ began[w] <= MaxDay
      BY <2>1 DEF Slots
    <3>2. a \in Nat \ {0} /\ a <= began[w] + Interval
      BY <2>1, <3>1, AheadIsAhead
    <3> HIDE DEF a
    <3>3. a \in Nat \ {0} /\ a <= MaxDay + Interval
      BY <3>1, <3>2
    <3>4. QED
      BY <3>3 DEF a
  <2>3. raised' \in [Slots -> Nat]
    BY <1>6, <2>1 DEF Raise
  <2>4. /\ run' \in {"none", "in_progress"} \cup Terminal
        /\ step' \in [Steps -> [status : {"pending", "done"}, who : People \cup {Nobody},
                                due : Nat]]
    <3>1. raising[w] + DueAfter \in Nat
      BY <2>1 DEF Slots
    <3>2. CASE UNCHANGED <<run, step>>
      BY <3>2
    <3>3. CASE run' = "in_progress" /\ \E who \in People \cup {Nobody} :
                 step' = [s \in Steps |-> [status |-> "pending", who |-> who,
                                           due |-> raising[w] + DueAfter]]
      <4>1. PICK who \in People \cup {Nobody} :
              step' = [s \in Steps |-> [status |-> "pending", who |-> who,
                                        due |-> raising[w] + DueAfter]]
        BY <3>3
      <4>2. [status |-> "pending", who |-> who, due |-> raising[w] + DueAfter]
              \in [status : {"pending", "done"}, who : People \cup {Nobody}, due : Nat]
        BY <3>1
      <4>3. QED
        BY <3>3, <4>1, <4>2
    <3>4. QED
      BY <1>6, <3>2, <3>3 DEF Raise
  <2>5. next' \in Nat \ {0} /\ next' <= MaxDay + Interval
    BY <1>6, <2>2 DEF Raise
  <2>6. QED
    BY <1>6, <2>3, <2>4, <2>5 DEF Raise
<1>7. ASSUME NEW p \in People,
             AskComplete(p) \/ AskAbandon(p) \/ \E s \in Steps : AskStep(p, s)
      PROVE  RunsTypeOK'
  BY <1>7 DEF AskComplete, AskAbandon, AskStep, Ask
<1>8. ASSUME NEW p \in People, Complete(p) \/ Abandon(p) \/ GiveUp(p) PROVE RunsTypeOK'
  BY <1>8 DEF Complete, Abandon, GiveUp
<1>9. ASSUME NEW p \in People, NEW s \in Steps, WriteStep(p, s) PROVE RunsTypeOK'
  <2>1. Written(s, request[p]) \in [status : {"pending", "done"}, who : People \cup {Nobody},
                                    due : Nat]
    BY <1>9 DEF WriteStep, Written
  <2>2. QED
    BY <1>9, <2>1 DEF WriteStep
<1>10. QED
  BY <1>1, <1>2, <1>3, <1>4, <1>5, <1>6, <1>7, <1>8, <1>9
  DEF Next, ScheduleStep, RunStep, RaiseRun, PatchStep, Sweep, Claim, Send, Record,
      RecordFails, LoseBatch, BackoffOver, SwitchRelay

(* A slot is read under the row's lock and advanced with the run it raises. *)
LEMMA SlotsNext == ASSUME Inv, Next PROVE RaisingInv' /\ SlotRaisedOnce'
<1> USE DEF Inv, RaisingInv, SlotRaisedOnce
<1>1. CASE UNCHANGED <<today, next, raising, began, raised>>
  BY <1>1
<1>2. CASE NextDay
  BY <1>2 DEF NextDay, TypeOK, RunsTypeOK, Slots
<1>3. ASSUME NEW w \in Raisers, ReadSlot(w) PROVE RaisingInv' /\ SlotRaisedOnce'
  BY <1>3 DEF ReadSlot, Unlocked, TypeOK, RunsTypeOK
<1>4. ASSUME NEW w \in Raisers, RaiseFails(w) PROVE RaisingInv' /\ SlotRaisedOnce'
  BY <1>4 DEF RaiseFails, TypeOK, RunsTypeOK
<1>5. ASSUME NEW w \in Raisers, Raise(w) PROVE RaisingInv' /\ SlotRaisedOnce'
  <2>1. /\ raising[w] = next /\ next \in Slots /\ next <= began[w]
        /\ began[w] \in Nat /\ began[w] <= today /\ today \in Nat
    BY <1>5, ChecklistAssumption DEF Raise, TypeOK, RunsTypeOK, Slots
  <2>2. began[w] < next' /\ next' \in Nat /\ today' = today
    BY <1>5, <2>1, AheadIsAhead DEF Raise, TypeOK, Slots
  <2>3. \A v \in Raisers : raising'[v] = 0
    BY <1>5 DEF Raise, TypeOK, RunsTypeOK
  <2>4. raised[next] = 0
    <3>1. raised[next] \in Nat /\ next \in Nat
      BY <2>1 DEF TypeOK, RunsTypeOK
    <3>2. raised[next] <= 1 /\ (raised[next] = 1 => next > next)
      BY <2>1
    <3>3. QED
      BY <3>1, <3>2
  <2>5. \A d \in Slots : d # next => raised'[d] = raised[d]
    BY <1>5, <2>1 DEF Raise, TypeOK, RunsTypeOK
  <2>6. raised'[next] \in {0, 1}
    BY <1>5, <2>1, <2>4 DEF Raise, TypeOK, RunsTypeOK
  <2>7. SlotRaisedOnce'
    BY <2>1, <2>2, <2>5, <2>6 DEF Slots
  <2>8. QED
    BY <2>3, <2>7
<1>6. QED
  BY <1>1, <1>2, <1>3, <1>4, <1>5
  DEF Next, ScheduleStep, RunStep, RaiseRun, PatchStep, Sweep, Claim, Send, Record,
      RecordFails, LoseBatch, BackoffOver, SwitchRelay, Pause, Publish, AskComplete, AskAbandon, AskStep,
      Ask, Complete, Abandon, GiveUp, WriteStep

-----------------------------------------------------------------------------
(* The reminders, apart from their delivery. *)

Rows == [status : {"none", "pending", "waiting", "sent", "dead", "suppressed"},
         user : People \cup {Nobody}, attempts : Nat, received : Nat, doubts : Nat]

(* What raising, suppressing and waiting may do to a row. *)
Quiet(old, new) ==
    /\ new \in Rows
    /\ new.received = old.received /\ new.doubts = old.doubts
    /\ \/ new.status = old.status
       \/ old.status \in {"none", "pending", "waiting"} /\ new.status \in {"pending", "suppressed"}

(* A step that is quiet about every row keeps what the pass relies on. *)
LEMMA QuietStep ==
    ASSUME Inv, RunsTypeOK', pass' = pass, relay' = relay, reminder' \in [Reminders -> Rows],
           \A r \in Reminders : Quiet(reminder[r], reminder'[r])
    PROVE  TypeOK' /\ PassInv' /\ ReceivedInv'
<1>1. TypeOK'
  BY DEF Inv, TypeOK, Rows
<1>2. Unsent' = Unsent /\ Unsent \subseteq Reminders
  BY DEF Inv, TypeOK, PassInv, Unsent
<1>3. \A r \in Reminders : Is(r, {"pending", "suppressed"}) => Is(r, {"pending", "suppressed"})'
  BY DEF Quiet, Is
<1>4. PassInv'
  BY <1>2, <1>3 DEF Inv, PassInv
<1>5. \A r \in Reminders : (Is(r, {"sent"})' <=> Is(r, {"sent"}))
  BY DEF Quiet, Is
<1>6. \A r \in Reminders : (Known(r)' <=> Known(r))
  BY <1>5 DEF Known
<1>7. ReceivedInv'
  BY <1>5, <1>6 DEF Inv, ReceivedInv, Quiet
<1>8. QED
  BY <1>1, <1>4, <1>7

(* Rows are inserted where there is none, and nowhere else. *)
LEMMA InsertedIsQuiet ==
    ASSUME TypeOK, NEW new,
           \A r \in Reminders \cap DOMAIN new :
               new[r].status \in {"pending", "suppressed"} /\ new[r].user \in People \cup {Nobody}
    PROVE  /\ Inserted(new) \in [Reminders -> Rows]
           /\ \A r \in Reminders : Quiet(reminder[r], Inserted(new)[r])
<1>1. ASSUME NEW r \in Reminders
      PROVE  Inserted(new)[r] \in Rows /\ Quiet(reminder[r], Inserted(new)[r])
  <2>1. reminder[r] \in Rows
    BY DEF TypeOK, Rows
  <2>2. CASE r \in DOMAIN new /\ Is(r, {"none"})
    <3>1. Inserted(new)[r] = [reminder[r] EXCEPT !.status = new[r].status, !.user = new[r].user]
      BY <2>2 DEF Inserted
    <3>2. QED
      BY <2>1, <2>2, <3>1 DEF Quiet, Rows, Is
  <2>3. CASE ~(r \in DOMAIN new /\ Is(r, {"none"}))
    BY <2>1, <2>3 DEF Inserted, Quiet
  <2>4. QED
    BY <2>2, <2>3
<1>2. QED
  BY <1>1 DEF Inserted

(* No row changes. *)
LEMMA SameIsQuiet ==
    ASSUME TypeOK
    PROVE  reminder \in [Reminders -> Rows] /\ \A r \in Reminders : Quiet(reminder[r], reminder[r])
BY DEF TypeOK, Rows, Quiet

(* What raises or suppresses reminders, or ends a backoff, sends nothing. *)
LEMMA RaisingNext ==
    ASSUME Inv, RunsTypeOK',
           \/ \E w \in Raisers : RaiseRun(w)
           \/ \E p \in People, s \in Steps : PatchStep(p, s)
           \/ Sweep
           \/ \E r \in Reminders : BackoffOver(r)
    PROVE  TypeOK' /\ PassInv' /\ ReceivedInv'
<1> SUFFICES /\ pass' = pass /\ relay' = relay
             /\ reminder' \in [Reminders -> Rows]
             /\ \A r \in Reminders : Quiet(reminder[r], reminder'[r])
  BY QuietStep
<1>0. TypeOK
  BY DEF Inv
<1>1. ASSUME NEW w \in Raisers, RaiseRun(w)
      PROVE  /\ pass' = pass /\ relay' = relay
             /\ reminder' \in [Reminders -> Rows]
             /\ \A r \in Reminders : Quiet(reminder[r], reminder'[r])
  <2>1. PICK new : /\ reminder' \in {reminder, Inserted(new)}
                   /\ \A r \in Reminders \cap DOMAIN new :
                        new[r].status = "pending" /\ new[r].user = step'[r[1]].who
    <3> DEFINE M == {q \in Reminders : q[2] = -1 /\ step'[q[1]].who # Nobody}
               row == [r \in M |-> [status |-> "pending", user |-> step'[r[1]].who]]
    <3>1. reminder' \in {reminder, Inserted(row)}
      BY <1>1 DEF RaiseRun
    <3>2. QED
      BY <3>1
  <2>2. \A r \in Reminders : step'[r[1]].who \in People \cup {Nobody}
    BY DEF RunsTypeOK, Reminders
  <2>3. QED
    BY <1>0, <1>1, <2>1, <2>2, InsertedIsQuiet, SameIsQuiet DEF RaiseRun
<1>2. ASSUME NEW p \in People, NEW s \in Steps, PatchStep(p, s)
      PROVE  /\ pass' = pass /\ relay' = relay
             /\ reminder' \in [Reminders -> Rows]
             /\ \A r \in Reminders : Quiet(reminder[r], reminder'[r])
  <2>1. CASE reminder' = reminder
    BY <1>0, <1>2, <2>1, SameIsQuiet DEF PatchStep
  <2>2. CASE reminder' = Suppressed(s)
    <3>1. ASSUME NEW r \in Reminders
          PROVE  Suppressed(s)[r] \in Rows /\ Quiet(reminder[r], Suppressed(s)[r])
      BY <1>0 DEF Suppressed, Quiet, Rows, Is, TypeOK
    <3>2. QED
      BY <1>2, <2>2, <3>1 DEF PatchStep, Suppressed
  <2>3. CASE \E to \in People : reminder' = Assigned(s, to, p)
    <3>1. PICK to \in People : reminder' = Assigned(s, to, p)
      BY <2>3
    <3> DEFINE new == [r \in {<<s, -1>>} |-> [status |-> "pending", user |-> to]]
    <3>2. reminder' = reminder \/ reminder' = Inserted(new)
      BY <3>1 DEF Assigned
    <3>3. \A r \in Reminders \cap DOMAIN new :
             new[r].status \in {"pending", "suppressed"} /\ new[r].user \in People \cup {Nobody}
      OBVIOUS
    <3> HIDE DEF new
    <3>4. QED
      BY <1>0, <1>2, <3>2, <3>3, InsertedIsQuiet, SameIsQuiet DEF PatchStep
  <2>4. request[p].do = "assign" => request[p].to \in People \cup {Nobody}
    BY <1>0 DEF TypeOK, RunsTypeOK
  <2>5. CASE request[p].do = "assign" /\ request[p].to = Nobody
    BY <1>2, <2>1, <2>5 DEF PatchStep, Assigned
  <2>6. QED
    BY <1>2, <2>1, <2>2, <2>3, <2>4, <2>5 DEF PatchStep
<1>3. ASSUME Sweep
      PROVE  /\ pass' = pass /\ relay' = relay
             /\ reminder' \in [Reminders -> Rows]
             /\ \A r \in Reminders : Quiet(reminder[r], reminder'[r])
  <2> DEFINE M == {r \in Reminders : Wanted(r[1]) /\ r[2] \in Crossed(r[1])}
             new == [r \in M |->
              [status |-> IF \A l \in Crossed(r[1]) : r[2] <= l THEN "pending" ELSE "suppressed",
               user |-> step[r[1]].who]]
  <2>1. reminder' = Inserted(new) /\ pass' = pass /\ relay' = relay
    BY <1>3 DEF Sweep
  <2>2. \A r \in Reminders : step[r[1]].who \in People \cup {Nobody}
    BY <1>0 DEF TypeOK, RunsTypeOK, Reminders
  <2>3. \A r \in Reminders \cap DOMAIN new :
           new[r].status \in {"pending", "suppressed"} /\ new[r].user \in People \cup {Nobody}
    BY <2>2
  <2> HIDE DEF new
  <2>4. QED
    BY <1>0, <2>1, <2>3, InsertedIsQuiet
<1>4. ASSUME NEW q \in Reminders, BackoffOver(q)
      PROVE  /\ pass' = pass /\ relay' = relay
             /\ reminder' \in [Reminders -> Rows]
             /\ \A r \in Reminders : Quiet(reminder[r], reminder'[r])
  <2>1. ASSUME NEW r \in Reminders
        PROVE  reminder'[r] \in Rows /\ Quiet(reminder[r], reminder'[r])
    BY <1>0, <1>4 DEF BackoffOver, Quiet, Rows, Is, TypeOK
  <2>2. QED
    BY <1>0, <1>4, <2>1 DEF BackoffOver, TypeOK
<1>5. QED
  BY <1>1, <1>2, <1>3, <1>4

-----------------------------------------------------------------------------
(* Delivery. *)

(* Rows a pass claims are pending. *)
LEMMA TakeIsSafe ==
    ASSUME NEW S \in SUBSET Reminders, Take(S), ReminderAssumption,
           \A r \in S : Is(r, {"pending", "suppressed"})'
    PROVE  /\ pass' \in [pc : {"idle", "send", "sent", "failed"}, todo : SUBSET Reminders,
                         cur : Reminders \cup {NoReminder}]
           /\ pass'.pc \in {"idle", "send"}
           /\ PassInv'
<1>1. CASE S = {}
  BY <1>1 DEF Take, Off, PassInv, Unsent
<1>2. CASE S # {}
  <2>1. PICK r \in S : pass' = [pc |-> "send", todo |-> S \ {r}, cur |-> r]
    BY <1>2 DEF Take
  <2>2. Unsent' = S
    BY <2>1 DEF Unsent
  <2>3. QED
    BY <2>1, <2>2 DEF PassInv
<1>3. QED
  BY <1>1, <1>2

(* A claim takes pending rows and changes none. *)
LEMMA ClaimNext ==
    ASSUME Inv, RunsTypeOK', Claim PROVE TypeOK' /\ PassInv' /\ ReceivedInv'
<1>1. reminder' = reminder /\ relay' = relay /\ pass.pc = "idle" /\ Take({r \in Reminders : Due(r)})
  BY DEF Claim
<1>2. \A r \in {q \in Reminders : Due(q)} : Is(r, {"pending", "suppressed"})'
  BY <1>1 DEF Due, Is
<1>3. /\ pass' \in [pc : {"idle", "send", "sent", "failed"}, todo : SUBSET Reminders,
                    cur : Reminders \cup {NoReminder}]
      /\ pass'.pc \in {"idle", "send"}
      /\ PassInv'
  BY <1>1, <1>2, TakeIsSafe, ReminderAssumption
<1>4. TypeOK'
  BY <1>1, <1>3 DEF Inv, TypeOK
<1>5. \A r \in Reminders : (Known(r)' <=> Known(r)) /\ (Is(r, {"sent"})' <=> Is(r, {"sent"}))
  BY <1>1, <1>3 DEF Known, Is
<1>6. ReceivedInv'
  BY <1>1, <1>5 DEF Inv, ReceivedInv
<1>7. QED
  BY <1>3, <1>4, <1>6

(* The row in hand is a reminder, and where it is pending nobody has recorded  *)
(* it as sent.                                                              *)
LEMMA InHand ==
    ASSUME Inv, pass.pc # "idle"
    PROVE  /\ pass.cur \in Reminders /\ pass.cur \notin pass.todo
           /\ pass.todo \subseteq Reminders
           /\ reminder[pass.cur] \in Rows
           /\ pass.pc \in {"send", "sent"} => ~Is(pass.cur, {"sent"})
<1>1. pass.cur \in Reminders /\ pass.cur \notin pass.todo
  BY DEF Inv, PassInv
<1>2. pass.todo \subseteq Reminders /\ reminder[pass.cur] \in Rows
  BY <1>1 DEF Inv, TypeOK, Rows
<1>3. pass.pc \in {"send", "sent"} => ~Is(pass.cur, {"sent"})
  BY DEF Inv, PassInv, Unsent, Is
<1>4. QED
  BY <1>1, <1>2, <1>3

(* A send is a copy received, a refusal, or a copy in doubt. *)
LEMMA SendNext ==
    ASSUME Inv, RunsTypeOK', Send PROVE TypeOK' /\ PassInv' /\ ReceivedInv'
<1>1. PICK doubt \in {0, 1}, took \in {0, 1}, pc \in {"sent", "failed"} :
        /\ pass' = [pass EXCEPT !.pc = pc]
        /\ reminder' = IF took = 1
             THEN [reminder EXCEPT ![pass.cur].received = @ + 1,
                                   ![pass.cur].doubts = @ + doubt]
             ELSE reminder
        /\ pc = "sent" <=> took = 1 /\ doubt = 0
  <2>1. CASE Received(0) /\ Then("sent")
    BY <2>1 DEF Received, Then
  <2>2. CASE Then("failed") /\ reminder' = reminder
    BY <2>2 DEF Then
  <2>3. CASE Received(1) /\ Then("failed")
    BY <2>3 DEF Received, Then
  <2>4. QED
    BY <2>1, <2>2, <2>3 DEF Send
<1> PICK c : c = pass.cur
  OBVIOUS
<1>2. pass.pc = "send" /\ relay' = relay
  BY DEF Send
<1>3. /\ c \in Reminders /\ c \notin pass.todo /\ pass.todo \subseteq Reminders
      /\ reminder[c] \in Rows /\ ~Is(c, {"sent"})
  BY <1>2, InHand
<1>4. /\ reminder'[c].status = reminder[c].status
      /\ reminder'[c] \in Rows
      /\ reminder'[c].received = reminder[c].received + (IF took = 1 THEN 1 ELSE 0)
      /\ reminder'[c].doubts = reminder[c].doubts + (IF took = 1 THEN doubt ELSE 0)
      /\ \A r \in Reminders : r # c => reminder'[r] = reminder[r]
  <2>0. reminder \in [Reminders -> Rows]
    BY DEF Inv, TypeOK, Rows
  <2>1. CASE took = 0
    BY <1>1, <1>3, <2>1 DEF Rows
  <2>2. CASE took = 1
    <3>1. reminder' = [reminder EXCEPT ![c] =
                         [reminder[c] EXCEPT !.received = reminder[c].received + 1,
                                             !.doubts = reminder[c].doubts + doubt]]
      BY <1>1, <1>3, <2>0, <2>2 DEF Rows
    <3>2. reminder'[c] = [reminder[c] EXCEPT !.received = reminder[c].received + 1,
                                             !.doubts = reminder[c].doubts + doubt]
      BY <1>3, <2>0, <3>1
    <3>3. \A r \in Reminders : r # c => reminder'[r] = reminder[r]
      BY <1>3, <2>0, <3>1
    <3>4. 1 \in Nat /\ doubt \in Nat /\ reminder[c] \in Rows
      BY <1>3
    <3>5. /\ reminder'[c].status = reminder[c].status /\ reminder'[c] \in Rows
          /\ reminder'[c].received = reminder[c].received + 1
          /\ reminder'[c].doubts = reminder[c].doubts + doubt
      <4> DEFINE new == reminder'[c]
      <4>1. new = [reminder[c] EXCEPT !.received = reminder[c].received + 1,
                                      !.doubts = reminder[c].doubts + doubt]
        BY <3>2
      <4> HIDE DEF new
      <4>2. new \in Rows /\ new.status = reminder[c].status
            /\ new.received = reminder[c].received + 1 /\ new.doubts = reminder[c].doubts + doubt
        <5>1. reminder[c].received + 1 \in Nat /\ reminder[c].doubts + doubt \in Nat
          BY <3>4 DEF Rows
        <5>2. QED
          BY <3>4, <4>1, <5>1 DEF Rows
      <4>3. QED
        BY <4>2 DEF new
    <3>6. QED
      BY <2>2, <3>3, <3>5
  <2>3. QED
    BY <2>1, <2>2
<1>5. reminder' \in [Reminders -> Rows]
  BY <1>1, <1>3, <1>4 DEF Inv, TypeOK, Rows
<1>6. /\ pass'.pc = pc /\ pass'.cur = c /\ pass'.todo = pass.todo
      /\ pass' \in [pc : {"idle", "send", "sent", "failed"}, todo : SUBSET Reminders,
                    cur : Reminders \cup {NoReminder}]
  BY <1>1 DEF Inv, TypeOK
<1>7. TypeOK'
  BY <1>2, <1>5, <1>6 DEF Inv, TypeOK, Rows
<1>8. PassInv'
  <2>1. Unsent' \subseteq Unsent
    BY <1>2, <1>6 DEF Unsent
  <2>2. Unsent \subseteq Reminders
    BY <1>2, <1>3 DEF Unsent
  <2>3. \A r \in Unsent : Is(r, {"pending", "suppressed"})'
    BY <1>4, <2>2 DEF Inv, PassInv, Is
  <2>4. QED
    BY <1>3, <1>6, <2>1, <2>3 DEF PassInv
<1>9. ReceivedInv'
  <2>1. ASSUME NEW r \in Reminders, r # c
        PROVE  /\ reminder'[r].received <= reminder'[r].doubts + (IF Known(r)' THEN 1 ELSE 0)
               /\ Known(r)' \/ Is(r, {"sent"})' => reminder'[r].received >= 1
    <3>1. (Known(r)' <=> Known(r)) /\ (Is(r, {"sent"})' <=> Is(r, {"sent"}))
      BY <1>2, <1>4, <1>6, <2>1 DEF Known, Is
    <3>2. QED
      BY <1>4, <2>1, <3>1 DEF Inv, ReceivedInv
  <2>2. reminder[c].received <= reminder[c].doubts
    BY <1>2, <1>3 DEF Inv, ReceivedInv, Known, Rows
  <2>3. (Known(c)' <=> pc = "sent") /\ ~Is(c, {"sent"})'
    BY <1>3, <1>4, <1>6 DEF Known, Is
  <2>4. /\ reminder'[c].received <= reminder'[c].doubts + (IF Known(c)' THEN 1 ELSE 0)
        /\ Known(c)' \/ Is(c, {"sent"})' => reminder'[c].received >= 1
    BY <1>1, <1>3, <1>4, <2>2, <2>3 DEF Rows
  <2>5. QED
    BY <1>6, <2>1, <2>4 DEF ReceivedInv
<1>10. QED
  BY <1>7, <1>8, <1>9

(* What recording an outcome does to a row. *)
LEMMA RowSettles ==
    ASSUME NEW row \in Rows, NEW ok \in BOOLEAN
    PROVE  /\ Settled(row, ok) \in Rows
           /\ Settled(row, ok).received = row.received
           /\ Settled(row, ok).doubts = row.doubts
           /\ Settled(row, ok).status = "sent" <=> ok
<1>1. row.attempts + 1 \in Nat
  BY DEF Rows
<1>2. CASE ok
  <2>1. Settled(row, ok) = [row EXCEPT !.attempts = row.attempts + 1, !.status = "sent"]
    BY <1>2 DEF Settled, Rows
  <2>2. QED
    BY <1>1, <1>2, <2>1 DEF Rows
<1>3. CASE ~ok
  <2>1. PICK st \in {"dead", "waiting"} :
          Settled(row, ok) = [row EXCEPT !.attempts = row.attempts + 1, !.status = st]
    <3>1. CASE row.attempts + 1 >= MaxAttempts
      BY <1>3, <3>1 DEF Settled, Rows
    <3>2. CASE ~(row.attempts + 1 >= MaxAttempts)
      BY <1>3, <3>2 DEF Settled, Rows
    <3>3. QED
      BY <3>1, <3>2
  <2>2. QED
    BY <1>1, <1>3, <2>1 DEF Rows
<1>4. QED
  BY <1>2, <1>3

(* A step that changes the row in hand to `new` and goes on to the next row, or *)
(* to the next phase of this one.                                            *)
LEMMA DeliveryStep ==
    ASSUME Inv, RunsTypeOK', NEW c, NEW new \in Rows,
           c = pass.cur, c \in Reminders, relay' = relay,
           reminder' = [reminder EXCEPT ![c] = new],
           pass' \in [pc : {"idle", "send", "sent", "failed"}, todo : SUBSET Reminders,
                     cur : Reminders \cup {NoReminder}],
           \A r \in Reminders \ {c} : (Known(r)' <=> Known(r)),
           new.received <= new.doubts + (IF Known(c)' THEN 1 ELSE 0),
           Known(c)' \/ new.status = "sent" => new.received >= 1
    PROVE  TypeOK' /\ ReceivedInv'
<1>1. reminder \in [Reminders -> Rows]
  BY DEF Inv, TypeOK, Rows
<1>2. /\ reminder' \in [Reminders -> Rows] /\ reminder'[c] = new
      /\ \A r \in Reminders : r # c => reminder'[r] = reminder[r]
  BY <1>1
<1>3. TypeOK'
  BY <1>2 DEF Inv, TypeOK, Rows
<1>4. ASSUME NEW r \in Reminders
      PROVE  /\ reminder'[r].received <= reminder'[r].doubts + (IF Known(r)' THEN 1 ELSE 0)
             /\ Known(r)' \/ Is(r, {"sent"})' => reminder'[r].received >= 1
  <2>1. CASE r = c
    BY <1>2, <2>1 DEF Is
  <2>2. CASE r # c
    BY <1>2, <2>2 DEF Is, Inv, ReceivedInv
  <2>3. QED
    BY <2>1, <2>2
<1>5. ReceivedInv'
  BY <1>4 DEF ReceivedInv
<1>6. QED
  BY <1>3, <1>5

(* A record settles the row in hand. *)
LEMMA RecordNext ==
    ASSUME Inv, RunsTypeOK', Record PROVE TypeOK' /\ PassInv' /\ ReceivedInv'
<1> PICK c : c = pass.cur
  OBVIOUS
<1> DEFINE ok == pass.pc = "sent"
<1>0. ok \in BOOLEAN
  OBVIOUS
<1> PICK new : new = Settled(reminder[c], ok)
  OBVIOUS
<1>1. /\ c \in Reminders /\ c \notin pass.todo /\ pass.todo \subseteq Reminders
      /\ reminder[c] \in Rows
  BY InHand DEF Record
<1>2. pass.pc \in {"sent", "failed"} /\ Take(pass.todo) /\ relay' = relay
  BY DEF Record
<1>3. reminder' = [reminder EXCEPT ![c] = new]
  BY <1>1 DEF Record, Inv, TypeOK
<1>4. /\ new \in Rows /\ new.received = reminder[c].received
      /\ new.doubts = reminder[c].doubts /\ (new.status = "sent" <=> ok)
  BY <1>0, <1>1, RowSettles
<1>5. \A r \in Reminders : r # c => reminder'[r] = reminder[r]
  BY <1>3 DEF Inv, TypeOK
<1>6. \A r \in pass.todo : Is(r, {"pending", "suppressed"})'
  BY <1>1, <1>5 DEF Inv, PassInv, Unsent, Is
<1>7. /\ pass' \in [pc : {"idle", "send", "sent", "failed"}, todo : SUBSET Reminders,
                    cur : Reminders \cup {NoReminder}]
      /\ pass'.pc \in {"idle", "send"}
      /\ PassInv'
  BY <1>1, <1>2, <1>6, TakeIsSafe, ReminderAssumption
<1>8. \A r \in Reminders \ {c} : (Known(r)' <=> Known(r))
  BY <1>5, <1>7 DEF Known, Is
<1>9. reminder'[c] = new
  BY <1>1, <1>3 DEF Inv, TypeOK
<1>10. Known(c)' <=> ok
  BY <1>4, <1>7, <1>9 DEF Known, Is
<1>11. /\ reminder[c].received <= reminder[c].doubts + (IF Known(c) THEN 1 ELSE 0)
       /\ Known(c) => reminder[c].received >= 1
       /\ Known(c) <=> ok
  BY <1>1, <1>2 DEF Inv, ReceivedInv, Known
<1>12. TypeOK' /\ ReceivedInv'
  BY <1>1, <1>2, <1>3, <1>4, <1>7, <1>8, <1>10, <1>11, DeliveryStep
<1>13. QED
  BY <1>7, <1>12

(* A record that fails after its send leaves the copy in doubt, whether or  *)
(* not it was committed.                                                    *)
LEMMA RecordFailsNext ==
    ASSUME Inv, RunsTypeOK', RecordFails PROVE TypeOK' /\ PassInv' /\ ReceivedInv'
<1> PICK c : c = pass.cur
  OBVIOUS
<1>1. PICK row \in {reminder[c], Settled(reminder[c], TRUE)} :
        /\ reminder' = [reminder EXCEPT ![c] = [row EXCEPT !.doubts = row.doubts + 1]]
        /\ pass' = [pass EXCEPT !.pc = "failed"]
        /\ pass.pc = "sent" /\ relay' = relay
  BY DEF RecordFails, Then
<1>2. /\ c \in Reminders /\ c \notin pass.todo /\ pass.todo \subseteq Reminders
      /\ reminder[c] \in Rows
  BY <1>1, InHand
<1>3. row \in Rows /\ row.received = reminder[c].received /\ row.doubts = reminder[c].doubts
  BY <1>1, <1>2, RowSettles
<1> PICK new : new = [row EXCEPT !.doubts = row.doubts + 1]
  OBVIOUS
<1>4. /\ new \in Rows /\ new.received = reminder[c].received
      /\ new.doubts = reminder[c].doubts + 1
  <2>1. row.doubts + 1 \in Nat
    BY <1>3 DEF Rows
  <2>2. QED
    BY <1>3, <2>1 DEF Rows
<1>5. /\ pass'.pc = "failed" /\ pass'.cur = c /\ pass'.todo = pass.todo
      /\ pass' \in [pc : {"idle", "send", "sent", "failed"}, todo : SUBSET Reminders,
                    cur : Reminders \cup {NoReminder}]
  BY <1>1 DEF Inv, TypeOK
<1>6. \A r \in Reminders : r # c => reminder'[r] = reminder[r]
  BY <1>1 DEF Inv, TypeOK
<1>7. PassInv'
  <2>1. Unsent' = pass.todo
    BY <1>5 DEF Unsent
  <2>2. \A r \in pass.todo : Is(r, {"pending", "suppressed"})'
    BY <1>2, <1>6 DEF Inv, PassInv, Unsent, Is
  <2>3. QED
    BY <1>2, <1>5, <2>1, <2>2 DEF PassInv
<1>8. (\A r \in Reminders \ {c} : (Known(r)' <=> Known(r))) /\ ~Known(c)' /\ Known(c)
  BY <1>1, <1>5, <1>6 DEF Known, Is
<1>9. reminder[c].received <= reminder[c].doubts + 1 /\ reminder[c].received >= 1
  BY <1>2, <1>8 DEF Inv, ReceivedInv
<1>10. /\ new.received <= new.doubts + (IF Known(c)' THEN 1 ELSE 0)
       /\ new.received >= 1
  BY <1>2, <1>4, <1>8, <1>9 DEF Rows
<1>11. TypeOK' /\ ReceivedInv'
  BY <1>1, <1>2, <1>4, <1>5, <1>8, <1>10, DeliveryStep
<1>12. QED
  BY <1>7, <1>11

(* A pass that ends early leaves at most the copy in hand in doubt. *)
LEMMA LoseBatchNext ==
    ASSUME Inv, RunsTypeOK', LoseBatch PROVE TypeOK' /\ PassInv' /\ ReceivedInv'
<1> PICK c : c = pass.cur
  OBVIOUS
<1>1. /\ c \in Reminders /\ reminder[c] \in Rows
      /\ pass.pc \in {"send", "sent"} => ~Is(c, {"sent"})
  BY InHand DEF LoseBatch
<1>2. pass' = Off /\ pass.pc \in {"send", "sent", "failed"} /\ relay' = relay
  BY DEF LoseBatch, Inv, TypeOK
<1>3. PassInv'
  BY <1>2 DEF Off, PassInv, Unsent
<1> PICK new : new = IF pass.pc = "sent"
                     THEN [reminder[c] EXCEPT !.doubts = reminder[c].doubts + 1]
                     ELSE reminder[c]
  OBVIOUS
<1>4. /\ new \in Rows /\ new.received = reminder[c].received
      /\ new.status = reminder[c].status
      /\ new.doubts = reminder[c].doubts + (IF pass.pc = "sent" THEN 1 ELSE 0)
  <2>1. reminder[c].doubts + 1 \in Nat /\ reminder[c].doubts \in Nat
    BY <1>1 DEF Rows
  <2>2. QED
    BY <1>1, <2>1 DEF Rows
<1>5. reminder' = [reminder EXCEPT ![c] = new]
  BY <1>1 DEF LoseBatch, Inv, TypeOK
<1>6. /\ reminder'[c] = new
      /\ \A r \in Reminders : r # c => reminder'[r] = reminder[r]
  BY <1>1, <1>5 DEF Inv, TypeOK
<1>7. /\ \A r \in Reminders \ {c} : (Known(r)' <=> Known(r))
      /\ Known(c)' <=> Is(c, {"sent"})
  BY <1>2, <1>4, <1>6 DEF Known, Is, Off
<1>8. /\ reminder[c].received <= reminder[c].doubts + (IF Known(c) THEN 1 ELSE 0)
      /\ Known(c) \/ Is(c, {"sent"}) => reminder[c].received >= 1
      /\ Known(c) => pass.pc \in {"send", "sent"}
      /\ pass.pc = "send" => ~Known(c)
  BY <1>1, <1>2 DEF Inv, ReceivedInv, Known
<1>9. new.received <= new.doubts + (IF Known(c)' THEN 1 ELSE 0)
  BY <1>1, <1>4, <1>7, <1>8 DEF Rows
<1>10. Known(c)' \/ new.status = "sent" => new.received >= 1
  BY <1>4, <1>7, <1>8 DEF Is
<1>11. TypeOK' /\ ReceivedInv'
  <2>1. pass' \in [pc : {"idle", "send", "sent", "failed"}, todo : SUBSET Reminders,
                   cur : Reminders \cup {NoReminder}]
    BY <1>2 DEF Off
  <2>2. QED
    BY <1>1, <1>2, <1>4, <1>5, <1>7, <1>9, <1>10, <2>1, DeliveryStep
<1>12. QED
  BY <1>3, <1>11

(* The relay is nothing to the rows, nor to a pass that is under way. *)
LEMMA SwitchNext ==
    ASSUME Inv, RunsTypeOK', SwitchRelay PROVE TypeOK' /\ PassInv' /\ ReceivedInv'
<1>1. reminder' = reminder /\ pass' = pass /\ relay' \in BOOLEAN
  BY DEF SwitchRelay
<1>2. TypeOK'
  BY <1>1 DEF Inv, TypeOK
<1>3. PassInv'
  BY <1>1 DEF Inv, PassInv, Unsent, Is
<1>4. ReceivedInv'
  BY <1>1 DEF Inv, ReceivedInv, Known, Is
<1>5. QED
  BY <1>2, <1>3, <1>4

(* The invariant is inductive. *)
LEMMA InvNext == Inv /\ [Next]_vars => Inv'
<1> SUFFICES ASSUME Inv, [Next]_vars PROVE Inv'
  OBVIOUS
<1>1. CASE Next
  <2>1. RunsTypeOK' /\ RaisingInv' /\ SlotRaisedOnce'
    BY <1>1, RunsTypeNext, SlotsNext
  <2>2. CASE UNCHANGED reminderVars
    <3>1. TypeOK'
      BY <2>1, <2>2 DEF Inv, TypeOK
    <3>2. PassInv'
      BY <2>2 DEF Inv, PassInv, Unsent, Is
    <3>3. ReceivedInv'
      BY <2>2 DEF Inv, ReceivedInv, Known, Is
    <3>4. QED
      BY <2>1, <3>1, <3>2, <3>3 DEF Inv
  <2>3. (TypeOK' /\ PassInv' /\ ReceivedInv') \/ UNCHANGED reminderVars
    BY <1>1, <2>1, RaisingNext, ClaimNext, SendNext, RecordNext, RecordFailsNext,
       LoseBatchNext, SwitchNext DEF Next
  <2>4. QED
    BY <2>1, <2>2, <2>3 DEF Inv
<1>2. CASE UNCHANGED vars
  BY <1>2 DEF vars, Inv, TypeOK, RunsTypeOK, RaisingInv, SlotRaisedOnce, PassInv, Unsent, Is,
              ReceivedInv, Known
<1>3. QED
  BY <1>1, <1>2

-----------------------------------------------------------------------------
(* The schedule, the run and the reminders have their types; the next slot is   *)
(* never more than an interval ahead of the last day.                         *)
THEOREM TypeCorrect == Spec => []TypeOK
<1>1. Inv => TypeOK
  BY DEF Inv
<1>2. QED
  BY <1>1, InvInit, InvNext, PTL DEF Spec

(* Each slot raises at most one run, once it has come, whoever else is at it    *)
(* (raise_scheduled_runs: FOR UPDATE SKIP LOCKED, advanced in the transaction   *)
(* that raises).                                                             *)
THEOREM SlotsRaiseOnce == Spec => []SlotRaisedOnce
<1>1. Inv => SlotRaisedOnce
  BY DEF Inv
<1>2. QED
  BY <1>1, InvInit, InvNext, PTL DEF Spec

(* A reminder goes out once, and once more for each answer that came too late   *)
(* and each record that was lost (claim_task_reminders, deliverReminders,      *)
(* record_task_reminder).                                                    *)
THEOREM RemindersGoOutOnce == Spec => []RemindedOnce
<1>1. Inv => RemindedOnce
  <2> SUFFICES ASSUME Inv, NEW r \in Reminders
               PROVE  /\ reminder[r].received <= 1 + reminder[r].doubts
                      /\ Is(r, {"sent"}) => reminder[r].received >= 1
    BY DEF RemindedOnce
  <2>1. reminder[r].received \in Nat /\ reminder[r].doubts \in Nat
    BY DEF Inv, TypeOK
  <2>2. QED
    BY <2>1 DEF Inv, ReceivedInv
<1>2. QED
  BY <1>1, InvInit, InvNext, PTL DEF Spec

(* No step of a person or a job takes a completed run back: the CHECK of 0090   *)
(* refuses the only UPDATE that would.                                       *)
LEMMA CompletedStep == ASSUME [Next]_vars, run = "completed" PROVE run' = "completed"
<1>1. CASE UNCHANGED runVars
  BY <1>1
<1>2. CASE UNCHANGED run
  BY <1>2
<1>3. CASE \E w \in Raisers : Raise(w)
  BY <1>3 DEF Raise
<1>4. CASE \E p \in People : Complete(p) \/ Abandon(p)
  BY <1>4 DEF Complete, Abandon
<1>5. QED
  BY <1>1, <1>2, <1>3, <1>4
  DEF Next, vars, ScheduleStep, RunStep, RaiseRun, PatchStep, Sweep, Claim, Send, Record,
      RecordFails, LoseBatch, BackoffOver, SwitchRelay, NextDay, Pause, Publish, ReadSlot, RaiseFails,
      AskComplete, AskAbandon, AskStep, Ask, GiveUp, WriteStep, runVars

(* Once a run is completed no request is taken up that would write a step, and   *)
(* of those under way only one that reopens a step takes its "done" away.      *)
LEMMA EvidenceStep ==
    ASSUME RunsTypeOK, [Next]_vars, run = "completed", NEW s \in Steps, Final(s)
    PROVE  Final(s)'
<1> USE DEF Final, RunsTypeOK
<1>1. CASE UNCHANGED <<step, request>>
  BY <1>1
<1>2. ASSUME NEW p \in People, Answered(p), UNCHANGED step
      PROVE  Final(s)'
  BY <1>2 DEF Answered, Idle
<1>3. CASE \E w \in Raisers : Raise(w)
  BY <1>1, <1>3 DEF Raise
<1>4. ASSUME NEW p \in People, NEW t \in Steps, WriteStep(p, t)
      PROVE  Final(s)'
  <2>1. step'[s].status = "done"
    <3>1. CASE t = s
      BY <1>4, <3>1 DEF WriteStep, Written
    <3>2. CASE t # s
      BY <1>4, <3>2 DEF WriteStep
    <3>3. QED
      BY <3>1, <3>2
  <2>2. QED
    BY <1>4, <2>1 DEF WriteStep, Answered, Idle
<1>5. ~ \E p \in People : AskComplete(p) \/ AskAbandon(p) \/ \E t \in Steps : AskStep(p, t)
  BY DEF AskComplete, AskAbandon, AskStep, Ask, Terminal
<1>6. QED
  BY <1>1, <1>2, <1>3, <1>4, <1>5
  DEF Next, vars, runVars, ScheduleStep, RunStep, RaiseRun, PatchStep, Sweep, Claim, Send,
      Record, RecordFails, LoseBatch, BackoffOver, SwitchRelay,
      NextDay, Pause, Publish, ReadSlot,
      RaiseFails, Complete, Abandon, GiveUp

(* Whatever two requests had read before, a run that is completed is not        *)
(* abandoned or resumed (the CHECK refuses it), and of its steps none is       *)
(* reopened that was done when the last request under way was answered.       *)
THEOREM CompletedRunsStay == Spec => CompletedStays
<1>1. Inv /\ [Next]_vars =>
        [run = "completed" =>
           /\ run' = "completed"
           /\ \A s \in Steps : Final(s) => Final(s)']_runVars
  BY CompletedStep, EvidenceStep DEF Inv, TypeOK
<1>2. QED
  BY <1>1, InvInit, InvNext, PTL DEF Spec, CompletedStays
=============================================================================
