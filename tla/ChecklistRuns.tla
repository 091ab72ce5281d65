---------------------------- MODULE ChecklistRuns ----------------------------
(***************************************************************************)
(* A scheduled procedure and the run it raises.  The worker takes the slots *)
(* of the schedule (src/src/workers/schedules.ts, db/sql/0770); people tick *)
(* off, reopen and hand over the steps of the run, finish it or give it up   *)
(* (src/src/app/api/sop-runs).  Every request reads first and writes later   *)
(* in one transaction at READ COMMITTED, without a lock in between.          *)
(***************************************************************************)
EXTENDS Integers

CONSTANTS
    Raisers,      \* runtimes that may run the schedule job
    People,       \* members who work on the run
    Steps,        \* the steps of the published version
    Nobody,       \* not a member: no assignee
    NoStep,       \* not a step: the request is about the run
    MaxDay,       \* bound: days that pass
    Interval,     \* sop_schedule.interval_days
    DueAfter,     \* sop_schedule.due_after_days
    MaxEvents     \* bound: requests and settings people make, and failures

ASSUME ChecklistAssumption ==
    /\ Nobody \notin People /\ NoStep \notin Steps
    /\ MaxDay \in Nat /\ Interval \in Nat \ {0} /\ DueAfter \in Nat /\ MaxEvents \in Nat

VARIABLES
    today,      \* the date
    next,       \* sop_schedule.next_run_at
    enabled,    \* sop_schedule.enabled
    published,  \* the procedure has a published version and is not archived
    raising,    \* raising[w]: the slot w's transaction has read, or 0
    began,      \* began[w]: the day that transaction began, its now()
    raised,     \* raised[d]: runs that were raised for slot d
    run,        \* status of the first run raised, and how it came by it
    step,       \* its steps: status, assignee, due date
    request,    \* request[p]: what p's transaction has read and is about to write
    events      \* requests, settings and failures so far

scheduleVars == <<today, next, enabled, published, raising, began, raised>>
runVars == <<run, step, request, events>>

Slots == 1 .. MaxDay
Terminal == {"completed", "abandoned"}
Idle == [do |-> "idle", on |-> NoStep, to |-> Nobody]

RunsTypeOK ==
    /\ today \in 0 .. MaxDay
    /\ next \in Nat \ {0} /\ next <= MaxDay + Interval
    /\ enabled \in BOOLEAN /\ published \in BOOLEAN
    /\ raising \in [Raisers -> 0 .. MaxDay] /\ began \in [Raisers -> 0 .. MaxDay]
    /\ raised \in [Slots -> Nat]
    /\ run \in {"none", "in_progress"} \cup Terminal
    /\ step \in [Steps -> [status : {"pending", "done"}, who : People \cup {Nobody}, due : Nat]]
    /\ request \in [People -> [do : {"idle", "complete", "abandon", "done", "pending", "assign"},
                              on : Steps \cup {NoStep}, to : People \cup {Nobody}]]
    /\ events \in 0 .. MaxEvents

RunsInit ==
    /\ today = 0
    /\ next = 1
    /\ enabled = TRUE /\ published = TRUE
    /\ raising = [w \in Raisers |-> 0] /\ began = raising
    /\ raised = [d \in Slots |-> 0]
    /\ run = "none"
    /\ step = [s \in Steps |-> [status |-> "pending", who |-> Nobody, due |-> 0]]
    /\ request = [p \in People |-> Idle]
    /\ events = 0

-----------------------------------------------------------------------------
(* The schedule. *)

NextDay ==
    /\ today < MaxDay
    /\ today' = today + 1
    /\ UNCHANGED <<next, enabled, published, raising, began, raised, runVars>>

Counted == events < MaxEvents /\ events' = events + 1

(* updateSchedule waits for a raise that holds the row. *)
Unlocked == \A w \in Raisers : raising[w] = 0

Pause ==
    /\ Unlocked
    /\ Counted
    /\ enabled' = ~enabled
    /\ UNCHANGED <<today, next, published, raising, began, raised, run, step, request>>

(* The procedure is archived, restored, or published. *)
Publish ==
    /\ Counted
    /\ published' = ~published
    /\ UNCHANGED <<today, next, enabled, raising, began, raised, run, step, request>>

(* Mutant: the row is read without FOR UPDATE. *)
ReadSlotUnlocked(w) ==
    /\ raising[w] = 0
    /\ enabled /\ next <= today
    /\ raising' = [raising EXCEPT ![w] = next]
    /\ began' = [began EXCEPT ![w] = today]
    /\ UNCHANGED <<today, next, enabled, published, raised, runVars>>

(* schedule_backlog, then the loop's SELECT ... FOR UPDATE SKIP LOCKED. *)
ReadSlot(w) ==
    /\ Unlocked
    /\ enabled /\ next <= today
    /\ raising' = [raising EXCEPT ![w] = next]
    /\ began' = [began EXCEPT ![w] = today]
    /\ UNCHANGED <<today, next, enabled, published, raised, runVars>>

(* Mutant: one interval too many. *)
AheadTwice(d, now) == now + 2 * Interval

(* From the slot d by whole intervals, until the next one lies ahead of now. *)
Ahead(d, now) == d + Interval * ((now - d) \div Interval + 1)

(* Mutant: a slot that raises nothing is not advanced. *)
RaiseOrStay(w) ==
    /\ raising[w] # 0
    /\ raising' = [raising EXCEPT ![w] = 0]
    /\ began' = [began EXCEPT ![w] = 0]
    /\ IF ~published THEN UNCHANGED <<next, raised, run, step>>
       ELSE /\ next' = Ahead(raising[w], began[w])
            /\ raised' = [raised EXCEPT ![raising[w]] = @ + 1]
            /\ run' = IF run = "none" THEN "in_progress" ELSE run
            /\ UNCHANGED step
    /\ UNCHANGED <<today, enabled, published, request, events>>

(* raise_scheduled_runs, to its commit.  Advanced whether or not a run is      *)
(* raised, past the day the transaction began.  The run followed here is the first one; its assignee is a member   *)
(* or has left.                                                              *)
Raise(w) ==
    /\ raising[w] # 0
    /\ raising' = [raising EXCEPT ![w] = 0]
    /\ began' = [began EXCEPT ![w] = 0]
    /\ next' = Ahead(raising[w], began[w])
    /\ raised' = IF published THEN [raised EXCEPT ![raising[w]] = @ + 1] ELSE raised
    /\ IF published /\ run = "none"
       THEN /\ run' = "in_progress"
            /\ \E who \in People \cup {Nobody} :
                 step' = [s \in Steps |-> [status |-> "pending", who |-> who,
                                           due |-> raising[w] + DueAfter]]
       ELSE UNCHANGED <<run, step>>
    /\ UNCHANGED <<today, enabled, published, request, events>>

(* The transaction fails or the runtime dies: the slot is still due. *)
RaiseFails(w) ==
    /\ raising[w] # 0
    /\ Counted
    /\ raising' = [raising EXCEPT ![w] = 0]
    /\ began' = [began EXCEPT ![w] = 0]
    /\ UNCHANGED <<today, next, enabled, published, raised, run, step, request>>

ScheduleNext ==
    \/ NextDay \/ Pause \/ Publish
    \/ \E w \in Raisers : ReadSlot(w) \/ Raise(w) \/ RaiseFails(w)

-----------------------------------------------------------------------------
(* Requests: what is checked, and later what is written. *)

Ask(p, r) ==
    /\ request[p] = Idle
    /\ run \notin Terminal \cup {"none"}
    /\ Counted
    /\ request' = [request EXCEPT ![p] = r]
    /\ UNCHANGED <<run, step, scheduleVars>>

(* PATCH /api/sop-runs/[runId]: completed only when no required step is left;   *)
(* every step is required, since none is ever inserted as optional.            *)
AskComplete(p) ==
    /\ \A s \in Steps : step[s].status # "pending"
    /\ Ask(p, [do |-> "complete", on |-> NoStep, to |-> Nobody])

AskAbandon(p) == Ask(p, [do |-> "abandon", on |-> NoStep, to |-> Nobody])

(* PATCH .../steps/[stepId].  "done" stands for skipped too. *)
AskStep(p, s) ==
    \/ \E status \in {"done", "pending"} : Ask(p, [do |-> status, on |-> s, to |-> Nobody])
    \/ \E to \in People \cup {Nobody} : Ask(p, [do |-> "assign", on |-> s, to |-> to])

Answered(p) == request' = [request EXCEPT ![p] = Idle]

Complete(p) ==
    /\ request[p].do = "complete"
    /\ run' = "completed"
    /\ Answered(p)
    /\ UNCHANGED <<step, events, scheduleVars>>

(* Mutant: no CHECK on completed_at. *)
AbandonUnchecked(p) ==
    /\ request[p].do = "abandon"
    /\ run' = "abandoned"
    /\ Answered(p)
    /\ UNCHANGED <<step, events, scheduleVars>>

(* sop_run_completion_consistent refuses the UPDATE of a run that has been      *)
(* completed since it was read: the request fails.                            *)
Abandon(p) ==
    /\ request[p].do = "abandon"
    /\ run' = IF run = "completed" THEN run ELSE "abandoned"
    /\ Answered(p)
    /\ UNCHANGED <<step, events, scheduleVars>>

(* The step as the UPDATE leaves it: columns whose key was not sent stay. *)
Written(s, r) ==
    IF r.do = "assign" THEN [step[s] EXCEPT !.who = r.to]
                       ELSE [step[s] EXCEPT !.status = r.do]

WriteStep(p, s) ==
    /\ request[p].do \in {"done", "pending", "assign"} /\ request[p].on = s
    /\ step' = [step EXCEPT ![s] = Written(s, request[p])]
    /\ Answered(p)
    /\ UNCHANGED <<run, events, scheduleVars>>

(* The connection is lost before the commit. *)
GiveUp(p) ==
    /\ request[p] # Idle
    /\ Answered(p)
    /\ UNCHANGED <<run, step, events, scheduleVars>>

-----------------------------------------------------------------------------
(* Each slot raises at most one run, and only once it has come, although two   *)
(* runtimes may be at it and a raise may fail and be repeated; and the next    *)
(* slot is never one that has raised a run.                                  *)
SlotRaisedOnce ==
    \A d \in Slots : /\ raised[d] <= 1
                     /\ raised[d] = 1 => d <= today /\ next > d

(* "A skipped slot still advances" (0770): no slot of an enabled schedule stays *)
(* due, whatever the procedure's state.                                      *)
SlotsDealtWith == next <= today ~> next > today \/ ~enabled

(* A step that counts as evidence: done, and no request that read the run while *)
(* it was open is about to reopen it.                                        *)
Final(s) ==
    /\ step[s].status = "done"
    /\ \A p \in People : ~(request[p].do = "pending" /\ request[p].on = s)

(* "Reopening a completed run would rewrite evidence after the fact": whatever  *)
(* two requests read before, a completed run stays completed, and its steps    *)
(* stay done but for the requests already on their way when it was completed  *)
(* (CompletedMeansSettled shows that those do reopen steps).                  *)
CompletedStays ==
    [][run = "completed" =>
         /\ run' = "completed"
         /\ \A s \in Steps : Final(s) => Final(s)']_runVars

(* "A RUN CANNOT BE COMPLETED WITH MANDATORY STEPS STILL PENDING" *)
CompletedMeansSettled ==
    run = "completed" => \A s \in Steps : step[s].status # "pending"
=============================================================================
