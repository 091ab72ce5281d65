------------------------------ MODULE Outbound ------------------------------
(***************************************************************************)
(* What leaves Helm: operations write the audit log, the fan-out, the task   *)
(* events and the expiry alerts put deliveries on one queue, and the deliver  *)
(* pass sends them.  The anchor job, which only reads the log, is left to     *)
(* AuditChain.                                                               *)
(***************************************************************************)
EXTENDS ExpiryAlerts

vars == <<chainVars, queueVars, alertVars>>

Init == ChainInit /\ QueueInit /\ AlertInit

Writers == \E t \in Events : Link(t) \/ CommitAudited(t) \/ RollBackAudited(t)

Next ==
    \/ Writers /\ UNCHANGED <<queueVars, alertVars>>
    \/ QueueNext /\ UNCHANGED <<chainVars, alertVars>>
    \/ AlertNext /\ UNCHANGED chainVars

Spec == Init /\ [][Next]_vars

(* The jobs keep being started (WorkerRuntime: OnlyJobsAheadDelay) and their    *)
(* transactions end; time passes.  Nothing makes a destination answer, a       *)
(* relay be configured, or an operation be carried out.                       *)
Fairness ==
    /\ WF_vars(FanOut /\ UNCHANGED <<chainVars, alertVars>>)
    /\ WF_vars((Claim \/ Send \/ Record) /\ UNCHANGED <<chainVars, alertVars>>)
    /\ \A d \in Wants : WF_vars(BackoffOver(d) /\ UNCHANGED <<chainVars, alertVars>>)
    /\ WF_vars(Evaluate /\ UNCHANGED chainVars)
    /\ WF_vars((PollAlerts \/ \E l \in Alerts : QueueAlert(l)) /\ UNCHANGED chainVars)

FairSpec == Spec /\ Fairness

TypeOK == ChainTypeOK /\ QueueTypeOK /\ AlertTypeOK

-----------------------------------------------------------------------------
Ended(d) == Has(d, {"delivered", "dead", "gone"}) \/ (d[1] \in Mail /\ ~relay)

(* Every event that is committed reaches an end at each destination that        *)
(* subscribes to it, through refusals, backoff, lost batches and stops:         *)
(* delivered, or given up after MaxAttempts.  Mail without a relay waits.       *)
EventsSettle ==
    \A t \in Events, e \in Endpoints :
        <<e, t>> \in Wants => (Committed(t) ~> Ended(<<e, t>>))

(* A threshold crossed is acted upon unless the expiration is renewed; and a    *)
(* warning that is sent reaches an end at its destinations.                   *)
WarningsSettle ==
    \A l \in Alerts :
        /\ left <= l ~> left > l \/ alert[l].status \in {"sent", "suppressed"}
        /\ \A e \in Hears(l) : alert[l].status = "sent" ~> Ended(<<e, l>>)

(* "at 30 days the only newly-crossed threshold is 30, and it is delivered"     *)
(* (0300), this year as last year: an expiration that runs out has been         *)
(* warned of in its own period.                                              *)
EachPeriodIsWarned ==
    \A p \in 0 .. MaxPeriod :
        (period = p /\ left = 0) ~>
            period # p \/ \E l \in Alerts : alert[l].for = p /\ alert[l].status # "none"
=============================================================================
