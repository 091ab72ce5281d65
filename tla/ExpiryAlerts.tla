---------------------------- MODULE ExpiryAlerts ----------------------------
(***************************************************************************)
(* Expiry warnings for one expiration under one alert rule                  *)
(* (src/db/sql/0100_expirations.sql, 0300_worker_queues.sql): the nightly    *)
(* evaluation that records which thresholds have been crossed, and the pass *)
(* that puts pending warnings on the notification queue                     *)
(* (src/src/workers/alerts.ts).  An alert is named by its lead day.          *)
(***************************************************************************)
EXTENDS NotificationQueue

CONSTANTS
    Horizon,    \* bound: days from a renewal to the next expiry
    MaxPeriod   \* bound: renewals

ASSUME AlertAssumption ==
    Alerts \subseteq 0 .. Horizon /\ Horizon \in Nat /\ MaxPeriod \in Nat

VARIABLES
    left,    \* days to expires_at
    period,  \* how often the thing has been renewed
    alert,   \* alert_event: status, and the period it was raised for
    poll     \* the pending alerts a deliver pass has read

alertVars == <<left, period, alert, poll>>

AlertTypeOK ==
    /\ left \in 0 .. Horizon
    /\ period \in 0 .. MaxPeriod
    /\ alert \in [Alerts -> [status : {"none", "pending", "sent", "suppressed"},
                             for : 0 .. MaxPeriod]]
    /\ poll \subseteq {l \in Alerts : alert[l].status = "pending"}

AlertInit ==
    /\ left = Horizon
    /\ period = 0
    /\ alert = [l \in Alerts |-> [status |-> "none", for |-> 0]]
    /\ poll = {}

-----------------------------------------------------------------------------
Day ==
    /\ left > 0
    /\ left' = left - 1
    /\ UNCHANGED <<period, alert, poll, queueVars>>

(* The date moves: project_expiration updates the row in place.  The         *)
(* alert_event rows stay.                                                   *)
Renew ==
    /\ period < MaxPeriod
    /\ left < Horizon
    /\ period' = period + 1
    /\ left' = Horizon
    /\ UNCHANGED <<alert, poll, queueVars>>

(* Mutant: only the threshold of the day. *)
FreshOnTheDay == {l \in Alerts : left = l /\ alert[l].status = "none"}

(* Thresholds crossed and not recorded. *)
Fresh == {l \in Alerts : left <= l /\ alert[l].status = "none"}

(* Mutant: nothing is left to deliver. *)
EvaluateQuietly ==
    /\ Fresh # {}
    /\ alert' = [l \in Alerts |-> IF l \in Fresh THEN [status |-> "suppressed", for |-> period]
                                  ELSE alert[l]]
    /\ UNCHANGED <<left, period, poll, queueVars>>

(* evaluate_alert_rules: the smallest fresh threshold is to be delivered, the  *)
(* others are recorded as suppressed.  Acknowledged expirations are skipped,   *)
(* but nothing in the code acknowledges one.                                 *)
Evaluate ==
    /\ Fresh # {}
    /\ alert' = [l \in Alerts |->
           IF l \notin Fresh THEN alert[l]
           ELSE [status |-> IF \A k \in Fresh : l <= k THEN "pending" ELSE "suppressed",
                 for |-> period]]
    /\ UNCHANGED <<left, period, poll, queueVars>>

PollAlerts ==
    /\ poll = {}
    /\ \E l \in Alerts : alert[l].status = "pending"
    /\ poll' = {l \in Alerts : alert[l].status = "pending"}
    /\ UNCHANGED <<left, period, alert, queueVars>>

(* The destinations enqueue_notification finds for an alert. *)
Hears(l) == {e \in Endpoints : <<e, l>> \in Wants}

(* One transaction: enqueue_notification, then record_alert_delivery with what *)
(* it returned.                                                             *)
QueueAlert(l) ==
    /\ l \in poll
    /\ delivery' = Queued({l})
    /\ alert' = [alert EXCEPT ![l].status = IF Hears(l) # {} THEN "sent" ELSE "suppressed"]
    /\ poll' = poll \ {l}
    /\ UNCHANGED <<left, period, cursor, window, relay, pass, mishaps>>

(* A transaction fails, the runtime stops or dies: the rest waits for the next *)
(* pass.                                                                    *)
LosePoll ==
    /\ poll # {} /\ mishaps < MaxMishaps
    /\ mishaps' = mishaps + 1
    /\ poll' = {}
    /\ UNCHANGED <<left, period, alert, cursor, delivery, window, relay, pass>>

AlertNext ==
    \/ Day \/ Renew \/ Evaluate \/ PollAlerts \/ LosePoll
    \/ \E l \in Alerts : QueueAlert(l)

-----------------------------------------------------------------------------
(* A warning recorded as sent is on the queue of some destination, whatever     *)
(* fails between the two writes; one that was not sent gave way to a more      *)
(* urgent threshold, unless no destination wants it: "deliberately not *)
(* sent rather than lost" (0300).                                            *)
AlertsAccountedFor ==
    \A l \in Alerts :
        /\ alert[l].status = "sent" => \E e \in Endpoints : ~Has(<<e, l>>, {"none"})
        /\ alert[l].status = "suppressed" =>
               \/ \E k \in Alerts : k < l /\ alert[k].status # "none"
               \/ Hears(l) = {}
=============================================================================
