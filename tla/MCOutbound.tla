----------------------------- MODULE MCOutbound -----------------------------
(* Instances of Outbound for TLC: a mailbox hears of one of two operations and  *)
(* of the farther threshold of an expiration, a webhook of assignments, of      *)
(* overdue steps and of the nearer threshold.                                 *)
EXTENDS Outbound

CONSTANTS e1, e2, step, person, hook, mail

MCWants == {<<mail, e1>>, <<hook, step>>, <<hook, person>>, <<hook, 0>>, <<mail, 1>>}
               \cap Deliveries
=============================================================================
