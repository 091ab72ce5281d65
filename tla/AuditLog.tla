------------------------------ MODULE AuditLog ------------------------------
(***************************************************************************)
(* What the audit chain promises of the log, without rows, locks and         *)
(* transactions: it is appended to and never rewritten, each operation is in *)
(* it at most once, and what has been witnessed is always a beginning of it  *)
(* that only gets longer.                                                    *)
(***************************************************************************)
EXTENDS Naturals, Sequences

CONSTANT Events

VARIABLES log,        \* the audited operations, in order
          attested    \* the part of the log that a witness vouches for

logVars == <<log, attested>>

Init == log = <<>> /\ attested = <<>>

Write(t) ==
    /\ \A i \in 1 .. Len(log) : log[i] # t
    /\ log' = Append(log, t)
    /\ UNCHANGED attested

Attest(n) ==
    /\ n > Len(attested)
    /\ attested' = SubSeq(log, 1, n)
    /\ UNCHANGED log

Next == (\E t \in Events : Write(t)) \/ (\E n \in 1 .. Len(log) : Attest(n))

Spec == Init /\ [][Next]_logVars
=============================================================================
