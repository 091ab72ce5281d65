----------------------------- MODULE AuditChain -----------------------------
(***************************************************************************)
(* The audit log of one tenant: rows chained by hash                       *)
(* (src/db/sql/0140_audit.sql), written by transactions that overlap, and   *)
(* the job that has the head of the chain witnessed outside Helm            *)
(* (src/src/workers/anchor.ts, src/db/sql/0300_worker_queues.sql).          *)
(*                                                                         *)
(* A row hash commits to the whole history below it, so it is modelled as   *)
(* that history: the sequence of events up to and including the row.        *)
(***************************************************************************)
EXTENDS Integers, Sequences

CONSTANTS
    Events,     \* audited operations: each a transaction that writes one row
    Anchorers,  \* runtimes that may run the anchor job, not always under its lock
    NoRow       \* not a row

VARIABLES
    rows,       \* committed rows of audit_log
    head,       \* audit_chain_head: number and hash of the last committed row
    draft,      \* draft[t]: the row t has inserted and not yet committed
    altered,    \* numbers of rows whose content no longer is what was written
    anchored,   \* audit_chain_head.anchored_seq, with the hash it was given for
    witnessed,  \* receipts the sink has taken
    job         \* job[a]: where a pass of the anchor job is, and its backlog row

chainVars == <<rows, head, draft, altered, anchored, witnessed, job>>

Pair == [seq : Nat, hash : Seq(Events)]
Row == [seq : Nat \ {0}, event : Events, prev : Seq(Events), hash : Seq(Events)]

ASSUME AuditAssumption == NoRow \notin Row

PairOf(r) == [seq |-> r.seq, hash |-> r.hash]
Zero == [seq |-> 0, hash |-> <<>>]

ChainTypeOK ==
    /\ rows \subseteq Row
    /\ head \in Pair
    /\ draft \in [Events -> Row \cup {NoRow}]
    /\ altered \subseteq Nat
    /\ anchored \in Pair /\ anchored.seq <= head.seq
    /\ witnessed \subseteq Pair
    /\ job \in [Anchorers -> [pc : {"idle", "verify", "witness", "record"}, at : Pair]]

ChainInit ==
    /\ rows = {}
    /\ head = Zero
    /\ draft = [t \in Events |-> NoRow]
    /\ altered = {}
    /\ anchored = Zero
    /\ witnessed = {}
    /\ job = [a \in Anchorers |-> [pc |-> "idle", at |-> Zero]]

-----------------------------------------------------------------------------
(* Writers. *)

(* The head row is locked from the insert until its transaction ends. *)
HeadLocked == \E t \in Events : draft[t] # NoRow

Committed(t) == \E r \in rows : r.event = t

(* Mutant: no trigger: the row keeps the placeholders helm.audit inserts. *)
Placeholder(t) == [seq |-> 0, event |-> t, prev |-> <<>>, hash |-> <<>>]

NextRow(t) ==
    [seq |-> head.seq + 1, event |-> t,
     prev |-> head.hash, hash |-> Append(head.hash, t)]

(* Mutant: the trigger reads the head without FOR UPDATE. *)
LinkUnlocked(t) ==
    /\ draft[t] = NoRow
    /\ ~Committed(t)
    /\ draft' = [draft EXCEPT ![t] = NextRow(t)]
    /\ UNCHANGED <<rows, head, altered, anchored, witnessed, job>>

(* audit_chain_link: wait for the head, then take the next number and chain   *)
(* to its hash.                                                              *)
Link(t) ==
    /\ draft[t] = NoRow
    /\ ~Committed(t)
    /\ ~HeadLocked
    /\ draft' = [draft EXCEPT ![t] = NextRow(t)]
    /\ UNCHANGED <<rows, head, altered, anchored, witnessed, job>>

CommitAudited(t) ==
    /\ draft[t] # NoRow
    /\ rows' = rows \cup {draft[t]}
    /\ head' = PairOf(draft[t])
    /\ draft' = [draft EXCEPT ![t] = NoRow]
    /\ UNCHANGED <<altered, anchored, witnessed, job>>

(* The operation fails after its audit row: row and number are gone with it. *)
RollBackAudited(t) ==
    /\ draft[t] # NoRow
    /\ draft' = [draft EXCEPT ![t] = NoRow]
    /\ UNCHANGED <<rows, head, altered, anchored, witnessed, job>>

(* Something outside the application changes the content of a row in place:   *)
(* what the chain is there to show.                                          *)
Alter(r) ==
    /\ altered = {}
    /\ altered' = {r.seq}
    /\ UNCHANGED <<rows, head, draft, anchored, witnessed, job>>

-----------------------------------------------------------------------------
(* The anchor job: backlog, verify, witness, record. *)

At(a, pc) == job[a].pc = pc
Goto(a, pc) == job' = [job EXCEPT ![a].pc = pc]

(* verify_audit_chain, over the whole log in order of number: no gap, each    *)
(* row chained to the one before, contents that match their hash. The first  *)
(* row's prev_hash is taken as the baseline.                                 *)
Intact ==
    \A r \in rows :
        /\ r.seq \notin altered
        /\ (\E q \in rows : q.seq < r.seq) =>
               \E q \in rows : q.seq + 1 = r.seq /\ q.hash = r.prev

ReadAnchorBacklog(a) ==
    /\ At(a, "idle")
    /\ head.seq > anchored.seq
    /\ job' = [job EXCEPT ![a] = [pc |-> "verify", at |-> head]]
    /\ UNCHANGED <<rows, head, draft, altered, anchored, witnessed>>

(* A chain that does not verify is not anchored. *)
VerifyChain(a) ==
    /\ At(a, "verify")
    /\ Goto(a, IF Intact THEN "witness" ELSE "idle")
    /\ UNCHANGED <<rows, head, draft, altered, anchored, witnessed>>

(* The sink takes the receipt, or the pass leaves this tenant alone. *)
Witness(a) ==
    /\ At(a, "witness")
    /\ \/ witnessed' = witnessed \cup {job[a].at} /\ Goto(a, "record")
       \/ Goto(a, "idle") /\ UNCHANGED witnessed
    /\ UNCHANGED <<rows, head, draft, altered, anchored>>

Recordable(p) ==
    /\ p.seq <= head.seq
    /\ p.seq > anchored.seq
    /\ \E r \in rows : PairOf(r) = p

(* Mutant: the anchor is whatever the job last read. *)
RecordAnyAnchor(a) ==
    /\ At(a, "record")
    /\ ~HeadLocked
    /\ anchored' = job[a].at
    /\ Goto(a, "idle")
    /\ UNCHANGED <<rows, head, draft, altered, witnessed>>

(* record_audit_anchor, under the lock of the head row: ahead of the head,    *)
(* behind the anchor, or not a pair of this chain is refused.                *)
RecordAnchor(a) ==
    /\ At(a, "record")
    /\ ~HeadLocked
    /\ anchored' = IF Recordable(job[a].at) THEN job[a].at ELSE anchored
    /\ Goto(a, "idle")
    /\ UNCHANGED <<rows, head, draft, altered, witnessed>>

(* The runtime dies, or its transaction fails: the pass is over. *)
LosePass(a) ==
    /\ ~At(a, "idle")
    /\ Goto(a, "idle")
    /\ UNCHANGED <<rows, head, draft, altered, anchored, witnessed>>

ChainNext ==
    \/ \E t \in Events : Link(t) \/ CommitAudited(t) \/ RollBackAudited(t)
    \/ \E r \in rows : Alter(r)
    \/ \E a \in Anchorers :
         \/ ReadAnchorBacklog(a) \/ VerifyChain(a) \/ Witness(a)
         \/ RecordAnchor(a) \/ LosePass(a)

ChainSpec == ChainInit /\ [][ChainNext]_chainVars

-----------------------------------------------------------------------------
(* The row before r, or the start of the chain. *)
Chained(r) ==
    IF r.seq = 1 THEN r.prev = <<>>
                 ELSE \E q \in rows : q.seq + 1 = r.seq /\ q.hash = r.prev

(* "The lock is what serialises concurrent audit writes for this tenant and   *)
(* makes chain_seq contiguous" (0140): however transactions overlap and fail, *)
(* the committed rows are numbered from 1 without gap or double, each chained *)
(* to the one before, and the head is the last.                              *)
ChainIsContiguous ==
    /\ {r.seq : r \in rows} = 1 .. head.seq
    /\ \A r, q \in rows : r.seq = q.seq => r = q
    /\ \A r \in rows : Chained(r) /\ r.hash = Append(r.prev, r.event)
    /\ head # Zero => \E r \in rows : PairOf(r) = head

(* No pass is past its verification, and a row has been altered. *)
BrokenAndSeen == altered # {} /\ \A a \in Anchorers : job[a].pc \in {"idle", "verify"}

(* Anchors move forwards only, to a pair that is in the chain and that a      *)
(* witness holds; and a chain that was altered before a pass verified it is   *)
(* never anchored again: "VERIFIES BEFORE IT ANCHORS" (anchor.ts), with two   *)
(* runtimes, stale backlogs, and crashes between any two steps.              *)
AnchorsHold ==
    [][/\ anchored' # anchored =>
            /\ anchored'.seq > anchored.seq
            /\ anchored' \in witnessed
            /\ \E r \in rows : PairOf(r) = anchored'
       /\ BrokenAndSeen => BrokenAndSeen' /\ anchored' = anchored]_chainVars

-----------------------------------------------------------------------------
(* What a reader of the log is promised: the history the head commits to, and *)
(* the part of it that the last anchor does.                                  *)
TheLog == INSTANCE AuditLog WITH log <- head.hash, attested <- anchored.hash

(* However operations overlap, roll back and are anchored late or twice, the  *)
(* chain is an append-only log and its anchor vouches for a beginning of it.  *)
IsAppendLog == TheLog!Spec
=============================================================================
