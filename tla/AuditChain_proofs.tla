-------------------------- MODULE AuditChain_proofs --------------------------
(***************************************************************************)
(* Proofs about AuditChain, for any number of operations that overlap and    *)
(* any number of runtimes that anchor.                                       *)
(***************************************************************************)
EXTENDS AuditChain, TLAPS

-----------------------------------------------------------------------------
(* The inductive invariant. *)

(* At most one row is in the making, and it continues the head. *)
DraftInv ==
    /\ \A t \in Events : draft[t] # NoRow => draft[t] = NextRow(t)
    /\ \A t, u \in Events : draft[t] # NoRow /\ draft[u] # NoRow => t = u

(* An empty chain has the hash of an empty chain. *)
HeadInv == head.seq = 0 => head = Zero

(* What is altered is a row; what is about to be recorded has been witnessed, *)
(* and what has been read is not ahead of the head.                          *)
JobInv ==
    /\ altered \subseteq {r.seq : r \in rows}
    /\ \A a \in Anchorers : job[a].pc = "record" => job[a].at \in witnessed

Inv == ChainTypeOK /\ DraftInv /\ HeadInv /\ JobInv /\ ChainIsContiguous

-----------------------------------------------------------------------------
(* The next row is a row. *)
LEMMA NextRowIsRow ==
    ASSUME ChainTypeOK, NEW t \in Events
    PROVE  NextRow(t) \in Row
<1>1. head.seq + 1 \in Nat \ {0} /\ head.hash \in Seq(Events)
  BY DEF ChainTypeOK, Pair
<1>2. Append(head.hash, t) \in Seq(Events)
  BY <1>1
<1>3. QED
  BY <1>1, <1>2 DEF NextRow, Row

(* The empty chain satisfies the invariant. *)
LEMMA InvInit == ChainInit => Inv
<1> SUFFICES ASSUME ChainInit PROVE Inv
  OBVIOUS
<1>1. Zero \in Pair /\ Zero.seq = 0
  BY DEF Zero, Pair
<1>2. ChainTypeOK
  BY <1>1 DEF ChainInit, ChainTypeOK
<1>3. DraftInv /\ HeadInv /\ JobInv
  BY DEF ChainInit, DraftInv, HeadInv, JobInv
<1>4. ChainIsContiguous
  <2>1. {r.seq : r \in rows} = {} /\ 1 .. head.seq = {}
    BY <1>1 DEF ChainInit
  <2>2. QED
    BY <2>1 DEF ChainInit, ChainIsContiguous
<1>5. QED
  BY <1>2, <1>3, <1>4 DEF Inv

(* The chain is contiguous after a commit: the row committed continues it. *)
LEMMA CommitContinues ==
    ASSUME Inv, NEW t \in Events, CommitAudited(t)
    PROVE  ChainIsContiguous' /\ HeadInv'
<1> PICK new : new = NextRow(t)
  OBVIOUS
<1>1. /\ rows' = rows \cup {new}
      /\ head' = [seq |-> head.seq + 1, hash |-> Append(head.hash, t)]
  <2>1. draft[t] = new
    BY DEF CommitAudited, Inv, DraftInv
  <2>2. PairOf(new) = [seq |-> head.seq + 1, hash |-> Append(head.hash, t)]
    BY DEF PairOf, NextRow
  <2>3. QED
    BY <2>1, <2>2 DEF CommitAudited
<1>2. head.seq \in Nat /\ \A r \in rows : r.seq \in Nat \ {0}
  BY DEF Inv, ChainTypeOK, Pair, Row
<1>3. new.seq = head.seq + 1 /\ new.prev = head.hash /\ new.event = t
      /\ new.hash = Append(head.hash, t)
  BY DEF NextRow
<1>4. {r.seq : r \in rows'} = 1 .. head'.seq
  <2>1. {r.seq : r \in rows'} = {r.seq : r \in rows} \cup {head.seq + 1}
    BY <1>1, <1>3
  <2>2. {r.seq : r \in rows} = 1 .. head.seq
    BY DEF Inv, ChainIsContiguous
  <2>3. 1 .. head'.seq = (1 .. head.seq) \cup {head.seq + 1}
    BY <1>1, <1>2
  <2>4. QED
    BY <2>1, <2>2, <2>3
<1>5. \A r \in rows : r.seq # new.seq
  <2>1. \A r \in rows : r.seq \in 1 .. head.seq
    BY DEF Inv, ChainIsContiguous
  <2>2. QED
    BY <1>2, <1>3, <2>1
<1>6. \A r, q \in rows' : r.seq = q.seq => r = q
  BY <1>1, <1>5 DEF Inv, ChainIsContiguous
<1>7. \A r \in rows : Chained(r)' /\ r.hash = Append(r.prev, r.event)
  BY <1>1 DEF Inv, ChainIsContiguous, Chained
<1>8. Chained(new)'
  <2>1. CASE head.seq = 0
    BY <2>1, <1>3 DEF Inv, HeadInv, Zero, Chained
  <2>2. CASE head.seq # 0
    <3>1. PICK q \in rows : PairOf(q) = head
      BY <2>2 DEF Inv, ChainIsContiguous, Zero
    <3>2. q.seq + 1 = new.seq /\ q.hash = new.prev /\ q \in rows'
      BY <1>1, <1>3, <3>1 DEF PairOf
    <3>3. new.seq # 1
      BY <2>2, <1>2, <1>3
    <3>4. QED
      BY <3>2, <3>3 DEF Chained
  <2>3. QED
    BY <2>1, <2>2
<1>9. \E r \in rows' : PairOf(r) = head'
  BY <1>1, <1>3 DEF PairOf
<1>10. ChainIsContiguous'
  <2>1. \A r \in rows' : Chained(r)' /\ r.hash = Append(r.prev, r.event)
    BY <1>1, <1>3, <1>7, <1>8
  <2>2. QED
    BY <1>4, <1>6, <1>9, <2>1 DEF ChainIsContiguous, PairOf
<1>11. HeadInv'
  BY <1>1, <1>2 DEF HeadInv
<1>12. QED
  BY <1>10, <1>11

-----------------------------------------------------------------------------
(* Every step keeps the invariant. *)

(* Every step keeps the types: a number is one above a natural number, and  *)
(* an anchor stays at or below the head.                                    *)
LEMMA TypeNext ==
    ASSUME Inv, ChainNext PROVE ChainTypeOK'
<1> USE DEF Inv
<1>1. ASSUME NEW t \in Events, Link(t) PROVE ChainTypeOK'
  BY <1>1, NextRowIsRow DEF Link, ChainTypeOK
<1>2. ASSUME NEW t \in Events, CommitAudited(t) PROVE ChainTypeOK'
  <2>1. draft[t] \in Row /\ draft[t] = NextRow(t)
    BY <1>2, NextRowIsRow DEF CommitAudited, DraftInv
  <2>2. head' \in Pair /\ head'.seq = head.seq + 1
    BY <1>2, <2>1 DEF CommitAudited, PairOf, Pair, Row, NextRow
  <2>3. rows' \subseteq Row
    BY <1>2, <2>1 DEF CommitAudited, ChainTypeOK
  <2>4. anchored.seq <= head'.seq
    BY <2>2 DEF ChainTypeOK, Pair
  <2>5. QED
    BY <1>2, <2>2, <2>3, <2>4 DEF CommitAudited, ChainTypeOK
<1>3. ASSUME NEW t \in Events, RollBackAudited(t) PROVE ChainTypeOK'
  BY <1>3 DEF RollBackAudited, ChainTypeOK
<1>4. ASSUME NEW r \in rows, Alter(r) PROVE ChainTypeOK'
  BY <1>4 DEF Alter, ChainTypeOK, Row
<1>5. ASSUME NEW a \in Anchorers, ReadAnchorBacklog(a) PROVE ChainTypeOK'
  BY <1>5 DEF ReadAnchorBacklog, ChainTypeOK
<1>6. ASSUME NEW a \in Anchorers,
             VerifyChain(a) \/ Witness(a) \/ RecordAnchor(a) \/ LosePass(a)
      PROVE  ChainTypeOK'
  <2>1. job[a].at \in Pair
    BY DEF ChainTypeOK
  <2>2. \A pc \in {"idle", "witness", "record"} :
          Goto(a, pc) =>
            job' \in [Anchorers -> [pc : {"idle", "verify", "witness", "record"}, at : Pair]]
    BY DEF Goto, ChainTypeOK
  <2>3. CASE VerifyChain(a)
    BY <2>2, <2>3 DEF VerifyChain, ChainTypeOK
  <2>4. CASE Witness(a)
    BY <2>1, <2>2, <2>4 DEF Witness, ChainTypeOK
  <2>5. CASE RecordAnchor(a)
    BY <2>1, <2>2, <2>5 DEF RecordAnchor, Recordable, ChainTypeOK
  <2>6. CASE LosePass(a)
    BY <2>2, <2>6 DEF LosePass, ChainTypeOK
  <2>7. QED
    BY <1>6, <2>3, <2>4, <2>5, <2>6
<1>7. QED
  BY <1>1, <1>2, <1>3, <1>4, <1>5, <1>6 DEF ChainNext

(* A draft is made as the next row, and only when there is none. *)
LEMMA DraftNext ==
    ASSUME Inv, ChainNext PROVE DraftInv'
<1> USE DEF Inv, DraftInv
<1>1. ASSUME NEW t \in Events, Link(t) PROVE DraftInv'
  BY <1>1 DEF Link, HeadLocked, NextRow, ChainTypeOK
<1>2. ASSUME NEW t \in Events, CommitAudited(t) PROVE DraftInv'
  BY <1>2 DEF CommitAudited, ChainTypeOK
<1>3. ASSUME NEW t \in Events, RollBackAudited(t) PROVE DraftInv'
  BY <1>3 DEF RollBackAudited, NextRow, ChainTypeOK
<1>4. CASE UNCHANGED <<head, draft>>
  BY <1>4 DEF NextRow
<1>5. QED
  BY <1>1, <1>2, <1>3, <1>4
  DEF ChainNext, Alter, ReadAnchorBacklog, VerifyChain, Witness, RecordAnchor, LosePass

(* Only a commit changes rows or head, and it continues the chain. *)
LEMMA ContiguousNext ==
    ASSUME Inv, ChainNext PROVE ChainIsContiguous' /\ HeadInv'
<1>1. CASE UNCHANGED <<rows, head>>
  BY <1>1 DEF Inv, ChainIsContiguous, Chained, HeadInv
<1>2. CASE \E t \in Events : CommitAudited(t)
  BY <1>2, CommitContinues
<1>3. QED
  BY <1>1, <1>2
  DEF ChainNext, Link, RollBackAudited, Alter, ReadAnchorBacklog, VerifyChain, Witness,
      RecordAnchor, LosePass

(* What a pass holds stays what it was when it was witnessed. *)
LEMMA JobNext ==
    ASSUME Inv, ChainNext PROVE JobInv'
<1> USE DEF Inv, JobInv
<1>1. CASE UNCHANGED <<altered, witnessed, job>> /\ rows \subseteq rows'
  BY <1>1
<1>2. ASSUME NEW r \in rows, Alter(r) PROVE JobInv'
  BY <1>2 DEF Alter
<1>3. ASSUME NEW a \in Anchorers, ReadAnchorBacklog(a) PROVE JobInv'
  BY <1>3 DEF ReadAnchorBacklog, ChainTypeOK
<1>4. ASSUME NEW a \in Anchorers, VerifyChain(a) PROVE JobInv'
  BY <1>4 DEF VerifyChain, Goto, ChainTypeOK
<1>5. ASSUME NEW a \in Anchorers, Witness(a) PROVE JobInv'
  BY <1>5 DEF Witness, Goto, ChainTypeOK
<1>6. ASSUME NEW a \in Anchorers, RecordAnchor(a) \/ LosePass(a) PROVE JobInv'
  BY <1>6 DEF RecordAnchor, LosePass, Goto, ChainTypeOK
<1>7. QED
  BY <1>1, <1>2, <1>3, <1>4, <1>5, <1>6
  DEF ChainNext, Link, CommitAudited, RollBackAudited

(* The invariant is inductive. *)
LEMMA InvNext == Inv /\ [ChainNext]_chainVars => Inv'
<1> SUFFICES ASSUME Inv, [ChainNext]_chainVars PROVE Inv'
  OBVIOUS
<1>1. CASE ChainNext
  BY <1>1, TypeNext, DraftNext, ContiguousNext, JobNext DEF Inv
<1>2. CASE UNCHANGED chainVars
  BY <1>2 DEF chainVars, Inv, ChainTypeOK, DraftInv, NextRow, HeadInv, JobInv,
              ChainIsContiguous, Chained
<1>3. QED
  BY <1>1, <1>2

-----------------------------------------------------------------------------
(* The chain has its types, and the anchor is never ahead of the head. *)
THEOREM ChainTypeCorrect == ChainSpec => []ChainTypeOK
<1>1. Inv => ChainTypeOK
  BY DEF Inv
<1>2. QED
  BY <1>1, InvInit, InvNext, PTL DEF ChainSpec

(* However many operations overlap, commit and roll back, the rows are numbered *)
(* without gap or double and each is chained to the one before (the lock of   *)
(* the head row, audit_chain_link).                                          *)
THEOREM ChainStaysContiguous == ChainSpec => []ChainIsContiguous
<1>1. Inv => ChainIsContiguous
  BY DEF Inv
<1>2. QED
  BY <1>1, InvInit, InvNext, PTL DEF ChainSpec

(* A row that has been altered is one a verification meets. *)
LEMMA AlteredIsSeen == Inv /\ altered # {} => ~Intact
BY DEF Inv, JobInv, Intact

(* A step that moves the anchor moves it forwards, to a pair of the chain that *)
(* has been witnessed.                                                       *)
LEMMA AnchorAdvances ==
    ASSUME Inv, ChainNext, anchored' # anchored
    PROVE  /\ anchored'.seq > anchored.seq
           /\ anchored' \in witnessed
           /\ \E r \in rows : PairOf(r) = anchored'
<1>1. PICK a \in Anchorers : RecordAnchor(a)
  BY DEF ChainNext, Link, CommitAudited, RollBackAudited, Alter, ReadAnchorBacklog,
         VerifyChain, Witness, LosePass
<1>2. anchored' = job[a].at /\ Recordable(job[a].at) /\ job[a].pc = "record"
  BY <1>1 DEF RecordAnchor, At
<1>3. QED
  BY <1>2 DEF Recordable, Inv, JobInv

(* A chain that was altered before any pass verified it stays that way. *)
LEMMA BrokenStaysSeen ==
    ASSUME Inv, ChainNext, BrokenAndSeen
    PROVE  BrokenAndSeen' /\ anchored' = anchored
<1> USE DEF BrokenAndSeen
<1>1. CASE UNCHANGED <<altered, job, anchored>>
  BY <1>1
<1>2. ASSUME NEW r \in rows, Alter(r) PROVE FALSE
  BY <1>2 DEF Alter
<1>3. ASSUME NEW a \in Anchorers, ReadAnchorBacklog(a)
      PROVE  BrokenAndSeen' /\ anchored' = anchored
  BY <1>3 DEF ReadAnchorBacklog, Inv, ChainTypeOK
<1>4. ASSUME NEW a \in Anchorers, VerifyChain(a)
      PROVE  BrokenAndSeen' /\ anchored' = anchored
  BY <1>4, AlteredIsSeen DEF VerifyChain, Goto, Inv, ChainTypeOK
<1>5. ASSUME NEW a \in Anchorers, Witness(a) \/ RecordAnchor(a) PROVE FALSE
  BY <1>5 DEF Witness, RecordAnchor, At
<1>6. ASSUME NEW a \in Anchorers, LosePass(a)
      PROVE  BrokenAndSeen' /\ anchored' = anchored
  BY <1>6 DEF LosePass, Goto, Inv, ChainTypeOK
<1>7. QED
  BY <1>1, <1>2, <1>3, <1>4, <1>5, <1>6 DEF ChainNext, Link, CommitAudited, RollBackAudited

(* The anchor only moves forwards, to a witnessed pair of the chain, and not at *)
(* all once the chain is broken and no pass is past its verification          *)
(* (record_audit_anchor, workers/anchor.ts).                                 *)
THEOREM AnchorsAlwaysHold == ChainSpec => AnchorsHold
<1>1. Inv /\ [ChainNext]_chainVars =>
        [/\ anchored' # anchored =>
              /\ anchored'.seq > anchored.seq
              /\ anchored' \in witnessed
              /\ \E r \in rows : PairOf(r) = anchored'
         /\ BrokenAndSeen => BrokenAndSeen' /\ anchored' = anchored]_chainVars
  BY AnchorAdvances, BrokenStaysSeen
<1>2. QED
  BY <1>1, InvInit, InvNext, PTL DEF ChainSpec, AnchorsHold

-----------------------------------------------------------------------------
(* The chain as a log.  A row commits to the part of the history up to itself, *)
(* the head to all of it, and the anchor is a row of it.                      *)

LogInv ==
    /\ Len(head.hash) = head.seq
    /\ \A r \in rows : r.seq <= head.seq /\ r.hash = SubSeq(head.hash, 1, r.seq)
    /\ \A i \in 1 .. head.seq : \E r \in rows : r.event = head.hash[i]
    /\ anchored = Zero \/ \E r \in rows : PairOf(r) = anchored
    /\ \A t \in Events : draft[t] # NoRow => ~Committed(t)

(* What is appended to a history leaves the histories below it as they are. *)
LEMMA AppendKeeps ==
    ASSUME NEW S, NEW s \in Seq(S), NEW t \in S
    PROVE  /\ Append(s, t) \in Seq(S)
           /\ Len(Append(s, t)) = Len(s) + 1
           /\ \A i \in 1 .. Len(s) : Append(s, t)[i] = s[i]
           /\ Append(s, t)[Len(s) + 1] = t
           /\ \A n \in 1 .. Len(s) : SubSeq(Append(s, t), 1, n) = SubSeq(s, 1, n)
           /\ SubSeq(Append(s, t), 1, Len(s) + 1) = Append(s, t)
OBVIOUS

LEMMA LogInit == ChainInit => LogInv
BY DEF ChainInit, LogInv, Zero

(* A commit appends its event to the head's history. *)
LEMMA LogCommit ==
    ASSUME Inv, LogInv, NEW t \in Events, CommitAudited(t)
    PROVE  LogInv'
<1> PICK new : new = NextRow(t)
  OBVIOUS
<1>1. /\ rows' = rows \cup {new}
      /\ head' = [seq |-> head.seq + 1, hash |-> Append(head.hash, t)]
      /\ anchored' = anchored /\ draft' = [draft EXCEPT ![t] = NoRow]
  <2>1. draft[t] = new
    BY DEF CommitAudited, Inv, DraftInv
  <2>2. PairOf(new) = [seq |-> head.seq + 1, hash |-> Append(head.hash, t)]
    BY DEF PairOf, NextRow
  <2>3. QED
    BY <2>1, <2>2 DEF CommitAudited
<1>2. head.seq \in Nat /\ head.hash \in Seq(Events) /\ Len(head.hash) = head.seq
  BY DEF Inv, ChainTypeOK, Pair, LogInv
<1>3. /\ new.seq = head.seq + 1 /\ new.event = t /\ new.hash = Append(head.hash, t)
      /\ head'.seq = head.seq + 1 /\ head'.hash = Append(head.hash, t)
  BY <1>1 DEF NextRow
<1>4. Len(head'.hash) = head'.seq
  BY <1>2, <1>3, AppendKeeps
<1>5. ASSUME NEW r \in rows'
      PROVE  r.seq <= head'.seq /\ r.hash = SubSeq(head'.hash, 1, r.seq)
  <2>1. CASE r \in rows
    <3>1. r.seq \in 1 .. head.seq /\ r.hash = SubSeq(head.hash, 1, r.seq)
      BY <2>1, <1>2 DEF LogInv, Inv, ChainTypeOK, Row
    <3>2. SubSeq(head'.hash, 1, r.seq) = SubSeq(head.hash, 1, r.seq)
      BY <1>2, <1>3, <3>1, AppendKeeps
    <3>3. QED
      BY <1>2, <1>3, <3>1, <3>2
  <2>2. CASE r = new
    <3>1. SubSeq(head'.hash, 1, Len(head.hash) + 1) = head'.hash
      BY <1>2, <1>3, AppendKeeps
    <3>2. /\ r.seq = head'.seq /\ r.hash = head'.hash
          /\ head'.seq = Len(head.hash) + 1 /\ head'.seq \in Nat
      BY <1>2, <1>3, <2>2
    <3>3. QED
      BY <3>1, <3>2
  <2>3. QED
    BY <1>1, <2>1, <2>2
<1>6. ASSUME NEW i \in 1 .. head'.seq
      PROVE  \E r \in rows' : r.event = head'.hash[i]
  <2>1. CASE i \in 1 .. head.seq
    <3>1. head'.hash[i] = head.hash[i]
      BY <1>2, <1>3, <2>1, AppendKeeps
    <3>2. QED
      BY <1>1, <2>1, <3>1 DEF LogInv
  <2>2. CASE i = head.seq + 1
    <3>1. head'.hash[i] = t
      BY <1>2, <1>3, <2>2, AppendKeeps
    <3>2. QED
      BY <1>1, <1>3, <3>1
  <2>3. QED
    BY <1>2, <1>3, <2>1, <2>2
<1>7. anchored' = Zero \/ \E r \in rows' : PairOf(r) = anchored'
  BY <1>1 DEF LogInv
<1>8. ASSUME NEW u \in Events, draft'[u] # NoRow PROVE ~Committed(u)'
  <2>1. draft[u] # NoRow /\ u # t
    BY <1>1, <1>8 DEF Inv, ChainTypeOK, DraftInv
  <2>2. QED
    BY <1>1, <1>3, <2>1 DEF LogInv, Committed
<1>9. QED
  BY <1>4, <1>5, <1>6, <1>7, <1>8 DEF LogInv

(* Every step keeps it. *)
LEMMA LogNext == Inv /\ LogInv /\ [ChainNext]_chainVars => LogInv'
<1> SUFFICES ASSUME Inv, LogInv, [ChainNext]_chainVars PROVE LogInv'
  OBVIOUS
<1>1. ASSUME NEW t \in Events, Link(t) PROVE LogInv'
  BY <1>1 DEF Link, LogInv, Committed, Inv, ChainTypeOK
<1>2. ASSUME NEW t \in Events, CommitAudited(t) PROVE LogInv'
  BY <1>2, LogCommit
<1>3. ASSUME NEW t \in Events, RollBackAudited(t) PROVE LogInv'
  BY <1>3 DEF RollBackAudited, LogInv, Committed, Inv, ChainTypeOK
<1>4. ASSUME NEW a \in Anchorers, RecordAnchor(a) PROVE LogInv'
  BY <1>4 DEF RecordAnchor, Recordable, LogInv, Committed
<1>5. CASE UNCHANGED <<rows, head, draft, anchored>>
  BY <1>5 DEF LogInv, Committed
<1>6. QED
  BY <1>1, <1>2, <1>3, <1>4, <1>5
  DEF ChainNext, Alter, ReadAnchorBacklog, VerifyChain, Witness, LosePass, chainVars

(* Each step appends one event to the log, attests to more of it, or does      *)
(* neither.                                                                    *)
LEMMA LogStep ==
    ASSUME Inv, LogInv, [ChainNext]_chainVars
    PROVE  [TheLog!Next]_(TheLog!logVars)
<1> USE DEF TheLog!logVars
<1>1. head.seq \in Nat /\ head.hash \in Seq(Events) /\ Len(head.hash) = head.seq
  BY DEF Inv, ChainTypeOK, Pair, LogInv
<1>2. ASSUME NEW t \in Events, CommitAudited(t) PROVE TheLog!Next
  <2>1. draft[t] = NextRow(t) /\ ~Committed(t)
    BY <1>2 DEF CommitAudited, Inv, DraftInv, LogInv
  <2>2. head'.hash = Append(head.hash, t) /\ anchored' = anchored
    BY <1>2, <2>1 DEF CommitAudited, PairOf, NextRow
  <2>3. \A i \in 1 .. Len(head.hash) : head.hash[i] # t
    BY <1>1, <2>1 DEF LogInv, Committed
  <2>4. TheLog!Write(t)
    BY <2>2, <2>3 DEF TheLog!Write
  <2>5. QED
    BY <2>4 DEF TheLog!Next
<1>3. ASSUME NEW a \in Anchorers, RecordAnchor(a), anchored' # anchored PROVE TheLog!Next
  <2> DEFINE p == job[a].at
  <2>1. anchored' = p /\ Recordable(p) /\ head' = head
    BY <1>3 DEF RecordAnchor
  <2>2. PICK r \in rows : PairOf(r) = p
    BY <2>1 DEF Recordable
  <2>3. p.seq = r.seq /\ p.hash = r.hash /\ r.seq \in 1 .. head.seq
    BY <1>1, <2>2 DEF PairOf, LogInv, Inv, ChainTypeOK, Row
  <2>4. p.hash = SubSeq(head.hash, 1, p.seq)
    BY <2>3 DEF LogInv
  <2>5. Len(anchored.hash) = anchored.seq
    <3>1. CASE anchored = Zero
      BY <3>1 DEF Zero
    <3>2. CASE \E q \in rows : PairOf(q) = anchored
      <4>1. PICK q \in rows : PairOf(q) = anchored
        BY <3>2
      <4>2. /\ anchored.seq = q.seq /\ anchored.hash = SubSeq(head.hash, 1, q.seq)
            /\ q.seq \in 1 .. head.seq
        BY <1>1, <4>1 DEF PairOf, LogInv, Inv, ChainTypeOK, Row
      <4>3. QED
        BY <1>1, <4>2
    <3>3. QED
      BY <3>1, <3>2 DEF LogInv
  <2>6. p.seq > Len(anchored.hash)
    BY <2>1, <2>5 DEF Recordable
  <2>7. TheLog!Attest(p.seq)
    BY <2>1, <2>4, <2>6 DEF TheLog!Attest
  <2>8. QED
    BY <1>1, <2>3, <2>7 DEF TheLog!Next
<1>4. CASE UNCHANGED <<head, anchored>>
  BY <1>4
<1>5. QED
  BY <1>2, <1>3, <1>4
  DEF ChainNext, Link, RollBackAudited, Alter, ReadAnchorBacklog, VerifyChain, Witness,
      RecordAnchor, LosePass, chainVars

(* The chain implements an append-only log: no order in which operations take  *)
(* the head, roll back or are anchored rewrites it, repeats an operation, or   *)
(* anchors anything but a beginning of it (IsAppendLog).                       *)
THEOREM ChainIsAnAppendLog == ChainSpec => IsAppendLog
<1>1. ChainInit => TheLog!Init
  BY DEF ChainInit, Zero, TheLog!Init
<1>2. Inv /\ LogInv /\ [ChainNext]_chainVars => [TheLog!Next]_(TheLog!logVars)
  BY LogStep
<1>3. QED
  BY <1>1, <1>2, InvInit, InvNext, LogInit, LogNext, PTL DEF ChainSpec, IsAppendLog, TheLog!Spec
=============================================================================
