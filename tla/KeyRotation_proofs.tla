-------------------------- MODULE KeyRotation_proofs --------------------------
(***************************************************************************)
(* Proofs about KeyRotation, for any set of secrets, entries, people and     *)
(* re-encryption passes, and any number of rotations.                        *)
(***************************************************************************)
EXTENDS KeyRotation, TLAPS

-----------------------------------------------------------------------------
(* Type correctness, with the items the open transactions write. *)

ItemInv ==
    \A s \in Sessions : /\ pc[s] # "idle" => item[s] \in Items
                        /\ pc[s] = "keyed" => item[s] \in Secrets

(* The vault has its types at first, and no session an item. *)
LEMMA TypeInit == Init => TypeOK /\ ItemInv
BY ItemsAssumption, ValuesAssumption, Bounds
DEF Init, TypeOK, ItemInv, Phases, Envelope, Absent, Versions, Generations, Items

(* The end of a transaction resets its session to the types. *)
LEMMA EndIsType ==
    ASSUME TypeOK, ItemInv, NEW s \in Sessions, EndTransaction(s)
    PROVE  /\ lock' \in [Items -> Sessions \cup {None}]
           /\ pc' \in [Sessions -> Phases]
           /\ item' \in [Sessions -> Items \cup {None}]
           /\ value' \in [Sessions -> Values \cup {None}]
           /\ key' \in [Sessions -> Generations \cup {0}]
           /\ seal' \in [Sessions -> Versions \cup {0}]
           /\ expected' \in [Sessions -> Versions \cup {0}]
           /\ ItemInv'
<1>1. /\ pc' \in [Sessions -> Phases]
      /\ \A t \in Sessions : t # s => pc'[t] = pc[t] /\ item'[t] = item[t]
      /\ pc'[s] = "idle"
  BY DEF TypeOK, EndTransaction, Goto, Phases
<1>2. ItemInv'
  BY <1>1 DEF ItemInv
<1>3. QED
  BY <1>1, <1>2 DEF TypeOK, EndTransaction

(* The type invariant, with the items of the sessions, is inductive. *)
LEMMA TypeNext == TypeOK /\ ItemInv /\ [Next]_vars => TypeOK' /\ ItemInv'
<1> SUFFICES ASSUME TypeOK, ItemInv, [Next]_vars PROVE TypeOK' /\ ItemInv'
  OBVIOUS
<1> USE DEF keyVars, sessionVars
<1>1. CASE BeginRotation
  BY <1>1 DEF BeginRotation, TypeOK, ItemInv
<1>2. CASE Retire
  BY <1>2 DEF Retire, TypeOK, ItemInv
<1>3. ASSUME NEW g \in Generations, CountDependents(g) PROVE TypeOK' /\ ItemInv'
  BY <1>3 DEF CountDependents, TypeOK, ItemInv
<1>4. ASSUME NEW s \in Sessions, NEW i \in Items, NEW v \in Values \cup {None},
             StartWrite(s, i, v)
      PROVE  TypeOK' /\ ItemInv'
  BY <1>4 DEF StartWrite, Goto, TypeOK, ItemInv, Phases
<1>5. ASSUME NEW s \in Sessions, NEW i \in Items, RevealForRotation(s, i)
      PROVE  TypeOK' /\ ItemInv'
  <2>1. stored[i].value \in Values \cup {None} /\ stored[i].version \in Versions \cup {0}
    BY DEF TypeOK, Envelope
  <2>2. QED
    BY <1>5, <2>1 DEF RevealForRotation, Goto, TypeOK, ItemInv, Phases
<1>6. ASSUME NEW s \in Sessions, NEW i \in Items, LockEntryForRotation(s, i)
      PROVE  TypeOK' /\ ItemInv'
  <2>1. stored[i].value \in Values \cup {None} /\ stored[i].version + 1 \in Versions
    BY <1>6, Bounds DEF LockEntryForRotation, CanLock, TypeOK, Envelope, Versions
  <2>2. QED
    BY <1>6, <2>1 DEF LockEntryForRotation, Goto, TypeOK, ItemInv, Phases
<1>7. ASSUME NEW s \in Sessions, ReadKeyFirst(s) PROVE TypeOK' /\ ItemInv'
  BY <1>7 DEF ReadKeyFirst, Goto, TypeOK, ItemInv, Phases, Items
<1>8. ASSUME NEW s \in Sessions, LockSecret(s) \/ LockEntry(s) PROVE TypeOK' /\ ItemInv'
  <2>1. item[s] \in Items /\ pc' = [pc EXCEPT ![s] = "locked"]
    BY <1>8 DEF LockSecret, LockEntry, ItemInv, Goto
  <2>2. stored[item[s]].version + 1 \in Versions
    BY <1>8, <2>1, Bounds
    DEF LockSecret, LockEntry, CanLock, TypeOK, Envelope, Versions
  <2>3. QED
    BY <1>8, <2>1, <2>2 DEF LockSecret, LockEntry, TypeOK, ItemInv, Phases
<1>9. ASSUME NEW s \in Sessions, WriteVersion(s) PROVE TypeOK' /\ ItemInv'
  BY <1>9 DEF WriteVersion, Goto, TypeOK, ItemInv, Phases
<1>10. ASSUME NEW s \in Sessions, SealEntry(s) PROVE TypeOK' /\ ItemInv'
  BY <1>10 DEF SealEntry, Goto, TypeOK, ItemInv, Phases
<1>11. ASSUME NEW s \in Sessions, Commit(s) PROVE TypeOK' /\ ItemInv'
  <2>1. item[s] \in Items
    BY <1>11 DEF Commit, ItemInv
  <2> DEFINE new == [version |-> IF key[s] = 0 THEN stored[item[s]].version
                                               ELSE stored[item[s]].version + 1,
                     seal |-> seal[s], key |-> key[s], value |-> value[s]]
  <2>2. new \in Envelope
    BY <1>11, <2>1, Bounds DEF Commit, TypeOK, Envelope, Versions
  <2>3. stored' = [stored EXCEPT ![item[s]] = new]
    BY <1>11, <2>1 DEF Commit, TypeOK
  <2>4. stored' \in [Items -> Envelope]
    BY <2>2, <2>3 DEF TypeOK
  <2>5. QED
    BY <1>11, <2>4, EndIsType DEF Commit, TypeOK
<1>12. ASSUME NEW s \in Sessions, Abort(s) PROVE TypeOK' /\ ItemInv'
  BY <1>12, EndIsType DEF Abort, TypeOK
<1>13. CASE UNCHANGED vars
  BY <1>13 DEF vars, TypeOK, ItemInv
<1>14. QED
  BY <1>1, <1>2, <1>3, <1>4, <1>5, <1>6, <1>7, <1>8, <1>9, <1>10, <1>11, <1>12, <1>13
  DEF Next

(* The vault is type-correct; in particular no write ever allocates a version *)
(* beyond the next one (TypeOK).                                              *)
THEOREM TypeCorrect == Spec => []TypeOK
BY TypeInit, TypeNext, PTL DEF Spec

-----------------------------------------------------------------------------
(* The keys. *)

ActiveIs(g) ==
    /\ status[g] = "active"
    /\ \A h \in Generations : /\ h < g => status[h] \in {"retiring", "retired"}
                              /\ h > g => status[h] = "none"

(* The first key is the active one. *)
LEMMA KeysInit == Init => OneActiveKey
<1> SUFFICES ASSUME Init PROVE OneActiveKey
  OBVIOUS
<1>1. 1 \in Generations /\ ActiveIs(1)
  BY Bounds DEF Init, ActiveIs, Generations
<1>2. QED
  BY <1>1 DEF OneActiveKey, ActiveIs

(* Rotation and retirement keep one active key, the latest one minted. *)
LEMMA KeysNext == TypeOK /\ OneActiveKey /\ [Next]_vars => OneActiveKey'
<1> SUFFICES ASSUME TypeOK, OneActiveKey, [Next]_vars PROVE OneActiveKey'
  OBVIOUS
<1>1. PICK g \in Generations : ActiveIs(g)
  BY DEF OneActiveKey, ActiveIs
<1>2. CASE BeginRotation
  <2>1. PICK h \in Generations :
          /\ status[h] = "active" /\ h + 1 \in Generations
          /\ status' = [status EXCEPT ![h] = "retiring", ![h + 1] = "active"]
    BY <1>2 DEF BeginRotation
  <2>2. h = g
    BY <1>1, <2>1 DEF ActiveIs, Generations
  <2>3. ActiveIs(g + 1)'
    BY <1>1, <2>1, <2>2 DEF ActiveIs, TypeOK, Generations
  <2>4. QED
    BY <2>1, <2>2, <2>3 DEF OneActiveKey, ActiveIs
<1>3. CASE Retire
  <2>1. checked \in Generations
    BY <1>3 DEF Retire, TypeOK
  <2>2. ActiveIs(g)'
    BY <1>1, <1>3, <2>1 DEF Retire, ActiveIs, TypeOK, Generations
  <2>3. QED
    BY <2>2 DEF OneActiveKey, ActiveIs
<1>4. CASE UNCHANGED status
  BY <1>4 DEF OneActiveKey
<1>5. QED
  BY <1>2, <1>3, <1>4
  DEF Next, vars, keyVars, CountDependents, StartWrite, RevealForRotation,
      LockEntryForRotation, ReadKeyFirst, LockSecret, WriteVersion, LockEntry, SealEntry,
      Commit, Abort

(* However rotations and retirements interleave, there is exactly one key to *)
(* write with: what is older is on its way out, what is newer not yet minted *)
(* (OneActiveKey).                                                           *)
THEOREM OneKeyIsActive == Spec => []OneActiveKey
BY TypeInit, TypeNext, KeysInit, KeysNext, PTL DEF Spec

-----------------------------------------------------------------------------
(* The vault.  A session that has locked its item is the only one that can   *)
(* change it, so what it read then still holds when it commits.              *)

Minted(g) == status[g] # "none"

Underway(s) == pc[s] \in {"locked", "written"}

(* What is stored opens, under a key that exists. *)
StoredInv ==
    \A i \in Items : Sealed(i) => /\ stored[i].seal = stored[i].version
                                  /\ stored[i].version # 0
                                  /\ Minted(stored[i].key)

(* A session's key was read from the active one, and an entry's is read last. *)
KeyInv(s) ==
    /\ key[s] # 0 => Minted(key[s])
    /\ key[s] # 0 => pc[s] \in {"keyed", "locked", "written"}
    /\ pc[s] = "keyed" => key[s] # 0
    /\ Underway(s) /\ item[s] \in Secrets => key[s] # 0
    /\ pc[s] = "locked" /\ item[s] \in Entries => key[s] = 0

(* What a session has locked, and what it will store there. *)
LockInv(s) ==
    /\ Underway(s) => lock[item[s]] = s
    /\ pc[s] = "locked" => seal[s] = stored[item[s]].version + 1
    /\ pc[s] = "written" /\ key[s] # 0 => /\ seal[s] = stored[item[s]].version + 1
                                         /\ key[s] >= stored[item[s]].key

VaultInv == StoredInv /\ \A s \in Sessions : KeyInv(s) /\ LockInv(s)

(* The step of a session leaves the others' transactions and locks alone.    *)
OthersKept(s) ==
    /\ \A t \in Sessions \ {s} :
         /\ pc'[t] = pc[t] /\ item'[t] = item[t] /\ value'[t] = value[t]
         /\ key'[t] = key[t] /\ seal'[t] = seal[t] /\ expected'[t] = expected[t]
    /\ \A t \in Sessions \ {s}, i \in Items : lock[i] = t => lock'[i] = t

(* One session moves on without writing: only its own part of the invariant  *)
(* is in question.                                                           *)
LEMMA SessionStep ==
    ASSUME TypeOK, ItemInv, VaultInv, NEW s \in Sessions, OthersKept(s),
           stored' = stored, status' = status, KeyInv(s)', LockInv(s)'
    PROVE  VaultInv'
<1>1. StoredInv'
  BY DEF VaultInv, StoredInv, Sealed, Minted
<1>2. ASSUME NEW t \in Sessions \ {s} PROVE KeyInv(t)' /\ LockInv(t)'
  BY <1>2 DEF VaultInv, OthersKept, KeyInv, LockInv, Underway, Minted, ItemInv
<1>3. QED
  BY <1>1, <1>2 DEF VaultInv

(* What exists at first was sealed under version 1 and the first key. *)
LEMMA VaultInit == Init => VaultInv
<1> SUFFICES ASSUME Init PROVE VaultInv
  OBVIOUS
<1>1. 1 \in Generations
  BY Bounds DEF Generations
<1>2. StoredInv
  BY <1>1 DEF Init, StoredInv, Sealed, Minted, Absent
<1>3. QED
  BY <1>2 DEF Init, VaultInv, KeyInv, LockInv, Underway

(* The active key is the latest one: it is not older than any key in use.    *)
LEMMA ActiveIsLatest ==
    ASSUME OneActiveKey, NEW g \in Generations, status[g] = "active",
           NEW h \in Generations, Minted(h)
    PROVE  h <= g
BY DEF OneActiveKey, Minted, Generations

(* Every step keeps the vault's invariant: only the holder of a row's lock   *)
(* changes the row.                                                          *)
LEMMA VaultNext ==
    TypeOK /\ ItemInv /\ OneActiveKey /\ VaultInv /\ [Next]_vars => VaultInv'
<1> SUFFICES ASSUME TypeOK, ItemInv, OneActiveKey, VaultInv, [Next]_vars PROVE VaultInv'
  OBVIOUS
<1> USE DEF keyVars, sessionVars
<1>1. CASE BeginRotation \/ Retire \/ \E g \in Generations : CountDependents(g)
  <2>1. \A g \in Generations : Minted(g) => Minted(g)'
    BY <1>1 DEF BeginRotation, Retire, CountDependents, Minted, TypeOK
  <2>2. UNCHANGED <<stored, lock, sessionVars>>
    BY <1>1 DEF BeginRotation, Retire, CountDependents
  <2>3. StoredInv'
    BY <2>1, <2>2 DEF VaultInv, StoredInv, Sealed, TypeOK, Envelope
  <2>4. \A s \in Sessions : KeyInv(s)'
    BY <2>1, <2>2 DEF VaultInv, KeyInv, Underway, TypeOK
  <2>5. \A s \in Sessions : LockInv(s)'
    BY <2>2 DEF VaultInv, LockInv, Underway
  <2>6. QED
    BY <2>3, <2>4, <2>5 DEF VaultInv
<1>2. ASSUME NEW s \in Sessions, NEW i \in Items, NEW v \in Values \cup {None},
             StartWrite(s, i, v)
      PROVE  VaultInv'
  <2>1. pc'[s] = "begun" /\ key'[s] = key[s] /\ pc[s] = "idle"
    BY <1>2 DEF StartWrite, Goto, TypeOK
  <2>2. KeyInv(s)' /\ LockInv(s)'
    BY <2>1 DEF VaultInv, KeyInv, LockInv, Underway
  <2>3. OthersKept(s)
    BY <1>2 DEF StartWrite, Goto, OthersKept, TypeOK
  <2>4. QED
    BY <1>2, <2>2, <2>3, SessionStep DEF StartWrite
<1>3. ASSUME NEW s \in Sessions, NEW i \in Items, RevealForRotation(s, i) PROVE VaultInv'
  <2>1. pc'[s] = "begun" /\ key'[s] = key[s] /\ pc[s] = "idle"
    BY <1>3 DEF RevealForRotation, Goto, TypeOK
  <2>2. KeyInv(s)' /\ LockInv(s)'
    BY <2>1 DEF VaultInv, KeyInv, LockInv, Underway
  <2>3. OthersKept(s)
    BY <1>3 DEF RevealForRotation, Goto, OthersKept, TypeOK
  <2>4. QED
    BY <1>3, <2>2, <2>3, SessionStep DEF RevealForRotation
<1>4. ASSUME NEW s \in Sessions, NEW i \in Items, LockEntryForRotation(s, i)
      PROVE  VaultInv'
  <2>1. /\ pc'[s] = "locked" /\ key'[s] = key[s] /\ pc[s] = "idle" /\ item'[s] = i
        /\ seal'[s] = stored[i].version + 1 /\ stored' = stored /\ lock'[i] = s
    BY <1>4 DEF LockEntryForRotation, Goto, TypeOK
  <2>2. i \in Entries /\ i \notin Secrets
    BY <1>4, ItemsAssumption DEF LockEntryForRotation
  <2>3. KeyInv(s)' /\ LockInv(s)'
    BY <2>1, <2>2 DEF VaultInv, KeyInv, LockInv, Underway
  <2>4. OthersKept(s)
    BY <1>4, SessionsAssumption
    DEF LockEntryForRotation, CanLock, Goto, OthersKept, TypeOK
  <2>5. QED
    BY <1>4, <2>3, <2>4, SessionStep DEF LockEntryForRotation
<1>5. ASSUME NEW s \in Sessions, ReadKeyFirst(s) PROVE VaultInv'
  <2>1. PICK g \in Generations : status[g] = "active" /\ key' = [key EXCEPT ![s] = g]
    BY <1>5 DEF ReadKeyFirst
  <2>2. pc'[s] = "keyed" /\ key'[s] = g /\ g # 0 /\ status' = status /\ item'[s] = item[s]
    BY <1>5, <2>1 DEF ReadKeyFirst, Goto, TypeOK, Generations
  <2>3. KeyInv(s)' /\ LockInv(s)'
    BY <2>1, <2>2 DEF KeyInv, LockInv, Underway, Minted
  <2>4. OthersKept(s)
    BY <1>5, <2>1 DEF ReadKeyFirst, Goto, OthersKept, TypeOK
  <2>5. QED
    BY <1>5, <2>3, <2>4, SessionStep DEF ReadKeyFirst
<1>6. ASSUME NEW s \in Sessions, LockSecret(s) \/ LockEntry(s) PROVE VaultInv'
  <2>1. /\ item[s] \in Items
        /\ lock[item[s]] = None
        /\ lock' = [lock EXCEPT ![item[s]] = s]
    BY <1>6 DEF LockSecret, LockEntry, CanLock, ItemInv
  <2>2. /\ pc'[s] = "locked" /\ key'[s] = key[s] /\ item'[s] = item[s]
        /\ seal'[s] = stored[item[s]].version + 1 /\ stored' = stored
        /\ status' = status /\ lock'[item[s]] = s
    BY <1>6, <2>1 DEF LockSecret, LockEntry, Goto, TypeOK
  <2>3. IF key[s] = 0 THEN item[s] \in Entries /\ item[s] \notin Secrets
                      ELSE item[s] \notin Entries /\ Minted(key[s])
    BY <1>6, ItemsAssumption DEF LockSecret, LockEntry, VaultInv, KeyInv, ItemInv
  <2>4. KeyInv(s)' /\ LockInv(s)'
    BY <2>2, <2>3 DEF KeyInv, LockInv, Underway, Minted
  <2>5. OthersKept(s)
    BY <1>6, <2>1, SessionsAssumption DEF LockSecret, LockEntry, Goto, OthersKept, TypeOK
  <2>6. QED
    BY <1>6, <2>4, <2>5, SessionStep DEF LockSecret, LockEntry
<1>7. ASSUME NEW s \in Sessions, WriteVersion(s) PROVE VaultInv'
  <2>1. /\ pc[s] = "locked" /\ pc'[s] = "written" /\ item'[s] = item[s]
        /\ key'[s] = key[s] /\ seal'[s] = seal[s]
        /\ UNCHANGED <<stored, status, lock>>
        /\ item[s] \in Secrets /\ item[s] \in Items
        /\ status[key[s]] = "active"
    BY <1>7 DEF WriteVersion, Accepts, Goto, TypeOK, ItemInv
  <2>2. key[s] \in Generations
    BY <2>1 DEF VaultInv, KeyInv, Underway, TypeOK
  <2>3. stored[item[s]].key = 0 \/ (/\ stored[item[s]].key \in Generations
                                    /\ Minted(stored[item[s]].key))
    BY <2>1 DEF VaultInv, StoredInv, Sealed, TypeOK, Envelope
  <2>4. key[s] >= stored[item[s]].key
    BY <2>1, <2>2, <2>3, ActiveIsLatest DEF Generations
  <2>5. KeyInv(s)' /\ LockInv(s)'
    BY <2>1, <2>4 DEF VaultInv, KeyInv, LockInv, Underway, Minted
  <2>6. OthersKept(s)
    BY <1>7 DEF WriteVersion, Goto, OthersKept, TypeOK
  <2>7. QED
    BY <2>1, <2>5, <2>6, SessionStep
<1>8. ASSUME NEW s \in Sessions, SealEntry(s) PROVE VaultInv'
  <2>1. /\ pc[s] = "locked" /\ pc'[s] = "written" /\ item'[s] = item[s]
        /\ UNCHANGED <<stored, status, lock>>
        /\ item[s] \in Entries /\ item[s] \notin Secrets /\ item[s] \in Items
    BY <1>8, ItemsAssumption DEF SealEntry, Goto, TypeOK, ItemInv
  <2>2. key[s] = 0 /\ seal[s] = stored[item[s]].version + 1
    BY <2>1 DEF VaultInv, KeyInv, LockInv
  <2>3. OthersKept(s)
    BY <1>8 DEF SealEntry, Goto, OthersKept, TypeOK
  <2>4. CASE value[s] = None
    <3>1. key'[s] = 0
      BY <1>8, <2>2, <2>4 DEF SealEntry
    <3>2. KeyInv(s)' /\ LockInv(s)'
      BY <2>1, <3>1 DEF VaultInv, KeyInv, LockInv, Underway
    <3>3. QED
      BY <2>1, <2>3, <3>2, SessionStep
  <2>5. CASE value[s] # None
    <3>1. PICK g \in Generations : status[g] = "active" /\ key' = [key EXCEPT ![s] = g]
      BY <1>8, <2>5 DEF SealEntry
    <3>2. key'[s] = g /\ seal' = seal /\ g # 0
      BY <1>8, <2>5, <3>1 DEF SealEntry, TypeOK, Generations
    <3>3. stored[item[s]].key = 0 \/ (/\ stored[item[s]].key \in Generations
                                      /\ Minted(stored[item[s]].key))
      BY <2>1 DEF VaultInv, StoredInv, Sealed, TypeOK, Envelope
    <3>4. g >= stored[item[s]].key
      BY <3>1, <3>3, ActiveIsLatest DEF Generations
    <3>5. KeyInv(s)' /\ LockInv(s)'
      BY <2>1, <2>2, <3>1, <3>2, <3>4 DEF VaultInv, KeyInv, LockInv, Underway, Minted
    <3>6. QED
      BY <2>1, <2>3, <3>5, SessionStep
  <2>6. QED
    BY <2>4, <2>5
<1>9. ASSUME NEW s \in Sessions, Commit(s) PROVE VaultInv'
  <2>1. /\ item[s] \in Items /\ pc[s] = "written" /\ lock[item[s]] = s
        /\ pc'[s] = "idle" /\ key'[s] = 0 /\ status' = status
    BY <1>9 DEF Commit, EndTransaction, Goto, TypeOK, ItemInv, VaultInv, LockInv, Underway
  <2>2. \A i \in Items \ {item[s]} : stored'[i] = stored[i]
    BY <1>9 DEF Commit, TypeOK
  <2>3. stored'[item[s]] = [version |-> IF key[s] = 0 THEN stored[item[s]].version
                                                      ELSE stored[item[s]].version + 1,
                            seal |-> seal[s], key |-> key[s], value |-> value[s]]
    BY <1>9, <2>1 DEF Commit, TypeOK
  <2>4. StoredInv'
    <3>1. ASSUME NEW i \in Items, i # item[s], stored'[i].key # 0
          PROVE  /\ stored'[i].seal = stored'[i].version /\ stored'[i].version # 0
                 /\ status'[stored'[i].key] # "none"
      BY <2>1, <2>2, <3>1 DEF VaultInv, StoredInv, Sealed, Minted
    <3>2. ASSUME NEW i \in Items, i = item[s], stored'[i].key # 0
          PROVE  /\ stored'[i].seal = stored'[i].version /\ stored'[i].version # 0
                 /\ status'[stored'[i].key] # "none"
      <4>1. stored[i].version \in Nat
        BY Bounds DEF TypeOK, Envelope, Versions
      <4>2. QED
        BY <2>1, <2>3, <3>2, <4>1 DEF VaultInv, KeyInv, LockInv, Minted
    <3>3. QED
      BY <3>1, <3>2 DEF StoredInv, Sealed, Minted
  <2>5. OthersKept(s)
    BY <1>9 DEF Commit, EndTransaction, Goto, OthersKept, TypeOK
  <2>6. KeyInv(s)' /\ LockInv(s)'
    BY <2>1 DEF KeyInv, LockInv, Underway
  <2>7. ASSUME NEW t \in Sessions \ {s} PROVE KeyInv(t)' /\ LockInv(t)'
    <3>1. Underway(t) => item[t] \in Items \ {item[s]}
      BY <2>1 DEF VaultInv, LockInv, Underway, ItemInv
    <3>2. QED
      BY <2>1, <2>2, <2>5, <3>1
      DEF VaultInv, OthersKept, KeyInv, LockInv, Underway, Minted, ItemInv
  <2>8. QED
    BY <2>4, <2>6, <2>7 DEF VaultInv
<1>10. ASSUME NEW s \in Sessions, Abort(s) PROVE VaultInv'
  <2>1. pc'[s] = "idle" /\ key'[s] = 0
    BY <1>10 DEF Abort, EndTransaction, Goto, TypeOK
  <2>2. OthersKept(s)
    BY <1>10 DEF Abort, EndTransaction, Goto, OthersKept, TypeOK
  <2>3. KeyInv(s)' /\ LockInv(s)'
    BY <2>1 DEF KeyInv, LockInv, Underway
  <2>4. QED
    BY <1>10, <2>2, <2>3, SessionStep DEF Abort
<1>11. CASE UNCHANGED vars
  BY <1>11 DEF vars, VaultInv, StoredInv, KeyInv, LockInv, Underway, Minted, Sealed
<1>12. QED
  BY <1>1, <1>2, <1>3, <1>4, <1>5, <1>6, <1>7, <1>8, <1>9, <1>10, <1>11 DEF Next

(* Whoever else is writing, rotating or retiring, every current version is   *)
(* bound to the number it is stored under, and opens (Openable).             *)
THEOREM EveryVersionOpens == Spec => []Openable
<1>1. VaultInv => Openable
  BY DEF VaultInv, StoredInv, Openable
<1>2. QED
  BY <1>1, TypeInit, TypeNext, KeysInit, KeysNext, VaultInit, VaultNext, PTL DEF Spec

(* No step takes an item to an earlier key: what is written was accepted     *)
(* under a key no older than the one it replaces.                            *)
LEMMA KeyStep ==
    TypeOK /\ ItemInv /\ VaultInv /\ [Next]_vars
        => \A i \in Items : stored'[i].key >= stored[i].key \/ stored'[i].key = 0
<1> SUFFICES ASSUME TypeOK, ItemInv, VaultInv, [Next]_vars, NEW i \in Items
             PROVE  stored'[i].key >= stored[i].key \/ stored'[i].key = 0
  OBVIOUS
<1>1. stored[i].key \in Nat
  BY DEF TypeOK, Envelope, Generations
<1>2. CASE UNCHANGED stored
  BY <1>1, <1>2
<1>3. ASSUME NEW s \in Sessions, Commit(s)
      PROVE  stored'[i].key >= stored[i].key \/ stored'[i].key = 0
  <2>1. item[s] \in Items /\ pc[s] = "written"
    BY <1>3 DEF Commit, ItemInv
  <2>2. stored'[item[s]].key = key[s]
    BY <1>3, <2>1 DEF Commit, TypeOK
  <2>3. CASE i = item[s]
    BY <2>1, <2>2, <2>3 DEF VaultInv, LockInv
  <2>4. CASE i # item[s]
    BY <1>1, <1>3, <2>4 DEF Commit, TypeOK
  <2>5. QED
    BY <2>3, <2>4
<1>4. QED
  BY <1>2, <1>3
  DEF Next, vars, BeginRotation, Retire, CountDependents, StartWrite, RevealForRotation,
      LockEntryForRotation, ReadKeyFirst, LockSecret, WriteVersion, LockEntry, SealEntry,
      Abort

(* A key that is retired, stored nowhere and carried by no write about to      *)
(* commit is not accepted again: every write is sealed under an active key.    *)
LEMMA QuietStep ==
    TypeOK /\ ItemInv /\ OneActiveKey /\ VaultInv /\ [Next]_vars
        => \A g \in Generations : Quiet(g) => Quiet(g)'
<1> SUFFICES ASSUME TypeOK, ItemInv, OneActiveKey, VaultInv, [Next]_vars, NEW g \in Generations, Quiet(g)
             PROVE  Quiet(g)'
  OBVIOUS
<1> USE DEF TypeOK, keyVars, sessionVars
<1>1. status'[g] = "retired"
  <2>1. CASE BeginRotation
    <3>1. PICK h \in Generations :
             /\ status[h] = "active" /\ h + 1 \in Generations
             /\ status' = [status EXCEPT ![h] = "retiring", ![h + 1] = "active"]
      BY <2>1 DEF BeginRotation
    <3>2. status[h + 1] = "none"
      BY <3>1 DEF OneActiveKey, Generations
    <3>3. QED
      BY <3>1, <3>2 DEF Quiet
  <2>2. CASE Retire
    BY <2>2 DEF Retire, Quiet
  <2>3. CASE UNCHANGED status
    BY <2>3 DEF Quiet
  <2>4. QED
    BY <2>1, <2>2, <2>3
    DEF Next, vars, CountDependents, StartWrite, RevealForRotation, LockEntryForRotation,
        ReadKeyFirst, LockSecret, WriteVersion, LockEntry, SealEntry, Commit, Abort
<1>2. \A i \in Items : stored'[i].key # g
  <2>1. CASE UNCHANGED stored
    BY <2>1 DEF Quiet
  <2>2. ASSUME NEW s \in Sessions, Commit(s) PROVE \A i \in Items : stored'[i].key # g
    <3>1. item[s] \in Items /\ key[s] # g
      BY <2>2 DEF Commit, ItemInv, Quiet
    <3>2. \A i \in Items : stored'[i].key \in {stored[i].key, key[s]}
      BY <2>2, <3>1 DEF Commit
    <3>3. QED
      BY <3>1, <3>2 DEF Quiet
  <2>3. QED
    BY <2>1, <2>2
    DEF Next, vars, BeginRotation, Retire, CountDependents, StartWrite, RevealForRotation,
        LockEntryForRotation, ReadKeyFirst, LockSecret, WriteVersion, LockEntry,
        SealEntry, Abort
<1>3. ASSUME NEW s \in Sessions, pc'[s] = "written" PROVE key'[s] # g
  <2>1. CASE pc' = pc /\ key' = key
    BY <1>3, <2>1 DEF Quiet
  <2>2. ASSUME NEW t \in Sessions,
               \/ ReadKeyFirst(t) \/ LockSecret(t) \/ LockEntry(t) \/ Commit(t) \/ Abort(t)
               \/ \E i \in Items : \/ \E v \in Values \cup {None} : StartWrite(t, i, v)
                                   \/ RevealForRotation(t, i)
                                   \/ LockEntryForRotation(t, i)
        PROVE  key'[s] # g
    <3>1. /\ pc'[t] # "written"
          /\ \A r \in Sessions \ {t} : pc'[r] = pc[r] /\ key'[r] = key[r]
      BY <2>2 DEF ReadKeyFirst, LockSecret, LockEntry, Commit, Abort, StartWrite,
         RevealForRotation, LockEntryForRotation, EndTransaction, Goto
    <3>2. QED
      BY <1>3, <3>1 DEF Quiet
  <2>3. ASSUME NEW t \in Sessions, WriteVersion(t) \/ SealEntry(t) PROVE key'[s] # g
    <3>1. \A r \in Sessions \ {t} : pc'[r] = pc[r] /\ key'[r] = key[r]
      BY <2>3 DEF WriteVersion, SealEntry, Goto
    <3>2. CASE s = t /\ WriteVersion(t)
      BY <3>2 DEF WriteVersion, Accepts, Quiet
    <3>3. CASE s = t /\ SealEntry(t)
      <4>1. key[t] = 0
        BY <3>3 DEF SealEntry, VaultInv, KeyInv
      <4>2. key'[t] = 0 \/ status[key'[t]] = "active"
        BY <3>3, <4>1 DEF SealEntry
      <4>3. QED
        BY <3>3, <4>2 DEF Quiet, Generations
    <3>4. CASE s # t
      BY <1>3, <3>1, <3>4 DEF Quiet
    <3>5. QED
      BY <2>3, <3>2, <3>3, <3>4
  <2>4. QED
    BY <2>1, <2>2, <2>3 DEF Next, BeginRotation, Retire, CountDependents, vars
<1>4. QED
  BY <1>1, <1>2, <1>3 DEF Quiet

(* A write that read its key before a rotation never moves an item back to   *)
(* it, and no write brings back a retired key that has gone quiet             *)
(* (KeysMoveForward).                                                        *)
THEOREM KeysOnlyAdvance == Spec => KeysMoveForward
BY KeyStep, QuietStep, TypeInit, TypeNext, KeysInit, KeysNext, VaultInit, VaultNext, PTL
DEF Spec, KeysMoveForward

-----------------------------------------------------------------------------
(* The vault implements SecretRegister: a re-encryption stores the value it  *)
(* found, because the version it read is still current when it has locked    *)
(* the row, or because it read it under the lock.                            *)

RotatorInv(s) ==
    /\ pc[s] \in {"begun", "keyed"} => item[s] \in Secrets
    /\ pc[s] # "idle" /\ item[s] \in Secrets =>
         /\ expected[s] # 0
         /\ stored[item[s]].version >= expected[s]
         /\ stored[item[s]].version = expected[s] => stored[item[s]].value = value[s]
    /\ Underway(s) => stored[item[s]].value = value[s]

RotationInv == \A s \in Rotators : RotatorInv(s)

(* No re-encryption is under way at first. *)
LEMMA RotationInit == Init => RotationInv
BY DEF Init, RotationInv, RotatorInv, Underway, Sessions

(* A step of another session that stores nothing leaves a re-encryption as   *)
(* it is.                                                                    *)
LEMMA RotatorStep ==
    ASSUME RotationInv, ItemInv, NEW s \in Sessions, OthersKept(s), stored' = stored,
           s \in Rotators => RotatorInv(s)'
    PROVE  RotationInv'
<1>1. ASSUME NEW t \in Rotators, t # s PROVE RotatorInv(t)'
  BY <1>1 DEF RotationInv, RotatorInv, OthersKept, Underway, Sessions
<1>2. QED
  BY <1>1 DEF RotationInv

(* Every step keeps what a re-encryption knows: the value it carries is the  *)
(* current one as long as the version it read is.                            *)
LEMMA RotationNext ==
    TypeOK /\ ItemInv /\ VaultInv /\ RotationInv /\ [Next]_vars => RotationInv'
<1> SUFFICES ASSUME TypeOK, ItemInv, VaultInv, RotationInv, [Next]_vars PROVE RotationInv'
  OBVIOUS
<1> USE DEF keyVars, sessionVars
<1>1. CASE BeginRotation \/ Retire \/ (\E g \in Generations : CountDependents(g))
  <2>1. UNCHANGED <<stored, sessionVars>>
    BY <1>1 DEF BeginRotation, Retire, CountDependents
  <2>2. QED
    BY <2>1 DEF RotationInv, RotatorInv, Underway
<1>2. ASSUME NEW s \in Sessions, NEW i \in Items, NEW v \in Values \cup {None},
             StartWrite(s, i, v)
      PROVE  RotationInv'
  <2>1. s \notin Rotators
    BY <1>2, SessionsAssumption DEF StartWrite
  <2>2. OthersKept(s)
    BY <1>2 DEF StartWrite, Goto, OthersKept, TypeOK
  <2>3. QED
    BY <1>2, <2>1, <2>2, RotatorStep DEF StartWrite
<1>3. ASSUME NEW s \in Sessions, NEW i \in Items, RevealForRotation(s, i)
      PROVE  RotationInv'
  <2>1. /\ pc'[s] = "begun" /\ item'[s] = i /\ i \in Secrets
        /\ value'[s] = stored[i].value /\ expected'[s] = stored[i].version
        /\ stored' = stored
    BY <1>3 DEF RevealForRotation, Goto, TypeOK
  <2>2. stored[i].version # 0 /\ stored[i].version \in Nat
    BY <1>3, Bounds DEF RevealForRotation, VaultInv, StoredInv, TypeOK, Envelope, Versions
  <2>3. RotatorInv(s)'
    BY <2>1, <2>2 DEF RotatorInv, Underway
  <2>4. OthersKept(s)
    BY <1>3 DEF RevealForRotation, Goto, OthersKept, TypeOK
  <2>5. QED
    BY <2>1, <2>3, <2>4, RotatorStep
<1>4. ASSUME NEW s \in Sessions, NEW i \in Items, LockEntryForRotation(s, i)
      PROVE  RotationInv'
  <2>1. /\ pc'[s] = "locked" /\ item'[s] = i /\ i \notin Secrets
        /\ value'[s] = stored[i].value /\ stored' = stored
    BY <1>4, ItemsAssumption DEF LockEntryForRotation, Goto, TypeOK
  <2>2. RotatorInv(s)'
    BY <2>1 DEF RotatorInv, Underway
  <2>3. OthersKept(s)
    BY <1>4, SessionsAssumption
    DEF LockEntryForRotation, CanLock, Goto, OthersKept, TypeOK
  <2>4. QED
    BY <2>1, <2>2, <2>3, RotatorStep
<1>5. ASSUME NEW s \in Sessions, ReadKeyFirst(s) PROVE RotationInv'
  <2>1. /\ pc[s] = "begun" /\ pc'[s] = "keyed"
        /\ UNCHANGED <<item, value, expected, stored>>
    BY <1>5 DEF ReadKeyFirst, Goto, TypeOK
  <2>2. s \in Rotators => RotatorInv(s)'
    BY <2>1 DEF RotationInv, RotatorInv, Underway
  <2>3. OthersKept(s)
    BY <1>5 DEF ReadKeyFirst, Goto, OthersKept, TypeOK
  <2>4. QED
    BY <2>1, <2>2, <2>3, RotatorStep
<1>6. ASSUME NEW s \in Sessions, LockSecret(s) \/ LockEntry(s) PROVE RotationInv'
  <2>1. /\ pc'[s] = "locked" /\ UNCHANGED <<item, value, expected, stored>>
        /\ item[s] \in Items /\ lock[item[s]] = None
        /\ lock' = [lock EXCEPT ![item[s]] = s]
    BY <1>6 DEF LockSecret, LockEntry, CanLock, Goto, TypeOK, ItemInv
  <2>2. ASSUME s \in Rotators PROVE RotatorInv(s)'
    <3>1. LockSecret(s) /\ pc[s] = "keyed"
      BY <1>6, <2>2, ItemsAssumption
      DEF LockSecret, LockEntry, RotationInv, RotatorInv
    <3>2. item[s] \in Secrets /\ stored[item[s]].version = expected[s]
      BY <2>2, <3>1 DEF LockSecret, Stale, RotationInv, RotatorInv
    <3>3. QED
      BY <2>1, <2>2, <3>1, <3>2 DEF RotationInv, RotatorInv, Underway
  <2>3. OthersKept(s)
    BY <1>6, <2>1, SessionsAssumption DEF LockSecret, LockEntry, Goto, OthersKept, TypeOK
  <2>4. QED
    BY <2>1, <2>2, <2>3, RotatorStep
<1>7. ASSUME NEW s \in Sessions, WriteVersion(s) \/ SealEntry(s) PROVE RotationInv'
  <2>1. /\ pc[s] = "locked" /\ pc'[s] = "written"
        /\ UNCHANGED <<item, value, expected, stored>>
    BY <1>7 DEF WriteVersion, SealEntry, Goto, TypeOK
  <2>2. s \in Rotators => RotatorInv(s)'
    BY <2>1 DEF RotationInv, RotatorInv, Underway
  <2>3. OthersKept(s)
    BY <1>7 DEF WriteVersion, SealEntry, Goto, OthersKept, TypeOK
  <2>4. QED
    BY <2>1, <2>2, <2>3, RotatorStep
<1>8. ASSUME NEW s \in Sessions, Commit(s) PROVE RotationInv'
  <2>1. item[s] \in Items /\ lock[item[s]] = s /\ pc'[s] = "idle" /\ Underway(s)
    BY <1>8 DEF Commit, EndTransaction, Goto, TypeOK, ItemInv, VaultInv, LockInv, Underway
  <2>2. \A i \in Items : i # item[s] => stored'[i] = stored[i]
    BY <1>8 DEF Commit, TypeOK
  <2>3. item[s] \in Secrets => stored'[item[s]].version = stored[item[s]].version + 1
    BY <1>8, <2>1 DEF Commit, TypeOK, VaultInv, KeyInv
  <2>4. OthersKept(s)
    BY <1>8 DEF Commit, EndTransaction, Goto, OthersKept, TypeOK
  <2>5. ASSUME NEW t \in Rotators, t # s PROVE RotatorInv(t)'
    <3>1. t \in Sessions /\ UNCHANGED <<pc[t], item[t], value[t], expected[t]>>
      BY <2>4, <2>5 DEF OthersKept, Sessions
    <3>2. CASE pc[t] = "idle"
      BY <3>1, <3>2 DEF RotatorInv, Underway
    <3>3. CASE pc[t] # "idle" /\ item[t] # item[s]
      BY <2>2, <3>1, <3>3 DEF RotationInv, RotatorInv, Underway, ItemInv
    <3>4. CASE pc[t] # "idle" /\ item[t] = item[s]
      <4>1. ~Underway(t)
        BY <2>1, <2>5, <3>1, <3>4 DEF VaultInv, LockInv
      <4>2. pc[t] \in {"begun", "keyed"} /\ item[t] \in Secrets
        BY <3>1, <3>4, <4>1 DEF RotationInv, RotatorInv, Underway, TypeOK, Phases
      <4>3. stored[item[t]].version \in Nat /\ expected[t] \in Nat
        BY <2>1, <3>1, <3>4, Bounds DEF TypeOK, Envelope, Versions
      <4>4. /\ stored'[item[t]].version >= expected[t]
            /\ stored'[item[t]].version # expected[t]
        BY <2>3, <3>4, <4>2, <4>3 DEF RotationInv, RotatorInv
      <4>5. QED
        BY <3>1, <4>1, <4>2, <4>3, <4>4 DEF RotationInv, RotatorInv, Underway
    <3>5. QED
      BY <3>2, <3>3, <3>4
  <2>6. RotatorInv(s)'
    BY <2>1 DEF RotatorInv, Underway
  <2>7. QED
    BY <2>5, <2>6 DEF RotationInv
<1>9. ASSUME NEW s \in Sessions, Abort(s) PROVE RotationInv'
  <2>1. pc'[s] = "idle"
    BY <1>9 DEF Abort, EndTransaction, Goto, TypeOK
  <2>2. OthersKept(s)
    BY <1>9 DEF Abort, EndTransaction, Goto, OthersKept, TypeOK
  <2>3. QED
    BY <1>9, <2>1, <2>2, RotatorStep DEF Abort, RotatorInv, Underway
<1>10. CASE UNCHANGED vars
  BY <1>10 DEF vars, RotationInv, RotatorInv, Underway
<1>11. QED
  BY <1>1, <1>2, <1>3, <1>4, <1>5, <1>6, <1>7, <1>8, <1>9, <1>10 DEF Next

currentValue == [i \in Items |-> stored[i].value]
underSubmission ==
    [s \in Writers |-> IF pc[s] = "idle" THEN {} ELSE {<<item[s], value[s]>>}]

(* Until it commits, what a session does is invisible: a re-encryption's     *)
(* altogether, a person's once the write is submitted.                       *)
LEMMA InvisibleStep ==
    ASSUME NEW s \in Sessions, OthersKept(s), stored' = stored,
           s \in Writers => /\ pc[s] # "idle" /\ pc'[s] # "idle"
                            /\ item'[s] = item[s] /\ value'[s] = value[s]
    PROVE  UNCHANGED <<currentValue, underSubmission>>
BY DEF OthersKept, currentValue, underSubmission, Sessions

(* Every step of the vault is one of the register, or invisible to it. *)
LEMMA RegisterStep ==
    ASSUME TypeOK, ItemInv, VaultInv, RotationInv, [Next]_vars
    PROVE  [Register!Next]_<<currentValue, underSubmission>>
<1> USE DEF keyVars, sessionVars
<1> DEFINE Goal == \/ \E s \in Writers : \/ Register!Submit(s) \/ Register!Apply(s)
                                         \/ Register!Withdraw(s)
                   \/ UNCHANGED <<currentValue, underSubmission>>
<1>1. SUFFICES Goal
  BY <1>1 DEF Register!Next
<1>2. CASE UNCHANGED <<stored, sessionVars>>
  BY <1>2 DEF currentValue, underSubmission
<1>3. ASSUME NEW s \in Sessions, NEW i \in Items, NEW v \in Values \cup {None},
             StartWrite(s, i, v)
      PROVE  Goal
  <2>1. s \in Writers /\ OthersKept(s)
    BY <1>3 DEF StartWrite, Goto, OthersKept, TypeOK
  <2>2. /\ pc[s] = "idle" /\ pc'[s] = "begun" /\ item'[s] = i /\ value'[s] = v
        /\ stored' = stored
    BY <1>3 DEF StartWrite, Goto, TypeOK
  <2>3. underSubmission[s] = {}
    BY <2>1, <2>2 DEF underSubmission
  <2>4. underSubmission' = [underSubmission EXCEPT ![s] = {<<i, v>>}]
    BY <2>1, <2>2 DEF underSubmission, OthersKept, Sessions
  <2>5. currentValue' = currentValue
    BY <2>2 DEF currentValue
  <2>6. Register!Submit(s)
    BY <2>3, <2>4, <2>5 DEF Register!Submit, currentValue, underSubmission
  <2>7. QED
    BY <2>1, <2>6
<1>4. ASSUME NEW s \in Sessions, NEW i \in Items,
             RevealForRotation(s, i) \/ LockEntryForRotation(s, i)
      PROVE  Goal
  <2>1. s \notin Writers
    BY <1>4, SessionsAssumption DEF RevealForRotation, LockEntryForRotation
  <2>2. OthersKept(s)
    BY <1>4, SessionsAssumption
    DEF RevealForRotation, LockEntryForRotation, CanLock, Goto, OthersKept, TypeOK
  <2>3. QED
    BY <1>4, <2>1, <2>2, InvisibleStep DEF RevealForRotation, LockEntryForRotation
<1>5. ASSUME NEW s \in Sessions,
             \/ ReadKeyFirst(s) \/ LockSecret(s) \/ WriteVersion(s)
             \/ LockEntry(s) \/ SealEntry(s)
      PROVE  Goal
  <2>1. /\ pc[s] # "idle" /\ pc'[s] # "idle"
        /\ item' = item /\ value' = value /\ stored' = stored
    BY <1>5 DEF ReadKeyFirst, LockSecret, WriteVersion, LockEntry, SealEntry, Goto, TypeOK
  <2>2. OthersKept(s)
    BY <1>5, SessionsAssumption
    DEF ReadKeyFirst, LockSecret, WriteVersion, LockEntry, SealEntry, CanLock, Goto,
        OthersKept, TypeOK, ItemInv
  <2>3. QED
    BY <2>1, <2>2, InvisibleStep
<1>6. ASSUME NEW s \in Sessions, Commit(s) PROVE Goal
  <2>1. /\ item[s] \in Items /\ pc[s] = "written" /\ pc'[s] = "idle" /\ Underway(s)
    BY <1>6 DEF Commit, EndTransaction, Goto, TypeOK, ItemInv, Underway
  <2>2. currentValue' = [currentValue EXCEPT ![item[s]] = value[s]]
    BY <1>6, <2>1 DEF Commit, currentValue, TypeOK
  <2>3. OthersKept(s)
    BY <1>6 DEF Commit, EndTransaction, Goto, OthersKept, TypeOK
  <2>4. CASE s \in Writers
    <3>1. underSubmission[s] = {<<item[s], value[s]>>}
      BY <2>1, <2>4 DEF underSubmission
    <3>2. underSubmission' = [underSubmission EXCEPT ![s] = {}]
      BY <2>1, <2>3, <2>4 DEF underSubmission, OthersKept, Sessions
    <3>3. \E write \in underSubmission[s] :
             currentValue' = [currentValue EXCEPT ![write[1]] = write[2]]
      BY <2>2, <3>1
    <3>4. Register!Apply(s)
      BY <3>2, <3>3 DEF Register!Apply, currentValue, underSubmission
    <3>5. QED
      BY <2>4, <3>4
  <2>5. CASE s \notin Writers
    <3>1. currentValue[item[s]] = value[s]
      BY <2>1, <2>5 DEF RotationInv, RotatorInv, currentValue, Sessions
    <3>2. currentValue' = currentValue
      BY <2>2, <3>1 DEF currentValue
    <3>3. underSubmission' = underSubmission
      BY <2>3, <2>5 DEF underSubmission, OthersKept, Sessions
    <3>4. QED
      BY <3>2, <3>3
  <2>6. QED
    BY <2>4, <2>5
<1>7. ASSUME NEW s \in Sessions, Abort(s) PROVE Goal
  <2>1. pc'[s] = "idle" /\ stored' = stored
    BY <1>7 DEF Abort, EndTransaction, Goto, TypeOK
  <2>2. OthersKept(s)
    BY <1>7 DEF Abort, EndTransaction, Goto, OthersKept, TypeOK
  <2>3. currentValue' = currentValue
    BY <2>1 DEF currentValue
  <2>4. CASE s \in Writers
    <3>1. underSubmission' = [underSubmission EXCEPT ![s] = {}]
      BY <2>1, <2>2, <2>4 DEF underSubmission, OthersKept, Sessions
    <3>2. Register!Withdraw(s)
      BY <2>3, <3>1 DEF Register!Withdraw, currentValue, underSubmission
    <3>3. QED
      BY <2>4, <3>2
  <2>5. CASE s \notin Writers
    <3>1. underSubmission' = underSubmission
      BY <2>2, <2>5 DEF underSubmission, OthersKept, Sessions
    <3>2. QED
      BY <2>3, <3>1
  <2>6. QED
    BY <2>4, <2>5
<1>8. QED
  BY <1>2, <1>3, <1>4, <1>5, <1>6, <1>7
  DEF Next, vars, BeginRotation, Retire, CountDependents

(* The vault starts as a register does. *)
LEMMA RegisterInit == Init => Register!Init
<1> SUFFICES ASSUME Init PROVE Register!Init
  OBVIOUS
<1>1. \A i \in Items : stored[i].value \in Values \cup {None}
  BY TypeInit DEF TypeOK, Envelope
<1>2. \A s \in Writers : pc[s] = "idle"
  BY DEF Init, Sessions
<1>3. QED
  BY <1>1, <1>2 DEF Register!Init

(* For the people who use it the vault is a register: a stored value changes *)
(* only by a write somebody submitted, once or not at all, and rotating keys *)
(* and re-encrypting under them changes no value (IsRegister).               *)
THEOREM VaultIsARegister == Spec => IsRegister
<1>1. ASSUME TypeOK, ItemInv, VaultInv, RotationInv, [Next]_vars
      PROVE  [Register!Next]_(Register!registerVars)
  BY <1>1, RegisterStep DEF Register!registerVars, currentValue, underSubmission
<1>2. QED
  BY <1>1, RegisterInit, TypeInit, TypeNext, KeysInit, KeysNext, VaultInit, VaultNext,
     RotationInit, RotationNext, PTL DEF Spec, IsRegister, Register!Spec
=============================================================================
