------------------------------ MODULE KeyRotation ------------------------------
(***************************************************************************)
(* The vault under a data key rotation: people writing secrets and personal *)
(* entries, the re-encryption that moves them to the new key, and the        *)
(* retirement of the old one (lib/secrets/keys.ts, lib/secrets/service.ts,   *)
(* lib/personal/vault.ts and their SQL functions).                           *)
(*                                                                          *)
(* Transactions run at READ COMMITTED: a session sees what is committed when *)
(* each of its statements runs, row locks are held to the end of the         *)
(* transaction, and nobody sees its writes before Commit.                    *)
(***************************************************************************)
EXTENDS Naturals

CONSTANTS
    Secrets,        \* shared secrets: append-only versions
    Entries,        \* personal vault entries: one envelope, updated in place
    Values,         \* plaintexts
    Existing,       \* the items that exist at first, under the first key
    FirstValue,     \* what they hold
    Writers,        \* people's requests
    Rotators,       \* re-encryption passes
    MaxGeneration,  \* bound: data keys ever minted
    MaxVersion,     \* bound: versions of one item
    None            \* NULL

Items == Secrets \cup Entries
Sessions == Writers \cup Rotators
Generations == 1..MaxGeneration

ASSUME ItemsAssumption ==
    Secrets \cap Entries = {} /\ None \notin Items /\ Existing \subseteq Items
ASSUME SessionsAssumption == Writers \cap Rotators = {} /\ None \notin Sessions
ASSUME ValuesAssumption == FirstValue \in Values /\ None \notin Values
ASSUME Bounds == MaxGeneration \in Nat \ {0} /\ MaxVersion \in Nat \ {0}

VARIABLES
    status,   \* tenant_data_key.status by generation ("none": not minted)
    stored,   \* the current version of each item, as committed
    lock,     \* the session holding each item's row lock
    pc,       \* where each session's transaction is
    item,     \* the item it writes
    value,    \* the plaintext it will seal (None: it clears the entry)
    key,      \* the data key it read as active
    seal,     \* the version its ciphertext is bound to (AAD)
    expected, \* the version a re-encryption revealed; 0 for a person's write
    checked   \* the key retire_data_key has just counted as unused; 0 for none

keyVars == <<status, checked>>
sessionVars == <<pc, item, value, key, seal, expected>>
vars == <<keyVars, stored, lock, sessionVars>>

Versions == 1..(MaxVersion + 1)

(* An item that does not exist yet is at version 0; an entry without a       *)
(* password has no key.                                                      *)
Envelope == [version : Versions \cup {0}, seal : Versions \cup {0},
             key : Generations \cup {0}, value : Values \cup {None}]
Absent == [version |-> 0, seal |-> 0, key |-> 0, value |-> None]
Sealed(i) == stored[i].key # 0

Phases == {"idle", "begun", "keyed", "locked", "written"}

TypeOK ==
    /\ status \in [Generations -> {"none", "active", "retiring", "retired"}]
    /\ stored \in [Items -> Envelope]
    /\ lock \in [Items -> Sessions \cup {None}]
    /\ pc \in [Sessions -> Phases]
    /\ item \in [Sessions -> Items \cup {None}]
    /\ value \in [Sessions -> Values \cup {None}]
    /\ key \in [Sessions -> Generations \cup {0}]
    /\ seal \in [Sessions -> Versions \cup {0}]
    /\ expected \in [Sessions -> Versions \cup {0}]
    /\ checked \in Generations \cup {0}

Init ==
    /\ status = [g \in Generations |-> IF g = 1 THEN "active" ELSE "none"]
    /\ stored = [i \in Items |->
                   IF i \in Existing
                   THEN [version |-> 1, seal |-> 1, key |-> 1, value |-> FirstValue]
                   ELSE Absent]
    /\ lock = [i \in Items |-> None]
    /\ pc = [s \in Sessions |-> "idle"]
    /\ item = [s \in Sessions |-> None]
    /\ value = [s \in Sessions |-> None]
    /\ key = [s \in Sessions |-> 0]
    /\ seal = [s \in Sessions |-> 0]
    /\ expected = [s \in Sessions |-> 0]
    /\ checked = 0

-----------------------------------------------------------------------------
(* Keys. *)

(* beginRotation: the old key is demoted and the next one minted in one      *)
(* transaction; the partial unique index lets only one of two rotations in.  *)
BeginRotation ==
    /\ \E g \in Generations :
         /\ status[g] = "active"
         /\ g + 1 \in Generations
         /\ status' = [status EXCEPT ![g] = "retiring", ![g + 1] = "active"]
    /\ UNCHANGED <<checked, stored, lock, sessionVars>>

(* retire_data_key counts the current versions that use the key ... *)
CountDependents(g) ==
    /\ checked = 0
    /\ status[g] # "none"
    /\ \A i \in Items : stored[i].key # g
    /\ checked' = g
    /\ UNCHANGED <<status, stored, lock, sessionVars>>

(* ... and then retires it, if it is retiring. *)
Retire ==
    /\ checked # 0
    /\ status' = IF status[checked] = "retiring"
                 THEN [status EXCEPT ![checked] = "retired"] ELSE status
    /\ checked' = 0
    /\ UNCHANGED <<stored, lock, sessionVars>>

-----------------------------------------------------------------------------
(* Transactions that write. *)

Goto(s, p) == pc' = [pc EXCEPT ![s] = p]

(* rotate(), updateEntry() on what exists, where an entry may also be         *)
(* cleared; create(), createEntry(): a new row has a fresh id, and nobody     *)
(* else sees it before Commit.                                                *)
CanSubmit(i, v) ==
    IF stored[i].version = 0 THEN v # None /\ \A t \in Sessions : item[t] # i
                             ELSE v # None \/ i \in Entries

StartWrite(s, i, v) ==
    /\ s \in Writers
    /\ pc[s] = "idle"
    /\ CanSubmit(i, v)
    /\ Goto(s, "begun")
    /\ item' = [item EXCEPT ![s] = i]
    /\ value' = [value EXCEPT ![s] = v]
    /\ UNCHANGED <<keyVars, stored, lock, key, seal, expected>>

(* reEncrypt: the secret is revealed in a transaction of its own, so that the *)
(* audit row survives a write that fails.                                     *)
RevealForRotation(s, i) ==
    /\ s \in Rotators
    /\ i \in Secrets
    /\ Sealed(i)
    /\ pc[s] = "idle"
    /\ Goto(s, "begun")
    /\ item' = [item EXCEPT ![s] = i]
    /\ value' = [value EXCEPT ![s] = stored[i].value]
    /\ expected' = [expected EXCEPT ![s] = stored[i].version]
    /\ UNCHANGED <<keyVars, stored, lock, key, seal>>

(* activeDataKey, for a secret: before the row is locked. *)
ReadKeyFirst(s) ==
    /\ pc[s] = "begun"
    /\ item[s] \in Secrets
    /\ \E g \in Generations : status[g] = "active" /\ key' = [key EXCEPT ![s] = g]
    /\ Goto(s, "keyed")
    /\ UNCHANGED <<keyVars, stored, lock, item, value, seal, expected>>

(* Mutant: the version is allocated without FOR UPDATE. *)
CanLockUnlocked(s, i) == stored[i].version <= MaxVersion

(* FOR UPDATE waits for the row. *)
CanLock(s, i) == lock[i] = None /\ stored[i].version <= MaxVersion

(* Mutant: a re-encryption does not say which version it read. *)
StaleNever(s) == FALSE

(* begin_secret_write's p_expected_current_version. *)
Stale(s) == expected[s] # 0 /\ stored[item[s]].version # expected[s]

(* begin_secret_write: lock the row, allocate the version the ciphertext is  *)
(* bound to.  A re-encryption of a version that is no longer current throws. *)
LockSecret(s) ==
    /\ pc[s] = "keyed"
    /\ CanLock(s, item[s])
    /\ ~Stale(s)
    /\ lock' = [lock EXCEPT ![item[s]] = s]
    /\ seal' = [seal EXCEPT ![s] = stored[item[s]].version + 1]
    /\ Goto(s, "locked")
    /\ UNCHANGED <<keyVars, stored, item, value, key, expected>>

(* Mutant: any key of the tenant is accepted. *)
AcceptsAny(g) == status[g] # "none"

(* write_secret_version encrypts new material under the active key only. *)
Accepts(g) == status[g] = "active"

(* write_secret_version: the row is inserted, not yet committed, and the      *)
(* caller compares the version it got with the one it bound.                  *)
WriteVersion(s) ==
    /\ pc[s] = "locked"
    /\ item[s] \in Secrets
    /\ Accepts(key[s])
    /\ seal[s] = stored[item[s]].version + 1
    /\ Goto(s, "written")
    /\ UNCHANGED <<keyVars, stored, lock, item, value, key, seal, expected>>

(* lockEnvelope (a person) and reEncryptPersonalVault (key admin), which      *)
(* takes the entries under a key that is no longer active and keeps their     *)
(* value.                                                                     *)
LockEntry(s) ==
    /\ item[s] \in Entries
    /\ pc[s] = "begun"
    /\ CanLock(s, item[s])
    /\ lock' = [lock EXCEPT ![item[s]] = s]
    /\ seal' = [seal EXCEPT ![s] = stored[item[s]].version + 1]
    /\ Goto(s, "locked")
    /\ UNCHANGED <<keyVars, stored, item, value, key, expected>>

LockEntryForRotation(s, i) ==
    /\ s \in Rotators
    /\ i \in Entries
    /\ pc[s] = "idle"
    /\ Sealed(i)
    /\ status[stored[i].key] \in {"retiring", "retired"}
    /\ CanLock(s, i)
    /\ lock' = [lock EXCEPT ![i] = s]
    /\ item' = [item EXCEPT ![s] = i]
    /\ value' = [value EXCEPT ![s] = stored[i].value]
    /\ seal' = [seal EXCEPT ![s] = stored[i].version + 1]
    /\ Goto(s, "locked")
    /\ UNCHANGED <<keyVars, stored, key, expected>>

(* store(), seal(): an entry is sealed under the key that is active now; the  *)
(* UPDATE checks nothing.  An entry left without a password loses its         *)
(* envelope.                                                                  *)
SealEntry(s) ==
    /\ pc[s] = "locked"
    /\ item[s] \in Entries
    /\ IF value[s] = None
       THEN /\ seal' = [seal EXCEPT ![s] = 0]
            /\ UNCHANGED key
       ELSE /\ \E g \in Generations :
                  status[g] = "active" /\ key' = [key EXCEPT ![s] = g]
            /\ UNCHANGED seal
    /\ Goto(s, "written")
    /\ UNCHANGED <<keyVars, stored, lock, item, value, expected>>

EndTransaction(s) ==
    /\ Goto(s, "idle")
    /\ lock' = [i \in Items |-> IF lock[i] = s THEN None ELSE lock[i]]
    /\ item' = [item EXCEPT ![s] = None]
    /\ value' = [value EXCEPT ![s] = None]
    /\ key' = [key EXCEPT ![s] = 0]
    /\ seal' = [seal EXCEPT ![s] = 0]
    /\ expected' = [expected EXCEPT ![s] = 0]

(* The new version becomes current, numbered one past the committed one; an   *)
(* entry that was cleared keeps its number.                                   *)
Commit(s) ==
    /\ pc[s] = "written"
    /\ stored[item[s]].version <= MaxVersion
    /\ stored' = [stored EXCEPT ![item[s]] =
                    [version |-> IF key[s] = 0 THEN @.version ELSE @.version + 1,
                     seal |-> seal[s], key |-> key[s], value |-> value[s]]]
    /\ EndTransaction(s)
    /\ UNCHANGED keyVars

(* A refusal, an error or a lost connection rolls everything back. *)
Abort(s) ==
    /\ pc[s] # "idle"
    /\ EndTransaction(s)
    /\ UNCHANGED <<keyVars, stored>>

Next ==
    \/ BeginRotation \/ Retire
    \/ \E g \in Generations : CountDependents(g)
    \/ \E s \in Sessions, i \in Items :
         \/ \E v \in Values \cup {None} : StartWrite(s, i, v)
         \/ RevealForRotation(s, i)
         \/ LockEntryForRotation(s, i)
    \/ \E s \in Sessions :
         \/ ReadKeyFirst(s) \/ LockSecret(s) \/ WriteVersion(s)
         \/ LockEntry(s) \/ SealEntry(s) \/ Commit(s) \/ Abort(s)

Spec == Init /\ [][Next]_vars

-----------------------------------------------------------------------------
(* Safety. *)

(* Every current version opens: its ciphertext is bound to the version number *)
(* it is stored under, whoever else was writing.                              *)
Openable == \A i \in Items : Sealed(i) => stored[i].seal = stored[i].version

(* A retired key that nothing is stored under, and that no write about to     *)
(* commit was sealed with.                                                    *)
Quiet(g) ==
    /\ status[g] = "retired"
    /\ \A i \in Items : stored[i].key # g
    /\ \A s \in Sessions : pc[s] = "written" => key[s] # g

(* The key of an item only moves to later generations: a write that read its  *)
(* key before a rotation cannot undo a re-encryption.  Nor does a key come    *)
(* back: the writes that slip past the count of dependents are those under    *)
(* way when it is taken, and after them a retired key is never used again.    *)
KeysMoveForward ==
    [][/\ \A i \in Items : stored'[i].key >= stored[i].key \/ stored'[i].key = 0
       /\ \A g \in Generations : Quiet(g) => Quiet(g)']_vars

(* A key is demoted and retired in order, and there is always one to write   *)
(* with: every later generation than a retiring or retired key was minted.   *)
OneActiveKey ==
    \E g \in Generations :
        /\ status[g] = "active"
        /\ \A h \in Generations :
             /\ h < g => status[h] \in {"retiring", "retired"}
             /\ h > g => status[h] = "none"

(* "retired -> no ciphertext references it any more" (keys.ts).  Does not hold:  *)
(* a write that commits while its key is being retired leaves a row under it.  *)
RetiredUnused ==
    \A i \in Items : Sealed(i) => status[stored[i].key] # "retired"

-----------------------------------------------------------------------------
(* Values: re-encryption, rotation and retirement are invisible. *)

Register == INSTANCE SecretRegister WITH
    Nothing <- None,
    value <- [i \in Items |-> stored[i].value],
    submitted <- [s \in Writers |-> IF pc[s] = "idle" THEN {}
                                                      ELSE {<<item[s], value[s]>>}]

(* The vault is a register for its users. *)
IsRegister == Register!Spec
=============================================================================
