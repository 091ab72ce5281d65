---------------------------- MODULE SecretRegister ----------------------------
(* What the vault promises about values, keys and versions apart: a stored     *)
(* value changes only by a write somebody submitted, and a submitted write    *)
(* takes effect once or not at all.                                           *)

CONSTANTS Items, Values, Writers, Nothing

VARIABLES value,      \* the value of each item
          submitted   \* the write each writer has under way, if any: <<item, value>>

registerVars == <<value, submitted>>

Init ==
    /\ value \in [Items -> Values \cup {Nothing}]
    /\ submitted = [s \in Writers |-> {}]

Submit(s) ==
    /\ submitted[s] = {}
    /\ \E i \in Items, v \in Values \cup {Nothing} :
         submitted' = [submitted EXCEPT ![s] = {<<i, v>>}]
    /\ UNCHANGED value

Apply(s) ==
    /\ \E write \in submitted[s] : value' = [value EXCEPT ![write[1]] = write[2]]
    /\ submitted' = [submitted EXCEPT ![s] = {}]

Withdraw(s) ==
    /\ submitted' = [submitted EXCEPT ![s] = {}]
    /\ UNCHANGED value

Next == \E s \in Writers : Submit(s) \/ Apply(s) \/ Withdraw(s)

Spec == Init /\ [][Next]_registerVars
=============================================================================
