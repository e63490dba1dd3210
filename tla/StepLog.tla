------------------------------ MODULE StepLog ------------------------------
(***************************************************************************)
(* What recording promises (SPEC.md R41): a recorded step stays, at the    *)
(* position it was recorded at, whatever happens to the session after.     *)
(***************************************************************************)
EXTENDS Sequences

CONSTANT Exchanges  \* the exchanges a session may record, each at most once

VARIABLE log        \* the exchanges recorded, in order

Init == log = <<>>

Record(x) == /\ \A i \in DOMAIN log : log[i] # x
             /\ log' = Append(log, x)

Next == \E x \in Exchanges : Record(x)

Spec == Init /\ [][Next]_log
=============================================================================
