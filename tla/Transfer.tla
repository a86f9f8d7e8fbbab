------------------------------ MODULE Transfer ------------------------------
(***************************************************************************)
(* What a transfer promises its caller: it is accepted once, then either   *)
(* completes with the money moved or fails with nothing moved, and that    *)
(* verdict is final.                                                       *)
(***************************************************************************)
EXTENDS Integers

CONSTANT Keys

VARIABLES state, moved

Init == /\ state = [k \in Keys |-> "none"]
        /\ moved = [k \in Keys |-> 0]

Accept(k) == /\ state[k] = "none"
             /\ state' = [state EXCEPT ![k] = "accepted"]
             /\ UNCHANGED moved

Complete(k) == /\ state[k] = "accepted"
               /\ state' = [state EXCEPT ![k] = "COMPLETED"]
               /\ moved' = [moved EXCEPT ![k] = 1]

Fail(k) == /\ state[k] = "accepted"
           /\ state' = [state EXCEPT ![k] = "FAILED"]
           /\ UNCHANGED moved

Next == \E k \in Keys : Accept(k) \/ Complete(k) \/ Fail(k)

Spec == Init /\ [][Next]_<<state, moved>>
=============================================================================
