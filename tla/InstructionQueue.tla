-------------------------- MODULE InstructionQueue --------------------------
(***************************************************************************)
(* What the buffer between decode and issue promises: what leaves it and   *)
(* what stays is, in this order, what was in it followed by what arrives,  *)
(* and only what was in it can leave.                                      *)
(***************************************************************************)
EXTENDS Naturals, Sequences

CONSTANTS Capacity

VARIABLES queue, arrived, taken     (* arrived and taken in the last cycle *)

Init == queue = <<>> /\ arrived = <<>> /\ taken = <<>>

Next == /\ taken' \o queue' = queue \o arrived'
        /\ Len(taken') <= Len(queue)
        /\ Len(queue') <= Capacity

Spec == Init /\ [][Next]_<<queue, arrived, taken>>
==============================================================================
