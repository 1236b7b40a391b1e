--------------------------- MODULE InOrderWindow ---------------------------
(***************************************************************************)
(* What the rest of the core relies on when it uses the reorder buffer: a  *)
(* window of at most Capacity instructions in program order.               *)
(*                                                                         *)
(* Instructions enter at the back in the order they were issued, under a   *)
(* tag no other instruction of the window carries; a result marks the one  *)
(* instruction with its tag; each cycle the longest complete prefix, at    *)
(* most Width long, leaves at the front, unchanged and in order.           *)
(***************************************************************************)
EXTENDS Naturals, Sequences

CONSTANTS Width, Capacity, Inst

VARIABLES
  window,   (* in program order: [inst, tag, done] *)
  retired   (* what left in the last cycle         *)

vars == <<window, retired>>

Tags(w) == {w[k].tag : k \in 1 .. Len(w)}

Init == window = <<>> /\ retired = <<>>

(* The length of the prefix that may leave. *)
Retirable == CHOOSE n \in 0 .. Len(window) :
               /\ n <= Width
               /\ \A k \in 1 .. n : window[k].done
               /\ n < Width /\ n < Len(window) => ~window[n + 1].done

Complete(w, results) ==
  [k \in 1 .. Len(w) |-> [w[k] EXCEPT !.done = @ \/ w[k].tag \in results]]

Issued(w) == \A k \in 1 .. Len(w) : w[k].inst \in Inst /\ ~w[k].done

(* The new instructions are whatever the step appends. *)
Step ==
  LET n    == Retirable
      rest == Len(window) - n
  IN  \E results \in SUBSET Tags(window) :
        /\ retired' = [k \in 1 .. n |-> [inst |-> window[k].inst, tag |-> window[k].tag]]
        /\ Len(window') \in rest .. rest + Width
        /\ SubSeq(window', 1, rest) = Complete(SubSeq(window, n + 1, Len(window)), results)
        /\ Issued(SubSeq(window', rest + 1, Len(window')))
        /\ Len(window') <= Capacity
        /\ \A j, k \in 1 .. Len(window') : window'[j].tag = window'[k].tag => j = k

Spec == Init /\ [][Step]_vars
=============================================================================
