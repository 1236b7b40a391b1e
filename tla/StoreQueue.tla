----------------------------- MODULE StoreQueue -----------------------------
(***************************************************************************)
(* What the load/store unit relies on when it uses the store buffer: a     *)
(* queue of stores on their way to memory.  Stores enter at the back; the  *)
(* one at the front is handed to memory and stays pending until memory has *)
(* answered; only then is the next one handed over.  None is lost,         *)
(* repeated or overtaken.                                                  *)
(***************************************************************************)
EXTENDS Naturals, Sequences

CONSTANTS Capacity, Store

VARIABLES
  waiting,   (* stores not yet handed to memory, oldest first *)
  pending,   (* the store memory is working on, if any        *)
  accepted   (* the store that entered in the last cycle      *)

vars == <<waiting, pending, accepted>>

Init == waiting = <<>> /\ pending = <<>> /\ accepted = <<>>

Step ==
  /\ accepted' = <<>> \/ \E s \in Store : accepted' = <<s>>
  /\ \/ /\ pending' = pending \/ pending' = <<>>
        /\ waiting' = waiting \o accepted'
     \/ /\ waiting # <<>>
        /\ pending' = <<Head(waiting)>>
        /\ waiting' = Tail(waiting) \o accepted'
  /\ Len(waiting') <= Capacity

Spec == Init /\ [][Step]_vars
=============================================================================
