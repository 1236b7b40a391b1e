------------------------- MODULE WaitingInstructions -------------------------
(***************************************************************************)
(* What a reservation station promises: instructions wait in it, each of   *)
(* them is given to the unit once, with the values of the instructions it  *)
(* depends upon and not before those have them, and in turn if the station *)
(* keeps the order.                                                        *)
(***************************************************************************)
EXTENDS Naturals, Sequences

VARIABLES
  linear,        (* the station keeps the order                            *)
  outstanding,   (* instructions whose result has not been on the bus      *)
  waiting,       (* instructions n with their sources rs, oldest first     *)
  given          (* what the unit was given, and with which operands       *)

Init == waiting = <<>> /\ given = <<>>

Others(i) == SubSeq(waiting, 1, i - 1) \o SubSeq(waiting, i + 1, Len(waiting))

Give(i) ==
  /\ \A k \in DOMAIN waiting[i].rs : waiting[i].rs[k] \notin outstanding
  /\ linear => i = 1
  /\ given' = <<waiting[i]>>

(* At most one instruction arrives in a cycle, the youngest.                *)
ArriveBehind(s) == waiting' = s \/ (waiting' # <<>> /\ s = SubSeq(waiting', 1, Len(waiting') - 1))

Cycle ==
  \/ given' = <<>> /\ ArriveBehind(waiting)
  \/ \E i \in 1 .. Len(waiting) : Give(i) /\ ArriveBehind(Others(i))

Spec == Init /\ [][Cycle]_<<waiting, given>>
==============================================================================
