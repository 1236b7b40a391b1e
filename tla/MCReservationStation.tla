------------------------ MODULE MCReservationStation ------------------------
(* The smallest stations of either kind for each way of latching.            *)
EXTENDS ReservationStation

MCStations ==
  {[linear |-> l, entries |-> IF i + s = 2 THEN 3 ELSE 2,
    RS_LATCH_INPUT |-> i, SPLIT_ISSUE_STAGE |-> s] : l \in BOOLEAN, i \in 0 .. 1, s \in 0 .. 1}
=============================================================================
