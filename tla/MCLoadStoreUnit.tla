-------------------------- MODULE MCLoadStoreUnit ---------------------------
(* Instances of the load/store unit for TLC: words of two lanes, two words  *)
(* of data memory and one of periphery; instructions of the whole word and  *)
(* of its lower lane.                                                       *)
EXTENDS LoadStoreUnit

MCLane == {0, 1}
dmem   == 4
dmem2  == 12
io     == 8

MCOneAddr == {dmem}
MCTwoAddr == {dmem, dmem2}
MCIOAddr  == {dmem, io}
MCAllAddr == {dmem, dmem2, io}

op(k, a, m) == [kind |-> k, addr |-> a, mask |-> m, aq |-> FALSE, rl |-> FALSE, misaligned |-> FALSE]

(* Everything that may have a side effect, and a store that may not. *)
MCEffects ==
  {op("STORE", dmem, MCLane), op("LOAD", io, MCLane), op("AMO", dmem, MCLane),
   [op("STORE", dmem, MCLane) EXCEPT !.misaligned = TRUE]}

(* Loads and stores of a word and of half of it, a store to another word, an *)
(* AMO that releases, one that acquires, a load of periphery and a store     *)
(* with an exception.                                                        *)
MCAllOps ==
  {op(k, dmem, m) : k \in {"LOAD", "STORE"}, m \in {MCLane, {0}}} \cup
  {op("STORE", dmem2, MCLane), op("LOAD", io, MCLane),
   [op("AMO", dmem, MCLane) EXCEPT !.rl = TRUE], [op("AMO", dmem, MCLane) EXCEPT !.aq = TRUE],
   [op("STORE", dmem, MCLane) EXCEPT !.misaligned = TRUE]}
=============================================================================
