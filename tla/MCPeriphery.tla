----------------------------- MODULE MCPeriphery -----------------------------
(* A small instance of Periphery. *)
EXTENDS Periphery

(* Two threads, one of which accepts both sources, the other the first until  *)
(* the second is raised to its level; and two processors of which one accepts *)
(* both sources, the other only the second, which comes first.                *)
MCSetups ==
  {[cpu_of |-> <<"cpu0", "cpu0">>, priority_regs |-> <<2, 1>>, threshold_regs |-> <<1, 0>>],
   [cpu_of |-> <<"cpu0", "cpu1">>, priority_regs |-> <<1, 2>>, threshold_regs |-> <<0, 1>>]}
MCReads == [dev : {"DMEM", "CLINT"}, reg : {"other"}] \cup
           [dev : {"PLIC"}, reg : {"claim", "threshold_0"}]
MCSettings ==
  {[reg |-> "enable", at |-> 1, value |-> {1, 2}], [reg |-> "enable", at |-> 2, value |-> {1, 2}],
   [reg |-> "priority", at |-> 2, value |-> 2]}
==============================================================================
