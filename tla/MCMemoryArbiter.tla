-------------------------- MODULE MCMemoryArbiter ---------------------------
(* Instances of the memory arbiter for TLC: two processors and one or two   *)
(* words; what each processor may ask for is chosen so that all accesses of *)
(* interest meet on one word.                                               *)
EXTENDS MemoryArbiter

a == 4
b == 8

MCTwo == {a, b}

On(kinds, words) == [kind : kinds, addr : words]

(* Everything of one word; plain loads of one processor are enough.         *)
MCMixed == [c \in Cpu |-> On({"STORE", "AMO", "LR", "SC"} \cup (IF c = 0 THEN {"LOAD"} ELSE {}), {a})]

(* LR and SC of one processor, loads and AMOs of the other on one word, and *)
(* stores of both to another.                                               *)
MCApart == [c \in Cpu |-> On(IF c = 0 THEN {"LR", "SC"} ELSE {"LOAD", "AMO"}, {a})
                           \cup On({"STORE"}, {b})]

(* The testbench: block RAM, on which all accesses meet on one word.  The   *)
(* IP core: AXI, with independent channels.                                 *)
MCBuilds == {[AGGRESSIVE |-> FALSE, PromptWrites |-> TRUE,  requests |-> MCMixed],
             [AGGRESSIVE |-> TRUE,  PromptWrites |-> FALSE, requests |-> MCApart]}

=============================================================================
