-------------------------- MODULE InstructionWindow --------------------------
(***************************************************************************)
(* The buffer between decode and issue (mkESAMIMO_banks, and how Decode    *)
(* uses it): as many FIFOs as instructions join in a cycle, filled and     *)
(* emptied in turn, so that every one moves at most one instruction per    *)
(* cycle.  The FIFOs do not guard themselves: one that is full would       *)
(* overwrite, one that is empty would hand out what it held before.        *)
(*                                                                         *)
(* A step is a cycle: decode puts and issue takes, both from what the      *)
(* registers hold at its start.                                            *)
(***************************************************************************)
EXTENDS Naturals, Sequences, FiniteSets

CONSTANTS
  IFUINST,        (* instructions that join at once; ISSUEWIDTH is the same *)
  INST_WINDOW,
  Instruction

ASSUME SizeAssumption == IFUINST \in Nat \ {0} /\ INST_WINDOW \in Nat \ {0}

Bank == 0 .. IFUINST - 1

(* Rows of a bank: the size of the window by banks, rounded up.             *)
bank_size == (INST_WINDOW + IFUINST - 1) \div IFUINST

VARIABLES
  banks, head_bank_r, tail_bank_r,
  arrived, taken              (* instructions put and taken in the cycle   *)

vars == <<banks, head_bank_r, tail_bank_r, arrived, taken>>

Init == /\ banks = [b \in Bank |-> <<>>]
        /\ head_bank_r = 0 /\ tail_bank_r = 0
        /\ arrived = <<>> /\ taken = <<>>

-----------------------------------------------------------------------------
rollover_add(a, n) == IF a + n >= IFUINST THEN a + n - IFUINST ELSE a + n

(* How far bank b is from bank a, in the order the banks are used.          *)
Distance(a, b) == IF b >= a THEN b - a ELSE b + IFUINST - a

(* Mutant of enqReady: room in one bank is taken for room in all.           *)
enqReady_any == \E b \in Bank : Len(banks[b]) < bank_size

enqReady == \A b \in Bank : Len(banks[b]) < bank_size

first(k) == Head(banks[rollover_add(tail_bank_r, k)])

deqReady(k) == banks[rollover_add(tail_bank_r, k)] # <<>>

(* The banks after data joins and n leave, the k-th of data in the k-th     *)
(* bank from the head, the leaving ones from the tail on.                   *)
Moved(data, n) ==
  [b \in Bank |->
     LET rest == IF Distance(tail_bank_r, b) < n THEN Tail(banks[b]) ELSE banks[b]
         k    == Distance(head_bank_r, b) + 1
     IN  IF k <= Len(data) THEN Append(rest, data[k]) ELSE rest]

(* Decode puts only when every bank has room.  Issue takes the first n, and *)
(* only instructions that are there.                                        *)
Cycle(data, n) ==
  /\ data # <<>> => enqReady
  /\ \A k \in 0 .. n - 1 : deqReady(k)
  /\ banks' = Moved(data, n)
  /\ head_bank_r' = rollover_add(head_bank_r, Len(data))
  /\ tail_bank_r' = rollover_add(tail_bank_r, n)
  /\ arrived' = data
  /\ taken' = [k \in 1 .. n |-> first(k - 1)]

Next == \E k, n \in 0 .. IFUINST : \E data \in [1 .. k -> Instruction] : Cycle(data, n)

Spec == Init /\ [][Next]_vars

-----------------------------------------------------------------------------
(* The instructions in the window, round by round from the tail on.         *)
RECURSIVE Count(_)
Count(n) == IF n = 0 THEN 0 ELSE Len(banks[n - 1]) + Count(n - 1)

Content == [i \in 1 .. Count(IFUINST) |->
              banks[(tail_bank_r + i - 1) % IFUINST][(i - 1) \div IFUINST + 1]]

Promise == INSTANCE InstructionQueue WITH
  queue <- Content, Capacity <- bank_size * IFUINST

(* The banks together are one queue: instructions leave in the order in     *)
(* which they came, none lost, repeated or made up, although every bank     *)
(* runs empty and full on its own.                                          *)
OneQueue == Promise!Spec
==============================================================================
