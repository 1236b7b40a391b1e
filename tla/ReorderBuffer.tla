--------------------------- MODULE ReorderBuffer ---------------------------
(***************************************************************************)
(* The reorder buffer of one core (backend/ReorderBuffer.bsv) together     *)
(* with the tag counter of the issue stage (exec_core/Issue.bsv).          *)
(*                                                                         *)
(* ISSUEWIDTH banks, each a ring of ROB_BANK_DEPTH rows, form one ring.    *)
(* The issue stage numbers instructions with a counter of its own, the     *)
(* buffer never sees these tags: a row matches results against its fixed   *)
(* position, so counter and bank pointers must agree for ever.             *)
(*                                                                         *)
(* A step is one clock cycle.  All reads see the registers as they were    *)
(* when the cycle began, except that a row emptied by the dequeue may be   *)
(* filled by the insertion of the same cycle (port 1 of occupied_r).       *)
(***************************************************************************)
EXTENDS Naturals, Sequences, FiniteSets

CONSTANTS
  ISSUEWIDTH,        (* instructions issued and committed per cycle = banks *)
  ROB_BANK_DEPTH,    (* rows of a bank                                      *)
  ROB_LATCH_OUTPUT,  (* TRUE: a register stage between buffer and commit    *)
  Inst               (* the instructions a row may hold                     *)

ASSUME WidthAssumption == ISSUEWIDTH \in Nat \ {0}
ASSUME DepthAssumption == ROB_BANK_DEPTH \in Nat \ {0}
ASSUME LatchAssumption == ROB_LATCH_OUTPUT \in BOOLEAN
ASSUME InstAssumption  == Inst # {}

ROBDEPTH == ISSUEWIDTH * ROB_BANK_DEPTH
Bank     == 0 .. ISSUEWIDTH - 1
Index    == 0 .. ROB_BANK_DEPTH - 1
Tag      == 0 .. ROBDEPTH - 1

VARIABLES
  occupied,    (* occupied[b][i]: row i of bank b holds an instruction      *)
  ready,       (* ready[b][i]: the result of that instruction has arrived   *)
  entry,       (* entry[b][i]: the instruction, with the tag issue gave it  *)
  local_head,  (* per bank: the row the next insertion fills                *)
  local_tail,  (* per bank: the row the next dequeue empties                *)
  head_bank,   (* the bank of the next insertion                            *)
  tail_bank,   (* the bank of the next dequeue                              *)
  incoming,    (* instructions issued in the last cycle, not yet in a row   *)
  rob_idx,     (* the issue stage's tag counter                             *)
  out,         (* the instructions handed to commit                         *)
  tail_out     (* register behind current_tail_idx when output is latched   *)

vars == <<occupied, ready, entry, local_head, local_tail, head_bank,
          tail_bank, incoming, rob_idx, out, tail_out>>

-----------------------------------------------------------------------------
rollover_add(n, a, b) == IF a + b >= n THEN a + b - n ELSE a + b

(* The fixed id of a row: base_id + id_inc * pos. *)
rob_id(b, i) == b + ISSUEWIDTH * i

NextRow(i) == rollover_add(ROB_BANK_DEPTH, i, 1)

ready_enq(b)      == ~occupied[b][local_head[b]]
ready_enq_next(b) == ~occupied[b][NextRow(local_head[b])]

(* Mutant of ready_deq: looks at the head's row for the result. *)
ready_deq_head(b) == occupied[b][local_tail[b]] /\ ready[b][local_head[b]]

ready_deq(b)      == occupied[b][local_tail[b]] /\ ready[b][local_tail[b]]

(* Mutant of get_rdy_enq: forgets that an insertion is a cycle late. *)
get_rdy_enq_current(b) == ready_enq(b)

(* Insertion is a cycle late when there is more than one row, so a bank     *)
(* then counts as free only if the row after the next one is empty.         *)
get_rdy_enq(b) == IF ROB_BANK_DEPTH > 1 THEN ready_enq_next(b) ELSE ready_enq(b)

(* How many instructions the issue stage may send in this cycle. *)
free == Cardinality({b \in Bank : get_rdy_enq(b)})

(* The n-th bank from the tail, and from the head. *)
TailBank(n) == rollover_add(ISSUEWIDTH, tail_bank, n)

HeadBank(n) == rollover_add(ISSUEWIDTH, head_bank, n)

(* Mutant of amt_current: counts complete banks beyond an incomplete one. *)
amt_current_gaps(n) == n = Cardinality({b \in Bank : ready_deq(b)})

(* n is the number of banks, from the tail on, whose oldest row is complete. *)
amt_current(n) ==
  /\ \A k \in 0 .. n - 1 : ready_deq(TailBank(k))
  /\ n < ISSUEWIDTH => ~ready_deq(TailBank(n))

(* The tag of the oldest row, as forwarded to the CSR and memory units. *)
tail_tag         == rob_id(tail_bank, local_tail[tail_bank])

(* Mutant of current_tail_idx: not delayed with the latched output. *)
current_tail_idx_early == tail_tag

current_tail_idx == IF ROB_LATCH_OUTPUT THEN tail_out ELSE tail_tag

-----------------------------------------------------------------------------
(* Rows are not reset; what they hold before the first put is never read. *)
NoEntry == [inst |-> CHOOSE i \in Inst : TRUE, tag |-> 0]

Init ==
  /\ occupied   = [b \in Bank |-> [i \in Index |-> FALSE]]
  /\ ready      = [b \in Bank |-> [i \in Index |-> FALSE]]
  /\ entry      = [b \in Bank |-> [i \in Index |-> NoEntry]]
  /\ local_head = [b \in Bank |-> 0]
  /\ local_tail = [b \in Bank |-> 0]
  /\ head_bank  = 0
  /\ tail_bank  = 0
  /\ incoming   = <<>>
  /\ rob_idx    = 0
  /\ out        = <<>>
  /\ tail_out   = 0

(* Does bank b dequeue when n instructions leave? *)
Leaves(b, n) == \E k \in 0 .. n - 1 : b = TailBank(k)

(* calc_insts, fwd_tail: the n oldest complete instructions leave. *)
calc_insts(n) ==
  /\ tail_bank'  = TailBank(n)
  /\ local_tail' = [b \in Bank |-> IF Leaves(b, n) THEN NextRow(local_tail[b])
                                                   ELSE local_tail[b]]
  /\ out'        = [k \in 1 .. n |->
                      entry[TailBank(k - 1)][local_tail[TailBank(k - 1)]]]
  /\ tail_out'   = tail_tag

(* insert: the k-th of the arriving instructions enters the k-th bank from  *)
(* the head.  Gets(b, arriving) says whether bank b gets one.               *)
Gets(b, arriving) == \E k \in 1 .. Len(arriving) : b = HeadBank(k - 1)

insert(arriving) ==
  /\ entry'      = [b \in Bank |-> [i \in Index |->
                      IF Gets(b, arriving) /\ i = local_head[b]
                      THEN arriving[CHOOSE k \in 1 .. Len(arriving) : b = HeadBank(k - 1)]
                      ELSE entry[b][i]]]
  /\ local_head' = [b \in Bank |-> IF Gets(b, arriving) THEN NextRow(local_head[b])
                                                        ELSE local_head[b]]
  /\ head_bank'  = HeadBank(Len(arriving))

(* Mutant of row_flags: a put leaves the ready flag of the row's last use. *)
row_flags_stale(n, arriving, results) ==
  /\ occupied' = [b \in Bank |-> [i \in Index |->
                    \/ Gets(b, arriving) /\ i = local_head[b]
                    \/ occupied[b][i] /\ ~(Leaves(b, n) /\ i = local_tail[b])]]
  /\ ready'    = [b \in Bank |-> [i \in Index |-> ready[b][i] \/ rob_id(b, i) \in results]]

(* occupied_r and ready_r of every row: dequeue and result bus use port 0,  *)
(* an insertion uses port 1 and wins.  A dequeue leaves ready_r as it is.   *)
row_flags(n, arriving, results) ==
  /\ occupied' = [b \in Bank |-> [i \in Index |->
                    \/ Gets(b, arriving) /\ i = local_head[b]
                    \/ occupied[b][i] /\ ~(Leaves(b, n) /\ i = local_tail[b])]]
  /\ ready'    = [b \in Bank |-> [i \in Index |->
                    /\ ~(Gets(b, arriving) /\ i = local_head[b])
                    /\ ready[b][i] \/ rob_id(b, i) \in results]]

(* The issue stage's tags for the next instructions. *)
generate_tag(k) == rollover_add(ROBDEPTH, rob_idx, k)

(* Mutants of advance_issue_idx: a bundle counts as full; no wrap-around. *)
advance_issue_idx_width(num_issued) ==
  rob_idx' = rollover_add(ROBDEPTH, rob_idx, IF num_issued = 0 THEN 0 ELSE ISSUEWIDTH)
advance_issue_idx_unwrapped(num_issued) == rob_idx' = rob_idx + num_issued

advance_issue_idx(num_issued) == rob_idx' = rollover_add(ROBDEPTH, rob_idx, num_issued)

(* Rows that still wait for their result.  A functional unit reports an     *)
(* instruction once, and at the earliest when it is in its row: issue,      *)
(* reservation station and unit take a cycle each.                          *)
Awaited == {rob_id(r[1], r[2]) : r \in {q \in Bank \X Index :
              occupied[q[1]][q[2]] /\ ~ready[q[1]][q[2]]}}

(* Issued instructions wait one cycle in the register incoming_res, unless  *)
(* a bank has a single row: then the register is a wire.                    *)
Reserved(insts) ==
  [k \in 1 .. Len(insts) |-> [inst |-> insts[k], tag |-> generate_tag(k - 1)]]

Arriving(insts) == IF ROB_BANK_DEPTH > 1 THEN incoming ELSE Reserved(insts)

(* One clock cycle: the issue stage sends insts, the result bus carries     *)
(* results, n instructions leave for commit.                                *)
Clock(insts, results, n) ==
  /\ amt_current(n)
  /\ calc_insts(n)
  /\ insert(Arriving(insts))
  /\ row_flags(n, Arriving(insts), results)
  /\ incoming' = IF ROB_BANK_DEPTH > 1 THEN Reserved(insts) ELSE <<>>
  /\ advance_issue_idx(Len(insts))

Cycle(insts, results) == \E n \in 0 .. ISSUEWIDTH : Clock(insts, results, n)

Bundle == UNION {[1 .. n -> Inst] : n \in 0 .. ISSUEWIDTH}

Next == \E insts \in Bundle : Len(insts) <= free /\
          \E results \in SUBSET Awaited : Cycle(insts, results)

Spec == Init /\ [][Next]_vars

-----------------------------------------------------------------------------
TypeOK ==
  /\ occupied   \in [Bank -> [Index -> BOOLEAN]]
  /\ ready      \in [Bank -> [Index -> BOOLEAN]]
  /\ entry      \in [Bank -> [Index -> [inst : Inst, tag : Tag]]]
  /\ local_head \in [Bank -> Index]
  /\ local_tail \in [Bank -> Index]
  /\ head_bank  \in Bank
  /\ tail_bank  \in Bank
  /\ incoming   \in Seq([inst : Inst, tag : Tag])
  /\ Len(incoming) \in 0 .. ISSUEWIDTH
  /\ rob_idx    \in Tag
  /\ out        \in Seq([inst : Inst, tag : Tag])
  /\ Len(out) \in 0 .. ISSUEWIDTH
  /\ tail_out   \in Tag

(* The row that receives the k-th of the instructions held in the incoming  *)
(* register is empty by the time it is inserted: "Trying to enqueue into a  *)
(* full ROB cell" (the assertion of put) cannot happen although free was    *)
(* computed a cycle earlier, before the instructions then on their way had  *)
(* taken their rows.                                                        *)
NoEnqueueIntoFullCell ==
  \A k \in 1 .. Len(incoming) :
    ~occupied[HeadBank(k - 1)][local_head[HeadBank(k - 1)]]

(* A row keeps its instruction from the put to the dequeue, and what enters *)
(* a row awaits its result: that of the row's last occupant, still there,   *)
(* does not count for it.                                                   *)
RowsUndisturbed ==
  [][\A b \in Bank, i \in Index :
       IF occupied[b][i] THEN entry'[b][i] = entry[b][i]
                         ELSE occupied'[b][i] => ~ready'[b][i]]_vars

(* An instruction sits in the row whose fixed id is the tag that the issue  *)
(* stage gave it, so its result reaches it and nobody else.                 *)
TagNamesRow ==
  \A b \in Bank, i \in Index : occupied[b][i] => entry[b][i].tag = rob_id(b, i)

-----------------------------------------------------------------------------
(* The inductive invariant.  Count(b) is what the pointers of a bank say it *)
(* holds, Ring(b) that its occupied rows are the ones from tail to head.    *)
Distance(n, from, to) == IF to >= from THEN to - from ELSE to + n - from

Count(b) ==
  IF local_head[b] = local_tail[b]
  THEN IF occupied[b][local_tail[b]] THEN ROB_BANK_DEPTH ELSE 0
  ELSE Distance(ROB_BANK_DEPTH, local_tail[b], local_head[b])

Ring(b) ==
  \A i \in Index :
    occupied[b][i] <=> Distance(ROB_BANK_DEPTH, local_tail[b], i) < Count(b)

FromTail(b) == Distance(ISSUEWIDTH, tail_bank, b)
FromHead(b) == Distance(ISSUEWIDTH, head_bank, b)

(* The banks between tail and head hold one instruction more than the rest. *)
BalancedBy(q) ==
  \A b \in Bank :
    Count(b) = IF FromTail(b) < FromTail(head_bank) THEN q + 1 ELSE q

(* Every bank that gets one of the incoming instructions has room for it.   *)
RoomForIncoming ==
  \A b \in Bank : FromHead(b) < Len(incoming) => Count(b) < ROB_BANK_DEPTH

IInv ==
  /\ TypeOK
  /\ \A b \in Bank : Ring(b)
  /\ \E q \in 0 .. ROB_BANK_DEPTH : BalancedBy(q)
  /\ RoomForIncoming
  /\ ROB_BANK_DEPTH = 1 => incoming = <<>>

-----------------------------------------------------------------------------
(* The contents in program order: rows from the tail on, then the incoming  *)
(* register.                                                                *)
Occupancy == Cardinality({r \in Bank \X Index : occupied[r[1]][r[2]]})

(* The row whose fixed id is n after that of the oldest row.               *)
RowFromTail(n) ==
  LET t == rollover_add(ROBDEPTH, tail_tag, n)
  IN  <<t % ISSUEWIDTH, t \div ISSUEWIDTH>>

Held ==
  [n \in 1 .. Occupancy |->
     LET r == RowFromTail(n - 1)
     IN  [inst |-> entry[r[1]][r[2]].inst, tag |-> entry[r[1]][r[2]].tag,
          done |-> ready[r[1]][r[2]]]]

Window == Held \o [k \in 1 .. Len(incoming) |->
                     [inst |-> incoming[k].inst, tag |-> incoming[k].tag, done |-> FALSE]]

(* The buffer is an in-order window: see InOrderWindow.tla. *)
Abstract == INSTANCE InOrderWindow WITH
              Width <- ISSUEWIDTH, Capacity <- ROBDEPTH, window <- Window, retired <- out
InOrder == Abstract!Spec

(* What commit has not consumed yet: with a latched output, the latch too.  *)
Uncommitted ==
  IF ROB_LATCH_OUTPUT THEN out \o Held ELSE Held

(* The CSR and memory units start an access with a side effect when the     *)
(* instruction's tag equals current_tail_idx.  That index names the oldest  *)
(* instruction commit has not consumed, also while complete instructions    *)
(* wait in the output latch, so no older one can still redirect the core.   *)
HeadIsOldestUncommitted ==
  Uncommitted # <<>> => Uncommitted[1].tag = current_tail_idx

-----------------------------------------------------------------------------
(* Every instruction in a row gets its result at some time: functional      *)
(* units never drop an instruction, and every FIFO between them and the     *)
(* result bus is drained each cycle.                                        *)
Completes(t) == t \in Awaited /\ \E insts \in Bundle : Len(insts) <= free /\
                  \E results \in SUBSET Awaited : t \in results /\ Cycle(insts, results)

FairSpec == Spec /\ WF_vars(Next) /\ \A t \in Tag : WF_vars(Completes(t))

(* No instruction is stuck behind the pointers: whatever is in flight with  *)
(* a tag leaves, so that the tag is free again.                             *)
EveryTagLeaves ==
  \A t \in Tag : (\E k \in 1 .. Len(Window) : Window[k].tag = t)
                   ~> (\A k \in 1 .. Len(Window) : Window[k].tag # t)
=============================================================================
