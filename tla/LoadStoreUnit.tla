--------------------------- MODULE LoadStoreUnit ----------------------------
(***************************************************************************)
(* The load/store unit of one core (exec_core/unit/Mem.bsv) with its store *)
(* buffer, the memory behind it, and the commit stage as it sees them.     *)
(*                                                                         *)
(* Instructions arrive in program order and speculatively.  Loads from     *)
(* data memory may run ahead of commit; stores, AMOs and loads from        *)
(* periphery wait until the reorder buffer names them as its oldest        *)
(* instruction.  Loads are answered from the store buffer if they can be.  *)
(* A redirect bumps the epoch: instructions of an older epoch run through  *)
(* the pipeline without effect.                                            *)
(*                                                                         *)
(* A step is one rule of the unit, or a step of memory or commit.  FIFOs   *)
(* between the stages hold one element.                                    *)
(***************************************************************************)
EXTENDS Integers, Sequences, FiniteSets

CONSTANTS
  STORE_BUF_DEPTH,
  Addr,          (* word addresses                                         *)
  DmemAddr,      (* those in the region where loads may be speculative     *)
  Lane,          (* the byte lanes of a word                               *)
  OpSet,         (* the instructions that may arrive                       *)
  MaxOps,        (* bound: instructions of a behaviour                     *)
  MaxRedirects,  (* bound: redirects of a behaviour                        *)
  Interrupts     (* whether interrupts may arrive                          *)

(* Misaligned says whether the address is a multiple of the access width.   *)
OpType == [kind : {"LOAD", "STORE", "AMO"}, addr : Addr, mask : SUBSET Lane \ {{}},
           aq : BOOLEAN, rl : BOOLEAN, misaligned : BOOLEAN]

(* AMOs are of whole words.                                                 *)
ASSUME OpAssumption ==
  /\ OpSet \subseteq OpType /\ DmemAddr \subseteq Addr
  /\ \A op \in OpSet : op.kind = "AMO" => op.mask = Lane
ASSUME BoundAssumption ==
  MaxOps \in Nat \ {0} /\ MaxRedirects \in Nat /\ Interrupts \in BOOLEAN

Op == 1 .. MaxOps

(* A word says of each lane which instruction wrote it last, 0 for none. *)
Word    == [Lane -> 0 .. MaxOps]
Payload == [data : Op, mask : SUBSET Lane]
NoWord  == [l \in Lane |-> 0]

VARIABLES
  (* the program and commit, as the unit sees them *)
  ops,        (* the instructions that have arrived                        *)
  op_epoch,   (* the epoch each was fetched in                             *)
  epoch,      (* the current epoch, of the unit and of commit              *)
  retired,    (* how many have left the reorder buffer                     *)
  at_head,    (* rob_head is the next of them, nothing else is older       *)
  committed,  (* those that left in the current epoch, without exception   *)
  redirects,  (* redirects so far                                          *)
  result,     (* per instruction: what it put on the result bus, if it has *)
  (* the unit: each stage holds at most one element *)
  in,         (* the instruction to start                                  *)
  stage1,     (* a load or AMO that probes the store buffer                *)
  stage2,     (* probed, with the answer                                   *)
  stage3,     (* requested from memory, or with forwarded data             *)
  aq_r,       (* an acquiring AMO is on its way                            *)
  (* the store buffer and memory *)
  storage, head_r, tail_r, full_r, pending_buf, accepted,
  mem,        (* the words of memory                                       *)
  written,    (* memory has performed the store in pending_buf             *)
  read_rq,    (* the load or AMO on its way to memory                      *)
  read_rs,    (* memory's answer                                           *)
  effects     (* history: the instructions whose effect is irrevocable     *)

cpu  == <<ops, op_epoch, epoch, retired, at_head, committed, redirects>>
pipe == <<in, stage1, stage2, stage3, aq_r>>
sb   == <<storage, head_r, tail_r, full_r, pending_buf, accepted>>
bus  == <<mem, written, read_rq, read_rs>>
vars == <<cpu, result, pipe, sb, bus, effects>>

SB == INSTANCE StoreBuffer

ASSUME BufferAssumption == SB!DepthAssumption /\ SB!StoreAssumption

-----------------------------------------------------------------------------
is_speculative_region(a) == a \in DmemAddr

current_epoch(i) == op_epoch[i] = epoch
rob_head(i)      == at_head /\ i = retired + 1

(* An instruction in the load pipeline: fwd is the store buffer's answer.   *)
LoadPipe(i, mispredicted, fwd) == [op |-> i, mispredicted |-> mispredicted, fwd |-> fwd]

(* Runs with the epoch of its instruction, and is not marked already. *)
live(stage) == stage # <<>> /\ current_epoch(stage[1].op) /\ ~stage[1].mispredicted

(* Mutant of dead: only what an earlier stage has marked is flushed. *)
dead_marked(stage) == stage # <<>> /\ stage[1].mispredicted

dead(stage) == stage # <<>> /\ ~live(stage)

(* A store that counts as answered, or an instruction without effect. *)
answer(i, word) == result' = [result EXCEPT ![i] = <<word>>]

Init ==
  /\ ops = <<>> /\ op_epoch = <<>> /\ epoch = 0
  /\ retired = 0 /\ at_head = FALSE /\ committed = {} /\ redirects = 0
  /\ result = [i \in Op |-> <<>>]
  /\ in = <<>> /\ stage1 = <<>> /\ stage2 = <<>> /\ stage3 = <<>> /\ aq_r = FALSE
  /\ SB!Init
  /\ mem = [a \in Addr |-> NoWord] /\ written = FALSE
  /\ read_rq = <<>> /\ read_rs = <<>>
  /\ effects = {}

-----------------------------------------------------------------------------
(* Stores.  The write passes a bypass FIFO into the store buffer in the     *)
(* same cycle: a buffer that does not report full has room.                 *)
calculate_store ==
  /\ in # <<>>
  /\ LET i == in[1]
     IN  /\ ops[i].kind = "STORE" /\ current_epoch(i)
         /\ ~SB!full /\ ~aq_r /\ rob_head(i)
         /\ in' = <<>>
         /\ answer(i, NoWord)
         /\ IF ops[i].misaligned THEN UNCHANGED <<sb, effects>>
            ELSE /\ SB!Clock(<<[mem_addr |-> ops[i].addr,
                                payload  |-> [data |-> i, mask |-> ops[i].mask]]>>, FALSE, FALSE)
                 /\ effects' = effects \cup {i}
  /\ UNCHANGED <<cpu, stage1, stage2, stage3, aq_r, bus>>

calculate_store_flush ==
  /\ in # <<>> /\ ops[in[1]].kind = "STORE" /\ ~current_epoch(in[1])
  /\ in' = <<>>
  /\ answer(in[1], NoWord)
  /\ UNCHANGED <<cpu, stage1, stage2, stage3, aq_r, sb, bus, effects>>

(* Loads and AMOs.  The rule for set_aq_r writes False, as that for         *)
(* clear_aq_r does.                                                         *)
set_aq   == aq_r' = FALSE
clear_aq == aq_r' = FALSE

calc_addr_load ==
  /\ in # <<>> /\ ops[in[1]].kind # "STORE" /\ current_epoch(in[1])
  /\ ~aq_r /\ stage1 = <<>>
  /\ in' = <<>>
  /\ stage1' = <<LoadPipe(in[1], FALSE, {})>>
  /\ IF ops[in[1]].kind = "AMO" /\ ops[in[1]].aq THEN set_aq ELSE UNCHANGED aq_r
  /\ UNCHANGED <<cpu, result, stage2, stage3, sb, bus, effects>>

flush_invalid_loads ==
  /\ in # <<>> /\ ops[in[1]].kind # "STORE" /\ ~current_epoch(in[1])
  /\ stage1 = <<>>
  /\ in' = <<>>
  /\ stage1' = <<LoadPipe(in[1], TRUE, {})>>
  /\ UNCHANGED <<cpu, result, stage2, stage3, aq_r, sb, bus, effects>>

(* Mutants of probe: an AMO does not wait for older stores; the ring and the *)
(* store on the bus both answer.                                             *)
probe_eager(i) == IF ops[i].kind = "AMO" THEN {} ELSE SB!forward(ops[i].addr)
probe_both(i)  == SB!internal_forward(ops[i].addr) \cup SB!pending_store(ops[i].addr)

(* The store buffer is probed in every cycle until its answer will do: no   *)
(* store to the word, or, for a load, the youngest one covers all lanes.    *)
probe(i) == SB!forward(ops[i].addr)

(* Mutant of will_do: the mask of the store is not compared. *)
will_do_unmasked(i, fwd) == fwd = {} \/ ops[i].kind = "LOAD"

will_do(i, fwd) ==
  fwd = {} \/ (ops[i].kind = "LOAD" /\ \E s \in fwd : ops[i].mask \subseteq s.payload.mask)

check_fwd_path_resp ==
  /\ live(stage1) /\ stage2 = <<>>
  /\ will_do(stage1[1].op, probe(stage1[1].op))
  /\ stage2' = <<LoadPipe(stage1[1].op, FALSE, probe(stage1[1].op))>>
  /\ stage1' = <<>>
  /\ UNCHANGED <<cpu, result, in, stage3, aq_r, sb, bus, effects>>

flush_invalid_fwds ==
  /\ dead(stage1) /\ stage2 = <<>>
  /\ stage1' = <<>>
  /\ stage2' = <<LoadPipe(stage1[1].op, TRUE, {})>>
  /\ IF ops[stage1[1].op].aq THEN clear_aq ELSE UNCHANGED aq_r
  /\ UNCHANGED <<cpu, result, in, stage3, sb, bus, effects>>

(* Mutant of MayRequest: a releasing AMO does not wait for the store buffer. *)
MayRequest_unreleased(i, fwd) ==
  IF ops[i].kind = "LOAD"
  THEN fwd = {} /\ (rob_head(i) \/ is_speculative_region(ops[i].addr))
  ELSE rob_head(i)

(* Mutant of MayRequest: an AMO is sent speculatively. *)
MayRequest_early(i, fwd) ==
  IF ops[i].kind = "LOAD"
  THEN fwd = {} /\ (rob_head(i) \/ is_speculative_region(ops[i].addr))
  ELSE ops[i].rl => SB!empty(FALSE)

(* Mutant of MayRequest: a load with forwarded data asks memory as well. *)
MayRequest_forwarded(i, fwd) ==
  IF ops[i].kind = "LOAD"
  THEN rob_head(i) \/ is_speculative_region(ops[i].addr)
  ELSE rob_head(i) /\ (ops[i].rl => SB!empty(FALSE))

(* A load with forwarded data is done, in data memory; one without asks     *)
(* memory, in periphery only at the head; an AMO asks memory at the head,   *)
(* a releasing one only when no store is left in the buffer.                *)
MayRequest(i, fwd) ==
  IF ops[i].kind = "LOAD"
  THEN fwd = {} /\ (rob_head(i) \/ is_speculative_region(ops[i].addr))
  ELSE rob_head(i) /\ (ops[i].rl => SB!empty(FALSE))

request_axi_if_needed ==
  /\ live(stage2) /\ stage3 = <<>>
  /\ LET i   == stage2[1].op
         fwd == stage2[1].fwd
     IN  \/ /\ ops[i].kind = "LOAD" /\ fwd # {} /\ is_speculative_region(ops[i].addr)
            /\ UNCHANGED <<read_rq, effects>>
         \/ /\ MayRequest(i, fwd)
            /\ read_rq' = <<i>>
            /\ effects' = IF ops[i].kind = "AMO" \/ ~is_speculative_region(ops[i].addr)
                          THEN effects \cup {i} ELSE effects
  /\ stage2' = <<>>
  /\ stage3' = stage2
  /\ UNCHANGED <<cpu, result, in, stage1, aq_r, sb, mem, written, read_rs>>

flush_invalid_axi_rq ==
  /\ dead(stage2) /\ stage3 = <<>>
  /\ stage2' = <<>>
  /\ stage3' = <<LoadPipe(stage2[1].op, TRUE, {})>>
  /\ IF ops[stage2[1].op].aq THEN clear_aq ELSE UNCHANGED aq_r
  /\ UNCHANGED <<cpu, result, in, stage1, sb, bus, effects>>

(* The lanes an instruction asked for. *)
Taken(i, word) == [l \in Lane |-> IF l \in ops[i].mask THEN word[l] ELSE 0]

collect_result_read_bypass ==
  /\ stage3 # <<>> /\ ~stage3[1].mispredicted /\ stage3[1].fwd # {}
  /\ \E s \in stage3[1].fwd :
       answer(stage3[1].op, Taken(stage3[1].op, [l \in Lane |-> s.payload.data]))
  /\ stage3' = <<>>
  /\ UNCHANGED <<cpu, in, stage1, stage2, aq_r, sb, bus, effects>>

collect_result_read ==
  /\ stage3 # <<>> /\ ~stage3[1].mispredicted /\ stage3[1].fwd = {}
  /\ read_rs # <<>>
  /\ answer(stage3[1].op, Taken(stage3[1].op, read_rs[1]))
  /\ stage3' = <<>>
  /\ read_rs' = <<>>
  /\ LET op == ops[stage3[1].op]
     IN  IF op.aq /\ op.kind = "AMO" THEN clear_aq ELSE UNCHANGED aq_r
  /\ UNCHANGED <<cpu, in, stage1, stage2, sb, mem, written, read_rq, effects>>

collect_result_mispredict ==
  /\ stage3 # <<>> /\ stage3[1].mispredicted
  /\ answer(stage3[1].op, NoWord)
  /\ stage3' = <<>>
  /\ IF ops[stage3[1].op].aq THEN clear_aq ELSE UNCHANGED aq_r
  /\ UNCHANGED <<cpu, in, stage1, stage2, sb, bus, effects>>

-----------------------------------------------------------------------------
(* The bus side of the store buffer, and the flag it clears by itself. *)
StoreSent     == SB!Clock(<<>>, TRUE, FALSE) /\ UNCHANGED <<cpu, result, pipe, bus, effects>>
StoreAnswered == /\ written /\ SB!Clock(<<>>, FALSE, TRUE) /\ written' = FALSE
                 /\ UNCHANGED <<cpu, result, pipe, mem, read_rq, read_rs, effects>>
FullFlushed   == SB!Clock(<<>>, FALSE, FALSE) /\ UNCHANGED <<cpu, result, pipe, bus, effects>>

(* Memory performs a request between taking and answering it; reads and     *)
(* writes travel on channels of their own.                                  *)
MemoryWrites ==
  /\ pending_buf # <<>> /\ ~written
  /\ LET s == pending_buf[1]
     IN  mem' = [mem EXCEPT ![s.mem_addr] = [l \in Lane |->
                   IF l \in s.payload.mask THEN s.payload.data ELSE @[l]]]
  /\ written' = TRUE
  /\ UNCHANGED <<cpu, result, pipe, sb, read_rq, read_rs, effects>>

MemoryReads ==
  /\ read_rq # <<>> /\ read_rs = <<>>
  /\ LET i == read_rq[1]
     IN  /\ read_rs' = <<mem[ops[i].addr]>>
         /\ mem' = IF ops[i].kind = "AMO" THEN [mem EXCEPT ![ops[i].addr] = [l \in Lane |-> i]]
                                          ELSE mem
  /\ read_rq' = <<>>
  /\ UNCHANGED <<cpu, result, pipe, sb, written, effects>>

-----------------------------------------------------------------------------
(* The rest of the core.  An instruction arrives with the epoch it was      *)
(* fetched in; instructions of the old epoch may still arrive after a       *)
(* redirect, but none after the first of the new epoch.                     *)
Arrive ==
  /\ in = <<>> /\ Len(ops) < MaxOps
  /\ \E op \in OpSet, e \in 0 .. epoch :
       /\ Len(ops) > 0 => op_epoch[Len(ops)] <= e
       /\ ops' = Append(ops, op)
       /\ op_epoch' = Append(op_epoch, e)
  /\ in' = <<Len(ops) + 1>>
  /\ UNCHANGED <<epoch, retired, at_head, committed, redirects, result,
                 stage1, stage2, stage3, aq_r, sb, bus, effects>>

(* All older instructions of other kinds have left the reorder buffer. *)
HeadReached ==
  /\ ~at_head /\ retired < Len(ops)
  /\ at_head' = TRUE
  /\ UNCHANGED <<ops, op_epoch, epoch, retired, committed, redirects, result, pipe, sb, bus, effects>>

(* The oldest instruction leaves once its result is there.  Commit drops it *)
(* if it is of an old epoch and redirects if it carries an exception.       *)
Retire ==
  /\ at_head /\ retired < Len(ops) /\ result[retired + 1] # <<>>
  /\ LET i == retired + 1
     IN  /\ retired' = i
         /\ epoch' = IF current_epoch(i) /\ ops[i].misaligned THEN epoch + 1 ELSE epoch
         /\ committed' = IF current_epoch(i) /\ ~ops[i].misaligned THEN committed \cup {i}
                                                                  ELSE committed
  /\ at_head' = FALSE
  /\ UNCHANGED <<ops, op_epoch, redirects, result, pipe, sb, bus, effects>>

(* An older mispredicted branch, or an instruction of another kind with an  *)
(* exception, leaves the reorder buffer; an interrupt waits for nothing.    *)
Redirect ==
  /\ redirects < MaxRedirects
  /\ at_head => Interrupts
  /\ redirects' = redirects + 1
  /\ epoch' = epoch + 1
  /\ UNCHANGED <<ops, op_epoch, retired, at_head, committed, result, pipe, sb, bus, effects>>

Unit == \/ calculate_store \/ calculate_store_flush
        \/ calc_addr_load \/ flush_invalid_loads
        \/ check_fwd_path_resp \/ flush_invalid_fwds
        \/ request_axi_if_needed \/ flush_invalid_axi_rq
        \/ collect_result_read_bypass \/ collect_result_read \/ collect_result_mispredict

Next == \/ Unit
        \/ StoreSent \/ StoreAnswered \/ FullFlushed
        \/ MemoryWrites \/ MemoryReads
        \/ Arrive \/ HeadReached \/ Retire \/ Redirect

Spec == Init /\ [][Next]_vars

-----------------------------------------------------------------------------
Stage == {<<>>} \cup {<<LoadPipe(i, m, f)>> :
            i \in Op, m \in BOOLEAN, f \in {{}} \cup {{s} : s \in SB!MemWr}}

TypeOK ==
  /\ ops \in Seq(OpSet) /\ Len(ops) <= MaxOps
  /\ op_epoch \in Seq(Nat) /\ Len(op_epoch) = Len(ops)
  /\ \A i \in 1 .. Len(ops) : op_epoch[i] <= epoch
  /\ retired \in 0 .. Len(ops) /\ at_head \in BOOLEAN /\ committed \subseteq 1 .. retired
  /\ redirects \in 0 .. MaxRedirects /\ epoch \in Nat
  /\ result \in [Op -> SB!Maybe(Word)]
  /\ in \in SB!Maybe(1 .. Len(ops))
  /\ stage1 \in Stage /\ stage2 \in Stage /\ stage3 \in Stage /\ aq_r \in BOOLEAN
  /\ SB!TypeOK
  /\ mem \in [Addr -> Word] /\ written \in BOOLEAN
  /\ read_rq \in SB!Maybe(Op) /\ read_rs \in SB!Maybe(Word)
  /\ effects \subseteq 1 .. Len(ops)

(* The last of the committed instructions before i that wrote the lane. *)
Writers(i, a, l) == {j \in committed : j < i /\ ops[j].kind # "LOAD"
                                       /\ ops[j].addr = a /\ l \in ops[j].mask}
LastWriter(i, a, l) == IF Writers(i, a, l) = {} THEN 0
                       ELSE CHOOSE j \in Writers(i, a, l) : \A k \in Writers(i, a, l) : k <= j

(* A committed load or AMO returns, lane by lane, what the instructions     *)
(* committed before it wrote, although it may have run before they left the *)
(* store buffer, on a wrong path's heels, or from half a word forwarded.    *)
LoadsSeeProgramOrder ==
  \A i \in committed : ops[i].kind # "STORE" =>
    result[i] = <<Taken(i, [l \in Lane |-> LastWriter(i, ops[i].addr, l)])>>

(* "Real write occurs in storebuffer after successful commit": what others  *)
(* can see is the doing of instructions that commit.                        *)
EffectsCommit ==
  \A i \in effects : i \in committed \/ (i > retired /\ current_epoch(i))

(* A releasing AMO reaches memory after every store before it.              *)
ReleaseIsLast ==
  \A i \in Op : read_rq = <<i>> /\ ops[i].kind = "AMO" /\ ops[i].rl => SB!Unconfirmed = <<>>

(* No answer of memory gets lost or meets the wrong instruction: there is   *)
(* one on the way exactly while the last stage waits for it.                *)
OneReadOnItsWay ==
  LET waits == stage3 # <<>> /\ ~stage3[1].mispredicted /\ stage3[1].fwd = {}
  IN  /\ Len(read_rq) + Len(read_rs) = IF waits THEN 1 ELSE 0
      /\ waits /\ read_rq # <<>> => read_rq[1] = stage3[1].op

-----------------------------------------------------------------------------
(* Every rule of the unit, memory and the retiring of what is complete go   *)
(* on; whether instructions or redirects arrive is left open.               *)
FairSpec ==
  /\ Spec
  /\ WF_vars(Unit) /\ WF_vars(StoreSent) /\ WF_vars(StoreAnswered) /\ WF_vars(FullFlushed)
  /\ WF_vars(MemoryWrites) /\ WF_vars(MemoryReads) /\ WF_vars(HeadReached) /\ WF_vars(Retire)

(* Every instruction that has arrived is answered, so that the reorder      *)
(* buffer can go on: wrong-path instructions too.                           *)
EveryOpAnswered == \A i \in Op : i <= Len(ops) ~> result[i] # <<>>
=============================================================================
