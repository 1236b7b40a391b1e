--------------------------- MODULE SpeculationCore ---------------------------
(***************************************************************************)
(* One core from the instruction window to the architectural state: issue  *)
(* with register renaming, the stations and units that execute out of      *)
(* order, the reorder buffer as the window it is (InOrderWindow), commit   *)
(* with redirects and traps, the CSR unit, and the frontend as far as it   *)
(* follows predictions and redirects.                                      *)
(*                                                                         *)
(* A step is one clock cycle; everything reads the registers as they were  *)
(* when it began, apart from the ports of the speculative registers and    *)
(* of int_in_process_r.                                                    *)
(*                                                                         *)
(* A value is the number of the instruction that computed it.              *)
(***************************************************************************)
EXTENDS Naturals, Sequences, FiniteSets

CONSTANTS
  ISSUEWIDTH,          (* instructions issued and committed per cycle      *)
  ROBDEPTH,            (* rows of the reorder buffer                       *)
  INST_WINDOW,         (* decoded instructions that may wait for issue     *)
  NUM_FU,              (* results per cycle                                *)
  RESBUS_ADDED_DELAY,  (* cycles results take on their way to the stations *)
  Size,                (* addresses of a program                           *)
  TVEC,                (* mtvec, the address of the trap handler           *)
  Register,            (* registers but register 0                         *)
  Programs,            (* the programs to run                              *)
  MaxFetched           (* bound: instructions fetched in a behaviour       *)

PC    == 0 .. Size - 1
Tag   == 0 .. ROBDEPTH - 1
Value == 0 .. MaxFetched

Kind     == {"op", "fault", "branch", "csr", "ecall", "mret"}
InstType == [kind : Kind, rd : Register \cup {0}, rs : Register \cup {0}, target : PC]

ASSUME SizeAssumption    == ISSUEWIDTH \in Nat \ {0} /\ ROBDEPTH \in Nat \ {0}
                            /\ INST_WINDOW \in Nat \ {0} /\ NUM_FU \in Nat \ {0}
                            /\ RESBUS_ADDED_DELAY \in Nat
                            /\ Size \in Nat \ {0} /\ MaxFetched \in Nat
ASSUME ProgramAssumption == Programs \subseteq [PC -> InstType] /\ TVEC \in PC

VARIABLES
  (* the program and the frontend *)
  text,             (* the program                                         *)
  fetch_pc,         (* the address to fetch next                           *)
  fetched,          (* instructions fetched so far                         *)
  decoded,          (* the instruction window                              *)
  (* issue and execution *)
  rob_idx,          (* the tag of the next instruction                     *)
  stations,         (* issued instructions that have no result: tag, rs1   *)
  delay_bus_rs,     (* results on their way to the stations                *)
  csr_unit,         (* the instruction in the CSR unit, and where          *)
  out_wr,           (* a write on its way to the CSR file                  *)
  (* the backend *)
  rob,              (* the reorder buffer, oldest first                    *)
  registers, regs, out_buffer,
  epoch,            (* of commit; fetch, registers and units follow it     *)
  next_pc_r,        (* where the last committed instruction led            *)
  int_in_process_r, (* interrupts wait for an mret                         *)
  mepc, mscratch,   (* CSRs                                                *)
  (* history *)
  path,             (* redirects so far: which path is the current one     *)
  retired,          (* what the last cycle committed                       *)
  csr_writer,       (* the last committed instruction that wrote mscratch  *)
  csr_torn,         (* an interrupt has dropped one after its write        *)
  exception_pc      (* of the exception being handled, if one is           *)

frontend == <<text, fetch_pc, fetched, decoded>>
execcore == <<rob_idx, stations, delay_bus_rs, csr_unit, out_wr>>
backend  == <<rob, registers, regs, out_buffer, epoch, next_pc_r, int_in_process_r,
              mepc, mscratch>>
history  == <<path, retired, csr_writer, csr_torn, exception_pc>>
vars     == <<frontend, execcore, backend, history>>

Regs == INSTANCE SpeculativeRegisters

-----------------------------------------------------------------------------
(* Mutant of rollover_add: does not wrap. *)
rollover_add_unwrapped(a, b) == a + b

rollover_add(a, b) == (a + b) % ROBDEPTH

(* Mutant of EPOCHS: a single bit. *)
EPOCHS_bit == 2

(* Epochs are counted in the bits it takes to count the instructions that   *)
(* fetch (one at a time), the window and the reorder buffer hold.           *)
EPOCHS == CHOOSE n \in {2 ^ k : k \in 0 .. 8} :
            /\ n >= 1 + ROBDEPTH + INST_WINDOW
            /\ \A k \in 0 .. 8 : 2 ^ k >= 1 + ROBDEPTH + INST_WINDOW => n <= 2 ^ k

Follow(a)    == (a + 1) % Size
inst(e)      == text[e.pc]
system(e)    == inst(e).kind \in {"csr", "ecall", "mret"}
Suffix(s, n) == SubSeq(s, n + 1, Len(s))

Init ==
  /\ text \in Programs
  /\ fetch_pc = 0 /\ fetched = 0 /\ decoded = <<>>
  /\ rob_idx = 0 /\ stations = {} /\ csr_unit = <<>> /\ out_wr = <<>>
  /\ delay_bus_rs = [k \in 1 .. RESBUS_ADDED_DELAY |-> {}]
  /\ rob = <<>>
  /\ Regs!InitRegisters
  /\ epoch = 0 /\ next_pc_r = <<>> /\ int_in_process_r = FALSE
  /\ mepc = 0 /\ mscratch = 0
  /\ path = 0 /\ retired = <<>> /\ csr_writer = 0 /\ csr_torn = FALSE
  /\ exception_pc = <<>>

-----------------------------------------------------------------------------
(* Issue takes the n oldest of the window, if the reorder buffer has room   *)
(* for them, and tags them.                                                 *)
may_issue(n) == n <= ISSUEWIDTH /\ n <= Len(decoded) /\ n <= ROBDEPTH - Len(rob)

Issued(n) ==
  [k \in 1 .. n |-> [tag |-> rollover_add(rob_idx, k - 1), epoch |-> decoded[k].epoch,
                     rd  |-> inst(decoded[k]).rd, rs |-> inst(decoded[k]).rs]]

map_to_rob_entry(n) ==
  [k \in 1 .. n |->
     [id |-> decoded[k].id, pc |-> decoded[k].pc, pred_pc |-> decoded[k].pred_pc,
      epoch |-> decoded[k].epoch, path |-> decoded[k].path,
      tag |-> rollover_add(rob_idx, k - 1),
      done |-> FALSE, src |-> 0, next_pc |-> 0, except |-> FALSE]]

map_to_issued(n, bus) ==
  {[tag |-> Issued(n)[k].tag, rs1 |-> Regs!gather_operand(Issued(n), k, bus)] : k \in 1 .. n}

-----------------------------------------------------------------------------
(* Execution.  A station hands out an instruction when its operand is there; *)
(* the unit then takes any time.                                            *)
Entry(t) == rob[CHOOSE k \in 1 .. Len(rob) : rob[k].tag = t]

(* How an instruction may end: branches go either way, some instructions    *)
(* may raise an exception, an environment call does.                        *)
Outcomes(e) ==
  LET on == [next_pc |-> Follow(e.pc), except |-> FALSE]
  IN  CASE inst(e).kind = "branch" -> {on, [on EXCEPT !.next_pc = inst(e).target]}
        [] inst(e).kind = "fault"  -> {on, [on EXCEPT !.except = TRUE]}
        [] inst(e).kind = "ecall"  -> {[on EXCEPT !.except = TRUE]}
        [] OTHER                   -> {on}

result(s, o) == [tag |-> s.tag, value |-> Entry(s.tag).id, src |-> s.rs1.value,
                 next_pc |-> o.next_pc, except |-> o.except]

ready == {s \in stations : s.rs1.is = "Value"}

(* The tag of the system instruction that is done in its unit. *)
answered == {csr_unit[k].tag : k \in {j \in 1 .. Len(csr_unit) : csr_unit[j].out}}

(* The results the units may put on the bus in this cycle. *)
Results ==
  UNION {{result(s, o) : o \in Outcomes(Entry(s.tag))} :
           s \in {r \in ready : system(Entry(r.tag)) => r.tag \in answered}}

(* The system instruction is on the bus at once. *)
may_complete(bus) ==
  /\ Cardinality(bus) <= NUM_FU
  /\ \A a, b \in bus : a.tag = b.tag => a = b
  /\ \A t \in answered : \E r \in bus : r.tag = t

(* Mutant of at_head: does not wait. *)
at_head_always(t) == TRUE

(* The tail of the reorder buffer names this instruction. *)
at_head(t) == rob # <<>> /\ rob[1].tag = t

(* The CSR unit: takes an instruction, the oldest only; reads, and writes if *)
(* the epoch is still that of the instruction; answers.  One at a time.     *)
get_request ==
  \E s \in ready :
    /\ csr_unit = <<>> /\ system(Entry(s.tag)) /\ at_head(s.tag)
    /\ csr_unit' = <<[tag |-> s.tag, out |-> FALSE]>>
    /\ out_wr' = <<>>

read_modify ==
  /\ csr_unit # <<>> /\ answered = {}
  /\ csr_unit' = <<[csr_unit[1] EXCEPT !.out = TRUE]>>
  /\ LET e == Entry(csr_unit[1].tag)
     IN  out_wr' = IF inst(e).kind = "csr" /\ e.epoch = epoch THEN <<e.id>> ELSE <<>>

propagate_result ==
  /\ (csr_unit = <<>>) \/ (answered # {})
  /\ csr_unit' = <<>>
  /\ out_wr' = <<>>

CsrCycle == get_request \/ read_modify \/ propagate_result

(* The CSR file takes what has been sent to it. *)
write == mscratch' = IF out_wr = <<>> THEN mscratch ELSE out_wr[1]

(* The bus, and what of it has got through to the stations. *)
loopback(bus) == {[tag |-> r.tag, value |-> r.value] : r \in bus}

arrived(bus) == IF RESBUS_ADDED_DELAY = 0 THEN loopback(bus) ELSE delay_bus_rs[1]

StationCycle(n, bus) ==
  /\ stations' = {[s EXCEPT !.rs1 = Regs!latch(s.rs1, arrived(bus))] :
                     s \in {q \in stations : \A r \in bus : r.tag # q.tag}}
                 \cup map_to_issued(n, loopback(bus))
  /\ delay_bus_rs' = IF RESBUS_ADDED_DELAY = 0 THEN <<>>
                     ELSE Append(Tail(delay_bus_rs), loopback(bus))

(* The reorder buffer: m leave, results arrive, n enter. *)
completed(e, bus) ==
  IF \E r \in bus : r.tag = e.tag
  THEN LET r == CHOOSE r \in bus : r.tag = e.tag
       IN  [e EXCEPT !.done = TRUE, !.src = r.src, !.next_pc = r.next_pc, !.except = r.except]
  ELSE e

RobCycle(m, bus, n) ==
  rob' = [k \in 1 .. Len(rob) - m |-> completed(rob[m + k], bus)] \o map_to_rob_entry(n)

-----------------------------------------------------------------------------
(* Commit consumes the m oldest, all complete.                              *)
may_consume(m) == m <= ISSUEWIDTH /\ m <= Len(rob) /\ \A k \in 1 .. m : rob[k].done

(* Where an instruction leads, and whether the frontend went elsewhere; an   *)
(* exception or a return always redirects.                                  *)
next_pc(e) == IF e.except THEN TVEC ELSE IF inst(e).kind = "mret" THEN mepc ELSE e.next_pc

redirects(e) == e.except \/ inst(e).kind = "mret" \/ e.next_pc # e.pred_pc

(* Of those of the current epoch, the first that redirects is the last to   *)
(* count.                                                                   *)
counts(k) == /\ rob[k].epoch = epoch
             /\ \A j \in 1 .. k - 1 : rob[j].epoch = epoch => ~redirects(rob[j])

Counted(m) == {k \in 1 .. m : counts(k)}

(* The instructions in these rows, in order.                                *)
InTurn(K) ==
  [i \in 1 .. Cardinality(K) |-> rob[CHOOSE k \in K : Cardinality({j \in K : j < k}) = i - 1]]

Committed(m) == InTurn(Counted(m))

reg_write(e) == [addr |-> inst(e).rd, data |-> e.id]

writes(m) == LET c == InTurn({k \in Counted(m) : ~rob[k].except})
             IN  [k \in 1 .. Len(c) |-> reg_write(c[k])]

(* Port 1 of next_pc_r and int_in_process_r, behind the committed ones. *)
next_pc_now(c) == IF c = <<>> THEN next_pc_r ELSE <<next_pc(c[Len(c)])>>

in_process_now(c) ==
  IF c = <<>> THEN int_in_process_r
  ELSE CASE inst(c[Len(c)]).kind = "ecall" -> TRUE
         [] inst(c[Len(c)]).kind = "mret"  -> FALSE
         [] OTHER                          -> int_in_process_r

(* An interrupt may come unless one is in process.  Software enables them,  *)
(* so something has committed before.                                       *)
may_interrupt(c) == ~in_process_now(c) /\ next_pc_r # <<>>

next_epoch == (epoch + 1) % EPOCHS

redirect_on_interrupt(c) ==
  /\ may_interrupt(c)
  /\ int_in_process_r' = TRUE
  /\ mepc' = next_pc_now(c)[1]
  /\ epoch' = next_epoch

redirect_on_no_interrupt(c) ==
  /\ int_in_process_r' = in_process_now(c)
  /\ mepc' = IF c # <<>> /\ c[Len(c)].except THEN c[Len(c)].pc ELSE mepc
  /\ epoch' = IF c # <<>> /\ redirects(c[Len(c)]) THEN next_epoch ELSE epoch

-----------------------------------------------------------------------------
(* The frontend follows its predictions, and redirects of commit. *)
Predictions(a) == IF text[a].kind = "branch" THEN {Follow(a), text[a].target} ELSE {Follow(a)}

Fetched(p) == [id |-> fetched + 1, pc |-> fetch_pc, pred_pc |-> p, epoch |-> epoch, path |-> path]

(* new is the instruction that arrives in the window in this cycle, if any. *)
FrontendCycle(n, new, flush, target) ==
  /\ new # <<>> => Len(decoded) < INST_WINDOW /\ fetched < MaxFetched
  /\ decoded'  = Suffix(decoded, n) \o new
  /\ fetched'  = fetched + Len(new)
  /\ fetch_pc' = IF flush THEN target
                 ELSE IF new # <<>> THEN new[1].pred_pc ELSE fetch_pc
  /\ UNCHANGED text

(* An instruction that has modified mscratch, or is about to, and has not   *)
(* left the reorder buffer.                                                 *)
csr_pending(m) ==
  m < Len(rob) /\ inst(rob[m + 1]).kind = "csr" /\ rob[m + 1].epoch = epoch
  /\ (rob[m + 1].done \/ csr_unit # <<>>)

CsrWriters(c) == {k \in 1 .. Len(c) : inst(c[k]).kind = "csr"}

History(c, m, flush, interrupt) ==
  /\ path' = IF flush THEN path + 1 ELSE path
  /\ retired' = [k \in 1 .. Len(c) |->
                   [pc |-> c[k].pc, src |-> c[k].src, value |-> c[k].id,
                    next |-> next_pc(c[k]), except |-> c[k].except]]
  /\ csr_writer' = IF CsrWriters(c) = {} THEN csr_writer
                   ELSE c[CHOOSE k \in CsrWriters(c) : \A j \in CsrWriters(c) : j <= k].id
  /\ csr_torn' = (csr_torn \/ (interrupt /\ csr_pending(m)))
  /\ exception_pc' = IF c # <<>> /\ c[Len(c)].except THEN <<c[Len(c)].pc>>
                     ELSE IF c # <<>> /\ inst(c[Len(c)]).kind = "mret" THEN <<>>
                     ELSE exception_pc

(* One clock cycle: n are issued, bus is on the result bus, m are consumed, *)
(* new arrives in the window, and an interrupt is taken or not.             *)
Clock(n, bus, m, new, interrupt) ==
  LET c      == Committed(m)
      flush  == interrupt \/ (c # <<>> /\ redirects(c[Len(c)]))
      target == IF interrupt THEN TVEC ELSE next_pc(c[Len(c)])
  IN  /\ FrontendCycle(n, new, flush, target)
      /\ rob_idx' = rollover_add(rob_idx, n)
      /\ StationCycle(n, bus)
      /\ CsrCycle
      /\ write
      /\ RobCycle(m, bus, n)
      /\ Regs!RegisterCycle(loopback(bus), Issued(n), epoch, flush, writes(m))
      /\ next_pc_r' = next_pc_now(c)
      /\ IF interrupt THEN redirect_on_interrupt(c) ELSE redirect_on_no_interrupt(c)
      /\ History(c, m, flush, interrupt)

Next ==
  \E n, m \in 0 .. ISSUEWIDTH, interrupt \in BOOLEAN :
    /\ may_issue(n) /\ may_consume(m)
    /\ \E bus \in SUBSET Results :
         /\ may_complete(bus)
         /\ \E new \in {<<>>} \cup {<<Fetched(p)>> : p \in Predictions(fetch_pc)} :
              Clock(n, bus, m, new, interrupt)

Spec == Init /\ [][Next]_vars

-----------------------------------------------------------------------------
TypeOK ==
  /\ text \in Programs /\ fetch_pc \in PC /\ fetched \in Value /\ rob_idx \in Tag
  /\ decoded \in Seq([id : Value, pc : PC, pred_pc : PC, epoch : 0 .. EPOCHS - 1, path : Nat])
  /\ Len(decoded) <= INST_WINDOW
  /\ stations \subseteq [tag : Tag, rs1 : Regs!OperandRS]
  /\ delay_bus_rs \in Seq(SUBSET [tag : Tag, value : Value])
  /\ Len(delay_bus_rs) = RESBUS_ADDED_DELAY
  /\ csr_unit \in {<<>>} \cup {<<u>> : u \in [tag : Tag, out : BOOLEAN]}
  /\ out_wr \in {<<>>} \cup {<<v>> : v \in Value}
  /\ rob \in Seq([id : Value, pc : PC, pred_pc : PC, epoch : 0 .. EPOCHS - 1, path : Nat, tag : Tag,
                  done : BOOLEAN, src : Value, next_pc : PC, except : BOOLEAN])
  /\ Len(rob) <= ROBDEPTH
  /\ Regs!RegistersOK
  /\ epoch \in 0 .. EPOCHS - 1 /\ next_pc_r \in {<<>>} \cup {<<a>> : a \in PC}
  /\ int_in_process_r \in BOOLEAN /\ mepc \in PC /\ mscratch \in Value
  /\ csr_writer \in Value /\ csr_torn \in BOOLEAN

Flying == rob \o [k \in 1 .. Len(decoded) |-> decoded[k]]

(* Of all instructions between fetch and commit, exactly those fetched since *)
(* the last redirect carry the current epoch, and none of them has survived  *)
(* more than two redirects: however these follow each other, mispredictions, *)
(* exceptions, returns and interrupts, the counter cannot come round and     *)
(* bring back an older path, even with the two bits of the smallest core.    *)
EpochNamesPath ==
  \A k \in 1 .. Len(Flying) :
    /\ Flying[k].epoch = epoch <=> Flying[k].path = path
    /\ path - Flying[k].path <= 2

(* Operands that a station waits for are still to come: the instruction of   *)
(* that tag is older and has no result yet, or its result is on its way to   *)
(* the stations.  Instructions of abandoned paths wait as well and must get  *)
(* away, although the registers that named their operands are flushed.      *)
Position(t) == CHOOSE k \in 1 .. Len(rob) : rob[k].tag = t

NoWakeUpLost ==
  \A s \in stations : s.rs1.is = "Tag" =>
    \/ \E k \in 1 .. Position(s.tag) - 1 : rob[k].tag = s.rs1.tag /\ ~rob[k].done
    \/ \E d \in 1 .. RESBUS_ADDED_DELAY : \E r \in delay_bus_rs[d] : r.tag = s.rs1.tag

(* mscratch holds what the last committed instruction wrote to it, or the    *)
(* one about to commit: none of an abandoned path has touched it.           *)
MscratchCommits ==
  \/ mscratch = csr_writer
  \/ rob # <<>> /\ mscratch = rob[1].id /\ rob[1].epoch = epoch

(* The same unless an interrupt came between the write and the commit.      *)
MscratchCommitsUninterrupted == csr_torn \/ MscratchCommits

(* While an exception is handled, mepc is the address of its instruction,   *)
(* so that the handler's mret finds back.                                   *)
ExceptionReturns == exception_pc # <<>> => mepc = exception_pc[1]

-----------------------------------------------------------------------------
(* The core executes programs like a machine without speculation.  The next  *)
(* instruction of that machine is the oldest of the current path.           *)
OfCurrentPath == SelectSeq(Flying, LAMBDA e : e.path = path)

Sequential == INSTANCE SequentialMachine WITH
                Width <- ISSUEWIDTH,
                pc <- IF OfCurrentPath = <<>> THEN fetch_pc ELSE OfCurrentPath[1].pc,
                regs <- Regs!Written, masked <- int_in_process_r, bundle <- retired

ExecutesInOrder == Sequential!Spec
=============================================================================
