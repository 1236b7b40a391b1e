--------------------------- MODULE MemoryArbiter ----------------------------
(***************************************************************************)
(* The arbiter of data memory (MemoryArbiter.bsv): it merges the loads and *)
(* AMOs, and the stores, of all processors into one read and one write     *)
(* channel, performs AMOs by a read and a write during which everything    *)
(* else is held back, and keeps the link register of LR and SC.            *)
(*                                                                         *)
(* A step is one rule of the arbiter, with the rules its wires fire in the *)
(* same cycle, or a step of a processor or of memory.  A value is the      *)
(* number of the request that wrote it.                                    *)
(***************************************************************************)
EXTENDS Naturals, Sequences, FiniteSets

CONSTANTS
  NUM_CPU,
  Addr,           (* word addresses                                          *)
  Builds,         (* how the arbiter is built and what it is connected to    *)
  MaxOps          (* bound: requests of a behaviour                          *)

Cpu     == 0 .. NUM_CPU - 1
Request == [kind : {"LOAD", "STORE", "AMO", "LR", "SC"}, addr : Addr]

(* AGGRESSIVE: built with -aggressive-conditions, as the IP core is.         *)
(* PromptWrites: memory performs a write before any read sent after it, as  *)
(* the block RAM does; on AXI the channels are independent.                 *)
(* requests[c]: what processor c may ask for.                               *)
Build == [AGGRESSIVE : BOOLEAN, PromptWrites : BOOLEAN, requests : [Cpu -> SUBSET Request]]

ASSUME CpuAssumption   == NUM_CPU \in Nat \ {0} /\ MaxOps \in Nat
ASSUME BuildAssumption == Builds \subseteq Build

VARIABLES
  build,             (* which of the builds this is                        *)
  (* the processors: one load or AMO and one store at a time *)
  ops,               (* the requests so far: [cpu, kind, addr]             *)
  reading,           (* per processor: its load or AMO                     *)
  storing,           (* per processor: its store                           *)
  (* the arbiter *)
  load_queue, store_queue,
  link_lrsc,         (* the linked address                                 *)
  amo_in_progress,
  amo_description,   (* the AMO whose read is under way                    *)
  mem_rd_resp_f_v,   (* per processor: the answer to its load or AMO       *)
  rd_rq_fifo, rd_rs_fifo, wr_rq_fifo, wr_rs_fifo,
  (* memory *)
  mem,
  reads, writes,     (* requests memory has taken, in order                *)
  (* history *)
  seen,              (* per processor: the values its word has had since it asked *)
  reserved,          (* per processor: the word its last LR has read, and  *)
                     (* whether it is intact: no other processor has       *)
                     (* written to it since                                *)
  watched,           (* the word the last LR of all has read, until a      *)
                     (* store or an SC has written to it                   *)
  lost               (* an answer for an AMO has been dropped              *)

cores   == <<ops, reading, storing>>
amo     == <<link_lrsc, amo_in_progress, amo_description>>
queues  == <<load_queue, store_queue>>
links   == <<reserved, watched>>
vars    == <<build, cores, queues, amo, mem_rd_resp_f_v, rd_rq_fifo, rd_rs_fifo,
             wr_rq_fifo, wr_rs_fifo, mem, reads, writes, seen, links, lost>>

Maybe(S) == {<<>>} \cup {<<x>> : x \in S}

AGGRESSIVE   == build.AGGRESSIVE
PromptWrites == build.PromptWrites

-----------------------------------------------------------------------------
cpu_id(i) == ops[i].cpu
kind(i)   == ops[i].kind
addr(i)   == ops[i].addr

(* What SC returns. *)
Stored  == 0
Refused == 1

(* A transfer on a memory channel: the bit amo_id tells the arbiter's own   *)
(* accesses from those of the processors; old is what an AMO read.          *)
Transfer(i, amo_id)      == [op |-> i, amo_id |-> amo_id]
Writing(i, amo_id, old)  == [op |-> i, amo_id |-> amo_id, old |-> old]

Init ==
  /\ build \in Builds
  /\ ops = <<>>
  /\ reading = [c \in Cpu |-> <<>>] /\ storing = [c \in Cpu |-> <<>>]
  /\ load_queue = <<>> /\ store_queue = <<>>
  /\ link_lrsc = <<>> /\ amo_in_progress = FALSE /\ amo_description = <<>>
  /\ mem_rd_resp_f_v = [c \in Cpu |-> <<>>]
  /\ rd_rq_fifo = <<>> /\ rd_rs_fifo = <<>> /\ wr_rq_fifo = <<>> /\ wr_rs_fifo = <<>>
  /\ mem = [a \in Addr |-> 0] /\ reads = <<>> /\ writes = <<>>
  /\ seen = [c \in Cpu |-> {}] /\ reserved = [c \in Cpu |-> <<>>]
  /\ watched = <<>> /\ lost = FALSE

-----------------------------------------------------------------------------
(* The processors.  A load whose word has a store on its way is answered    *)
(* by the store buffer, and an AMO waits for it, so that a processor never  *)
(* has both at one word.  Requests of one cycle are queued in order.        *)
Occupies(busy, c, a) == busy[c] # <<>> /\ addr(busy[c][1]) = a

Ask(c, r) == /\ Len(ops) < MaxOps
             /\ ops' = Append(ops, [cpu |-> c, kind |-> r.kind, addr |-> r.addr])

put_read(c) ==
  /\ reading[c] = <<>> /\ Len(load_queue) < 2 * NUM_CPU
  /\ \E r \in build.requests[c] :
       /\ r.kind # "STORE" /\ ~Occupies(storing, c, r.addr)
       /\ Ask(c, r)
       /\ seen' = [seen EXCEPT ![c] = {mem[r.addr]}]
  /\ reading' = [reading EXCEPT ![c] = <<Len(ops) + 1>>]
  /\ load_queue' = Append(load_queue, Len(ops) + 1)
  /\ UNCHANGED <<build, storing, store_queue, amo, mem_rd_resp_f_v, rd_rq_fifo, rd_rs_fifo,
                 wr_rq_fifo, wr_rs_fifo, mem, reads, writes, links, lost>>

put_write(c) ==
  /\ storing[c] = <<>> /\ Len(store_queue) < 2 * NUM_CPU
  /\ \E r \in build.requests[c] :
       /\ r.kind = "STORE" /\ ~Occupies(reading, c, r.addr)
       /\ Ask(c, r)
  /\ storing' = [storing EXCEPT ![c] = <<Len(ops) + 1>>]
  /\ store_queue' = Append(store_queue, Len(ops) + 1)
  /\ UNCHANGED <<build, reading, load_queue, amo, mem_rd_resp_f_v, rd_rq_fifo, rd_rs_fifo,
                 wr_rq_fifo, wr_rs_fifo, mem, reads, writes, seen, links, lost>>

get_read(c) ==
  /\ mem_rd_resp_f_v[c] # <<>>
  /\ mem_rd_resp_f_v' = [mem_rd_resp_f_v EXCEPT ![c] = <<>>]
  /\ reading' = [reading EXCEPT ![c] = <<>>]
  /\ seen' = [seen EXCEPT ![c] = {}]
  /\ UNCHANGED <<build, ops, storing, queues, amo, rd_rq_fifo, rd_rs_fifo,
                 wr_rq_fifo, wr_rs_fifo, mem, reads, writes, links, lost>>

-----------------------------------------------------------------------------
(* Without -aggressive-conditions a rule waits until every FIFO it may      *)
(* write has room, with it for those it does write.                         *)
Room(needed) ==
  \A f \in (IF AGGRESSIVE THEN needed ELSE {"read", "write", "amo"}) :
    CASE f = "read"  -> rd_rq_fifo = <<>>
      [] f = "write" -> wr_rq_fifo = <<>>
      [] f = "amo"   -> amo_description = <<>>

NextIs(kinds) == load_queue # <<>> /\ ~amo_in_progress /\ kind(Head(load_queue)) \in kinds

compute_read ==
  /\ NextIs({"LOAD"}) /\ Room({"read"})
  /\ rd_rq_fifo' = <<Transfer(Head(load_queue), FALSE)>>
  /\ load_queue' = Tail(load_queue)
  /\ UNCHANGED <<build, cores, store_queue, amo, mem_rd_resp_f_v, rd_rs_fifo, wr_rq_fifo, wr_rs_fifo,
                 mem, reads, writes, seen, links, lost>>

compute_amo ==
  /\ NextIs({"AMO", "LR"}) /\ Room({"read", "amo"})
  /\ LET i == Head(load_queue)
     IN  /\ link_lrsc' = IF kind(i) = "LR" THEN <<addr(i)>> ELSE link_lrsc
         /\ amo_description' = <<i>>
         /\ rd_rq_fifo' = <<Transfer(i, TRUE)>>
  /\ amo_in_progress' = TRUE
  /\ load_queue' = Tail(load_queue)
  /\ UNCHANGED <<build, cores, store_queue, mem_rd_resp_f_v, rd_rs_fifo, wr_rq_fifo, wr_rs_fifo,
                 mem, reads, writes, seen, links, lost>>

compute_sc ==
  /\ NextIs({"SC"})
  /\ LET i       == Head(load_queue)
         success == link_lrsc = <<addr(i)>>
     IN  /\ Room(IF success THEN {"write"} ELSE {})
         /\ mem_rd_resp_f_v[cpu_id(i)] = <<>>
         /\ mem_rd_resp_f_v' = [mem_rd_resp_f_v EXCEPT
                                  ![cpu_id(i)] = <<IF success THEN Stored ELSE Refused>>]
         /\ wr_rq_fifo' = IF success THEN <<Writing(i, TRUE, 0)>> ELSE wr_rq_fifo
         /\ amo_in_progress' = success
         /\ reserved' = IF success THEN reserved ELSE [reserved EXCEPT ![cpu_id(i)] = <<>>]
  /\ link_lrsc' = <<>>
  /\ load_queue' = Tail(load_queue)
  /\ UNCHANGED <<build, cores, store_queue, amo_description, rd_rq_fifo, rd_rs_fifo, wr_rs_fifo,
                 mem, reads, writes, seen, watched, lost>>

(* Mutants of may_elapse: stores go on during an AMO; no wait for room. *)
may_elapse_unstalled == wr_rq_fifo = <<>>
may_elapse_full      == ~amo_in_progress

(* Stores wait for the AMO in progress, and one to the linked address ends  *)
(* the link.                                                                *)
may_elapse == ~amo_in_progress /\ wr_rq_fifo = <<>>

(* Mutant of link_after_store: a store leaves the link alone. *)
link_after_store_kept(i) == link_lrsc

link_after_store(i) == IF link_lrsc = <<addr(i)>> THEN <<>> ELSE link_lrsc

elapse_store_op ==
  /\ store_queue # <<>> /\ may_elapse
  /\ wr_rq_fifo' = Append(wr_rq_fifo, Writing(Head(store_queue), FALSE, 0))
  /\ link_lrsc' = link_after_store(Head(store_queue))
  /\ store_queue' = Tail(store_queue)
  /\ UNCHANGED <<build, cores, load_queue, amo_in_progress, amo_description, mem_rd_resp_f_v,
                 rd_rq_fifo, rd_rs_fifo, wr_rs_fifo, mem, reads, writes, seen, links, lost>>

(* Mutant of receiver: the id is ignored. *)
receiver_first(t) == 0

(* An answer of memory for a processor. *)
receiver(t) == cpu_id(t.op)

distribute_read_responses ==
  /\ rd_rs_fifo # <<>> /\ ~rd_rs_fifo[1].amo_id
  /\ LET c == receiver(rd_rs_fifo[1])
     IN  /\ mem_rd_resp_f_v[c] = <<>>
         /\ mem_rd_resp_f_v' = [mem_rd_resp_f_v EXCEPT ![c] = <<rd_rs_fifo[1].old>>]
  /\ rd_rs_fifo' = <<>>
  /\ UNCHANGED <<build, cores, queues, amo, rd_rq_fifo, wr_rq_fifo, wr_rs_fifo,
                 mem, reads, writes, seen, links, lost>>

(* An answer of memory for an AMO is put on a wire; the rule that           *)
(* transforms it takes it in the same cycle if it can, or else it is gone.  *)
may_transform(i) ==
  /\ amo_in_progress /\ amo_description # <<>>
  /\ mem_rd_resp_f_v[cpu_id(i)] = <<>>
  /\ wr_rq_fifo # <<>> => AGGRESSIVE /\ kind(i) = "LR"

amo_transform_data ==
  /\ rd_rs_fifo # <<>> /\ rd_rs_fifo[1].amo_id
  /\ amo_description # <<>> /\ may_transform(amo_description[1])
  /\ LET i    == amo_description[1]
         read == rd_rs_fifo[1].old
     IN  /\ mem_rd_resp_f_v' = [mem_rd_resp_f_v EXCEPT ![cpu_id(i)] = <<read>>]
         /\ wr_rq_fifo' = IF kind(i) = "LR" THEN wr_rq_fifo ELSE <<Writing(i, TRUE, read)>>
         /\ amo_in_progress' = (kind(i) # "LR")
  /\ amo_description' = <<>>
  /\ rd_rs_fifo' = <<>>
  /\ UNCHANGED <<build, cores, queues, link_lrsc, rd_rq_fifo, wr_rs_fifo, mem, reads, writes, seen, links, lost>>

answer_missed ==
  /\ rd_rs_fifo # <<>> /\ rd_rs_fifo[1].amo_id
  /\ ~(amo_description # <<>> /\ may_transform(amo_description[1]))
  /\ rd_rs_fifo' = <<>> /\ lost' = TRUE
  /\ UNCHANGED <<build, cores, queues, amo, mem_rd_resp_f_v, rd_rq_fifo, wr_rq_fifo, wr_rs_fifo,
                 mem, reads, writes, seen, links>>

(* Mutant of result_writes: every processor takes the answer. *)
result_writes_all(w) == IF w.amo_id THEN {} ELSE Cpu

(* A store is answered by a pulse the store buffer takes in the same cycle, *)
(* the write of an AMO by one that lets the arbiter go on.                  *)
result_writes(w) == IF w.amo_id THEN {} ELSE {cpu_id(w.op)}

(* Mutants of write_amo: any write ends the AMO, or none does. *)
write_amo_any(w)   == TRUE
write_amo_never(w) == FALSE

write_amo(w)     == w.amo_id

distribute_write_responses ==
  /\ wr_rs_fifo # <<>>
  /\ storing' = [c \in Cpu |-> IF c \in result_writes(wr_rs_fifo[1]) THEN <<>> ELSE storing[c]]
  /\ amo_in_progress' = (amo_in_progress /\ ~write_amo(wr_rs_fifo[1]))
  /\ wr_rs_fifo' = <<>>
  /\ UNCHANGED <<build, ops, reading, queues, link_lrsc, amo_description, mem_rd_resp_f_v,
                 rd_rq_fifo, rd_rs_fifo, wr_rq_fifo, mem, reads, writes, seen, links, lost>>

-----------------------------------------------------------------------------
(* Memory: each channel in order, and a request performed at any time       *)
(* between its taking and its answer.                                       *)
MemoryTakes ==
  /\ \/ rd_rq_fifo # <<>> /\ reads' = reads \o rd_rq_fifo /\ rd_rq_fifo' = <<>>
        /\ UNCHANGED <<writes, wr_rq_fifo>>
     \/ wr_rq_fifo # <<>> /\ writes' = writes \o wr_rq_fifo /\ wr_rq_fifo' = <<>>
        /\ UNCHANGED <<reads, rd_rq_fifo>>
  /\ UNCHANGED <<build, cores, queues, amo, mem_rd_resp_f_v, rd_rs_fifo, wr_rs_fifo, mem, seen, links, lost>>

MemoryReads ==
  /\ reads # <<>> /\ rd_rs_fifo = <<>>
  /\ PromptWrites => wr_rq_fifo = <<>> /\ writes = <<>>
  /\ LET i == Head(reads).op
     IN  /\ rd_rs_fifo' = <<Writing(i, Head(reads).amo_id, mem[addr(i)])>>
         /\ reserved' = IF kind(i) = "LR"
                        THEN [reserved EXCEPT ![cpu_id(i)] = <<[addr |-> addr(i), intact |-> TRUE]>>]
                        ELSE reserved
         /\ watched' = IF kind(i) = "LR" THEN <<addr(i)>> ELSE watched
  /\ reads' = Tail(reads)
  /\ UNCHANGED <<build, cores, queues, amo, mem_rd_resp_f_v, rd_rq_fifo, wr_rq_fifo, wr_rs_fifo,
                 mem, writes, seen, lost>>

(* A write breaks the reservations of the other processors; an SC uses up   *)
(* its own.                                                                 *)
Broken(c, i) ==
  IF c = cpu_id(i) /\ kind(i) = "SC" THEN <<>>
  ELSE [k \in 1 .. Len(reserved[c]) |->
          [reserved[c][k] EXCEPT !.intact = @ /\ (c = cpu_id(i) \/ reserved[c][k].addr # addr(i))]]

MemoryWrites ==
  /\ writes # <<>> /\ wr_rs_fifo = <<>>
  /\ LET i == Head(writes).op
     IN  /\ mem' = [mem EXCEPT ![addr(i)] = i]
         /\ wr_rs_fifo' = <<Transfer(i, Head(writes).amo_id)>>
         /\ seen' = [c \in Cpu |-> IF Occupies(reading, c, addr(i)) THEN seen[c] \cup {i} ELSE seen[c]]
         /\ reserved' = [c \in Cpu |-> Broken(c, i)]
         /\ watched' = IF kind(i) # "AMO" /\ watched = <<addr(i)>> THEN <<>> ELSE watched
  /\ writes' = Tail(writes)
  /\ UNCHANGED <<build, cores, queues, amo, mem_rd_resp_f_v, rd_rq_fifo, rd_rs_fifo, wr_rq_fifo,
                 reads, lost>>

Arbiter == \/ compute_read \/ compute_amo \/ compute_sc \/ elapse_store_op
           \/ distribute_read_responses \/ amo_transform_data \/ answer_missed
           \/ distribute_write_responses

Memory  == MemoryTakes \/ MemoryReads \/ MemoryWrites

Next == \/ \E c \in Cpu : put_read(c) \/ put_write(c) \/ get_read(c)
        \/ Arbiter \/ Memory

Spec == Init /\ [][Next]_vars

-----------------------------------------------------------------------------
Id    == 1 .. Len(ops)
Value == 0 .. MaxOps

TypeOK ==
  /\ build \in Builds
  /\ ops \in Seq([cpu : Cpu, kind : {"LOAD", "STORE", "AMO", "LR", "SC"}, addr : Addr])
  /\ Len(ops) <= MaxOps
  /\ reading \in [Cpu -> Maybe(Id)] /\ storing \in [Cpu -> Maybe(Id)]
  /\ load_queue \in Seq(Id) /\ store_queue \in Seq(Id)
  /\ link_lrsc \in Maybe(Addr) /\ amo_in_progress \in BOOLEAN /\ amo_description \in Maybe(Id)
  /\ mem_rd_resp_f_v \in [Cpu -> Maybe(Value)]
  /\ rd_rq_fifo \in Maybe([op : Id, amo_id : BOOLEAN])
  /\ rd_rs_fifo \in Maybe([op : Id, amo_id : BOOLEAN, old : Value])
  /\ wr_rq_fifo \in Maybe([op : Id, amo_id : BOOLEAN, old : Value])
  /\ wr_rs_fifo \in Maybe([op : Id, amo_id : BOOLEAN])
  /\ mem \in [Addr -> Value]
  /\ reads \in Seq([op : Id, amo_id : BOOLEAN])
  /\ writes \in Seq([op : Id, amo_id : BOOLEAN, old : Value])
  /\ seen \in [Cpu -> SUBSET Value] /\ reserved \in [Cpu -> Maybe([addr : Addr, intact : BOOLEAN])]
  /\ watched \in Maybe(Addr) /\ lost \in BOOLEAN

(* What is on its way to or from memory for the arbiter itself. *)
Own(channel) == {k \in DOMAIN channel : channel[k].amo_id}
OwnTransfers == Cardinality(Own(rd_rq_fifo)) + Cardinality(Own(reads)) + Cardinality(Own(rd_rs_fifo))
                + Cardinality(Own(wr_rq_fifo)) + Cardinality(Own(writes)) + Cardinality(Own(wr_rs_fifo))

(* "Stall all accesses until AMO is done": the accesses of two AMOs never   *)
(* overlap, and as long as the arbiter stalls, the access it waits for is   *)
(* on its way - or its answer is lost, which happens only if the rules are  *)
(* not held back until all their FIFOs have room, and then for ever.        *)
AmoOnItsWay ==
  /\ OwnTransfers + (IF lost THEN 1 ELSE 0) = IF amo_in_progress THEN 1 ELSE 0
  /\ lost => AGGRESSIVE /\ ~PromptWrites

(* The writes that memory has still to perform. *)
Unperformed == {wr_rq_fifo[k] : k \in 1 .. Len(wr_rq_fifo)} \cup
               {writes[k] : k \in 1 .. Len(writes)}

(* An AMO is atomic: when its write reaches memory the word still has the   *)
(* value its read returned, so no access of any processor came in between.  *)
AmoAtomic ==
  \A w \in Unperformed : kind(w.op) = "AMO" => mem[addr(w.op)] = w.old

(* What the link register does promise: when the write of an SC is on its   *)
(* way, memory has read the word for an LR, the last of all processors, and *)
(* no store and no other SC has written to it since.                        *)
ScUnderLink ==
  \A w \in Unperformed : kind(w.op) = "SC" => watched = <<addr(w.op)>>

(* "The DAVE also provides the monitoring required for LR/SC": an SC stores *)
(* only under a reservation of its own processor, whose LR has read the     *)
(* word, and that no other processor has written to since.                  *)
ScKeepsReservation ==
  \A w \in Unperformed : kind(w.op) = "SC" =>
    reserved[cpu_id(w.op)] = <<[addr |-> addr(w.op), intact |-> TRUE]>>

(* A processor gets the answer to its own request: a value its word has had *)
(* between the request and the answer, and no processor is answered that    *)
(* does not wait.                                                           *)
AnswersAreCurrent ==
  \A c \in Cpu : mem_rd_resp_f_v[c] # <<>> =>
    /\ reading[c] # <<>>
    /\ kind(reading[c][1]) # "SC" => mem_rd_resp_f_v[c][1] \in seen[c]

(* Every processor's next request has a place in the queues, whichever of   *)
(* its two counters a put checks (that of stores looks at the one of loads).*)
QueuesHaveRoom == Len(load_queue) <= NUM_CPU /\ Len(store_queue) <= NUM_CPU

-----------------------------------------------------------------------------
(* Every rule fires at some time, memory serves both channels and the       *)
(* processors take what they have asked for.                                *)
FairSpec ==
  /\ Spec
  /\ WF_vars(compute_read) /\ WF_vars(compute_amo) /\ WF_vars(compute_sc)
  /\ WF_vars(elapse_store_op) /\ WF_vars(distribute_read_responses)
  /\ WF_vars(amo_transform_data) /\ WF_vars(answer_missed)
  /\ WF_vars(distribute_write_responses)
  /\ WF_vars(MemoryTakes) /\ WF_vars(MemoryReads) /\ WF_vars(MemoryWrites)
  /\ \A c \in Cpu : WF_vars(get_read(c))

(* Every request is answered: an AMO, SC or LR of another processor never   *)
(* keeps a load or a store waiting for ever, unless the answer for an AMO   *)
(* has been dropped, which stalls the arbiter.                              *)
EveryRequestAnswered ==
  \A c \in Cpu : /\ reading[c] # <<>> ~> reading[c] = <<>> \/ lost
                 /\ storing[c] # <<>> ~> storing[c] = <<>> \/ lost
=============================================================================
