------------------------- MODULE MemoryArbiterProofs -------------------------
(***************************************************************************)
(* Proofs about the arbiter for any number of processors and addresses,    *)
(* however it is built: an answer reaches the processor that asked and is  *)
(* current, the queues have room for every processor, and what the arbiter *)
(* stalls for is on its way, or was dropped by a build that starts AMOs    *)
(* without room for their writes.  Where memory orders writes before reads *)
(* or stores keep to other words, AMOs are atomic, and an SC stores only   *)
(* to a word that no store or SC has written to since an LR read it.       *)
(***************************************************************************)
EXTENDS MemoryArbiter, SequenceTheorems, FiniteSetTheorems, TLAPS

Kind  == {"LOAD", "STORE", "AMO", "LR", "SC"}
Owner == [cpu : Cpu, kind : Kind, addr : Addr]
Link  == [addr : Addr, intact : BOOLEAN]

(* What may be on the channels when S are the requests.                      *)
Sent(S)    == [op : S, amo_id : BOOLEAN]
Carried(S) == [op : S, amo_id : BOOLEAN, old : Value]

-----------------------------------------------------------------------------
LEMMA MaybeIs ==
  ASSUME NEW S, NEW m \in Maybe(S)
  PROVE  m # <<>> => m = <<m[1]>> /\ m[1] \in S
BY DEF Maybe

LEMMA MaybeGrows ==
  ASSUME NEW S, NEW T, S \subseteq T, NEW m \in Maybe(S)
  PROVE  m \in Maybe(T)
BY DEF Maybe

(* The types that depend on the number of requests so far.                   *)
RequestTypes ==
  /\ ops \in Seq(Owner) /\ Len(ops) <= MaxOps
  /\ reading \in [Cpu -> Maybe(Id)] /\ storing \in [Cpu -> Maybe(Id)]
  /\ load_queue \in Seq(Id) /\ store_queue \in Seq(Id)
  /\ amo_description \in Maybe(Id)
  /\ rd_rq_fifo \in Maybe(Sent(Id)) /\ rd_rs_fifo \in Maybe(Carried(Id))
  /\ wr_rq_fifo \in Maybe(Carried(Id)) /\ wr_rs_fifo \in Maybe(Sent(Id))
  /\ reads \in Seq(Sent(Id)) /\ writes \in Seq(Carried(Id))

OtherTypes ==
  /\ build \in Builds
  /\ link_lrsc \in Maybe(Addr) /\ amo_in_progress \in BOOLEAN
  /\ mem_rd_resp_f_v \in [Cpu -> Maybe(Value)]
  /\ mem \in [Addr -> Value]
  /\ seen \in [Cpu -> SUBSET Value] /\ reserved \in [Cpu -> Maybe(Link)]
  /\ watched \in Maybe(Addr) /\ lost \in BOOLEAN

LEMMA Types == TypeOK <=> RequestTypes /\ OtherTypes
BY DEF TypeOK, RequestTypes, OtherTypes, Owner, Kind, Link, Sent, Carried

LEMMA Ids ==
  ASSUME RequestTypes
  PROVE  /\ Len(ops) \in Nat /\ Id \subseteq Value /\ 0 \in Value /\ Id \subseteq Nat \ {0}
         /\ \A i \in Id : /\ cpu_id(i) \in Cpu /\ addr(i) \in Addr /\ kind(i) \in Kind
                          /\ 1 \in Value
<1>1. Len(ops) \in Nat /\ Len(ops) <= MaxOps /\ MaxOps \in Nat
  BY LenProperties, CpuAssumption DEF RequestTypes
<1>2. \A i \in Id : ops[i] \in Owner  BY ElementOfSeq DEF RequestTypes, Id
<1>3. QED  BY <1>1, <1>2 DEF Id, Value, Owner, cpu_id, addr, kind

(* What holds a request keeps its type when there are more requests.         *)
LEMMA IdsGrow ==
  ASSUME RequestTypes, NEW r \in Owner, Len(ops) < MaxOps, ops' = Append(ops, r)
  PROVE  /\ ops' \in Seq(Owner) /\ Len(ops') <= MaxOps
         /\ Id' = Id \cup {Len(ops) + 1} /\ Len(ops) + 1 \notin Id
         /\ \A i \in Id : ops'[i] = ops[i]
         /\ ops'[Len(ops) + 1] = r
         /\ reading \in [Cpu -> Maybe(Id')] /\ storing \in [Cpu -> Maybe(Id')]
         /\ load_queue \in Seq(Id') /\ store_queue \in Seq(Id')
         /\ amo_description \in Maybe(Id')
         /\ rd_rq_fifo \in Maybe(Sent(Id')) /\ rd_rs_fifo \in Maybe(Carried(Id'))
         /\ wr_rq_fifo \in Maybe(Carried(Id')) /\ wr_rs_fifo \in Maybe(Sent(Id'))
         /\ reads \in Seq(Sent(Id')) /\ writes \in Seq(Carried(Id'))
<1>1. /\ ops' \in Seq(Owner) /\ Len(ops') = Len(ops) + 1
      /\ \A i \in 1 .. Len(ops) : ops'[i] = ops[i]
      /\ ops'[Len(ops) + 1] = r
  BY DEF RequestTypes
<1>2. Len(ops) \in Nat /\ MaxOps \in Nat  BY Ids, CpuAssumption
<1>3. Id' = Id \cup {Len(ops) + 1} /\ Len(ops) + 1 \notin Id /\ Len(ops') <= MaxOps
  BY <1>1, <1>2 DEF Id
<1>4. Id \subseteq Id' /\ Sent(Id) \subseteq Sent(Id') /\ Carried(Id) \subseteq Carried(Id')
  BY <1>3 DEF Sent, Carried
<1>5. \A m \in Maybe(Id) : m \in Maybe(Id')  BY <1>4, MaybeGrows
<1>6. reading \in [Cpu -> Maybe(Id')] /\ storing \in [Cpu -> Maybe(Id')]
      /\ amo_description \in Maybe(Id')
  BY <1>5 DEF RequestTypes
<1>7. /\ load_queue \in Seq(Id') /\ store_queue \in Seq(Id')
      /\ reads \in Seq(Sent(Id')) /\ writes \in Seq(Carried(Id'))
  BY <1>4, SeqMonotonic DEF RequestTypes
<1>8. /\ rd_rq_fifo \in Maybe(Sent(Id')) /\ rd_rs_fifo \in Maybe(Carried(Id'))
      /\ wr_rq_fifo \in Maybe(Carried(Id')) /\ wr_rs_fifo \in Maybe(Sent(Id'))
  BY <1>4, MaybeGrows DEF RequestTypes
<1>9. QED  BY <1>1, <1>3, <1>6, <1>7, <1>8 DEF Id

LEMMA Requests ==
  ASSUME OtherTypes, NEW c \in Cpu
  PROVE  build.requests[c] \subseteq Request
BY BuildAssumption DEF OtherTypes, Build

-----------------------------------------------------------------------------
LEMMA CoreTypes ==
  ASSUME TypeOK, NEW c \in Cpu, put_read(c) \/ put_write(c) \/ get_read(c)
  PROVE  TypeOK'
<1>1. RequestTypes /\ OtherTypes  BY Types
<1> SUFFICES RequestTypes' /\ OtherTypes'
  BY Types, PTL
<1>2. CASE put_read(c)
  <2>1. PICK r \in build.requests[c] : Ask(c, r) /\ seen' = [seen EXCEPT ![c] = {mem[r.addr]}]
    BY <1>2 DEF put_read
  <2>2. r \in Request  BY <1>1, <2>1, Requests
  <2> DEFINE o == [cpu |-> c, kind |-> r.kind, addr |-> r.addr]
  <2>3. o \in Owner /\ Len(ops) < MaxOps /\ ops' = Append(ops, o)
    BY <2>1, <2>2 DEF Ask, Owner, Request, Kind
  <2> HIDE DEF o
  <2>4. Len(ops) + 1 \in Id'  BY <1>1, <2>3, IdsGrow
  <2>5. reading' \in [Cpu -> Maybe(Id')] /\ load_queue' \in Seq(Id')
    <3>1. reading \in [Cpu -> Maybe(Id')] /\ load_queue \in Seq(Id')  BY <1>1, <2>3, IdsGrow
    <3>2. <<Len(ops) + 1>> \in Maybe(Id')  BY <2>4 DEF Maybe
    <3>3. reading' = [reading EXCEPT ![c] = <<Len(ops) + 1>>]
          /\ load_queue' = Append(load_queue, Len(ops) + 1)
      BY <1>2 DEF put_read
    <3>4. QED  BY <2>4, <3>1, <3>2, <3>3
  <2>6. seen' \in [Cpu -> SUBSET Value]
    <3>1. mem[r.addr] \in Value  BY <1>1, <2>2 DEF OtherTypes, Request
    <3>2. QED  BY <1>1, <2>1, <3>1 DEF OtherTypes
  <2>7. RequestTypes'
    BY <1>1, <1>2, <2>3, <2>5, IdsGrow DEF put_read, RequestTypes, amo
  <2>8. OtherTypes'
    BY <1>1, <1>2, <2>6 DEF put_read, OtherTypes, amo, links, Value
  <2>9. QED  BY <2>7, <2>8
<1>3. CASE put_write(c)
  <2>1. PICK r \in build.requests[c] : Ask(c, r)  BY <1>3 DEF put_write
  <2>2. r \in Request  BY <1>1, <2>1, Requests
  <2> DEFINE o == [cpu |-> c, kind |-> r.kind, addr |-> r.addr]
  <2>3. o \in Owner /\ Len(ops) < MaxOps /\ ops' = Append(ops, o)
    BY <2>1, <2>2 DEF Ask, Owner, Request, Kind
  <2> HIDE DEF o
  <2>4. Len(ops) + 1 \in Id'  BY <1>1, <2>3, IdsGrow
  <2>5. storing' \in [Cpu -> Maybe(Id')] /\ store_queue' \in Seq(Id')
    <3>1. storing \in [Cpu -> Maybe(Id')] /\ store_queue \in Seq(Id')  BY <1>1, <2>3, IdsGrow
    <3>2. <<Len(ops) + 1>> \in Maybe(Id')  BY <2>4 DEF Maybe
    <3>3. storing' = [storing EXCEPT ![c] = <<Len(ops) + 1>>]
          /\ store_queue' = Append(store_queue, Len(ops) + 1)
      BY <1>3 DEF put_write
    <3>4. QED  BY <2>4, <3>1, <3>2, <3>3
  <2>6. RequestTypes'
    BY <1>1, <1>3, <2>3, <2>5, IdsGrow DEF put_write, RequestTypes, amo
  <2>7. OtherTypes'
    BY <1>1, <1>3 DEF put_write, OtherTypes, amo, links, Value
  <2>8. QED  BY <2>6, <2>7
<1>4. CASE get_read(c)
  <2>1. /\ mem_rd_resp_f_v' \in [Cpu -> Maybe(Value)] /\ reading' \in [Cpu -> Maybe(Id)]
        /\ seen' \in [Cpu -> SUBSET Value]
    BY <1>1, <1>4 DEF get_read, RequestTypes, OtherTypes, Maybe
  <2>2. QED  BY <1>1, <1>4, <2>1 DEF get_read, RequestTypes, OtherTypes, amo, queues, links, Id, Value
<1>5. QED  BY <1>2, <1>3, <1>4

LEMMA MaybeIsSeq ==
  ASSUME NEW S, NEW m \in Maybe(S)
  PROVE  m \in Seq(S) /\ (m # <<>> => Len(m) = 1 /\ Head(m) = m[1])
<1>1. CASE m = <<>>  BY <1>1, EmptySeq
<1>2. CASE m # <<>>
  <2>1. m = <<m[1]>> /\ m[1] \in S  BY <1>2, MaybeIs
  <2> DEFINE x == m[1]
  <2>2. \A y \in S : <<y>> \in Seq(S) /\ Len(<<y>>) = 1 /\ Head(<<y>>) = y  OBVIOUS
  <2>3. m = <<x>> /\ x \in S  BY <2>1
  <2> HIDE DEF x
  <2>4. m \in Seq(S) /\ Len(m) = 1 /\ Head(m) = x  BY <2>2, <2>3
  <2>5. QED  BY <2>4 DEF x
<1>3. QED  BY <1>1, <1>2

(* Taking a request from the queue of loads.                                 *)
LEMMA HeadTypes ==
  ASSUME RequestTypes, load_queue # <<>>
  PROVE  Head(load_queue) \in Id /\ Tail(load_queue) \in Seq(Id)
BY HeadTailProperties DEF RequestTypes

LEMMA ArbiterTypes ==
  ASSUME TypeOK, Arbiter
  PROVE  TypeOK'
<1>1. RequestTypes /\ OtherTypes  BY Types
<1>2. \A i \in Id : cpu_id(i) \in Cpu /\ addr(i) \in Addr /\ 1 \in Value /\ 0 \in Value
  BY <1>1, Ids
<1> DEFINE i == Head(load_queue)
<1>3. load_queue # <<>> => i \in Id /\ Tail(load_queue) \in Seq(Id)  BY <1>1, HeadTypes
<1>4. rd_rs_fifo # <<>> => rd_rs_fifo[1] \in Carried(Id)  BY <1>1, MaybeIs DEF RequestTypes
<1>5. wr_rs_fifo # <<>> => wr_rs_fifo[1] \in Sent(Id)  BY <1>1, MaybeIs DEF RequestTypes
<1>6. amo_description # <<>> => amo_description[1] \in Id  BY <1>1, MaybeIs DEF RequestTypes
<1> SUFFICES RequestTypes' /\ OtherTypes'
  BY Types, PTL
<1> HIDE DEF i
<1>7. CASE compute_read
  <2>1. rd_rq_fifo' \in Maybe(Sent(Id)) /\ load_queue' \in Seq(Id)
    BY <1>3, <1>7 DEF compute_read, NextIs, Transfer, Sent, Maybe, i
  <2>2. QED  BY <1>1, <1>7, <2>1 DEF compute_read, cores, amo, RequestTypes, OtherTypes, links, Id, Value
<1>8. CASE compute_amo
  <2>1. /\ rd_rq_fifo' \in Maybe(Sent(Id)) /\ load_queue' \in Seq(Id)
        /\ amo_description' \in Maybe(Id)
    BY <1>3, <1>8 DEF compute_amo, NextIs, Transfer, Sent, Maybe, i
  <2>2. link_lrsc' \in Maybe(Addr) /\ amo_in_progress' \in BOOLEAN
    BY <1>1, <1>2, <1>3, <1>8 DEF compute_amo, NextIs, Maybe, i, OtherTypes
  <2>3. QED  BY <1>1, <1>8, <2>1, <2>2 DEF compute_amo, cores, RequestTypes, OtherTypes, links, Id, Value
<1>9. CASE compute_sc
  <2> DEFINE success == link_lrsc = <<addr(i)>>
  <2>1. /\ mem_rd_resp_f_v' = [mem_rd_resp_f_v EXCEPT ![cpu_id(i)] = <<IF success THEN Stored ELSE Refused>>]
        /\ wr_rq_fifo' = IF success THEN <<Writing(i, TRUE, 0)>> ELSE wr_rq_fifo
        /\ amo_in_progress' = success
        /\ reserved' = IF success THEN reserved ELSE [reserved EXCEPT ![cpu_id(i)] = <<>>]
        /\ link_lrsc' = <<>> /\ i \in Id /\ load_queue' \in Seq(Id)
    BY <1>3, <1>9 DEF compute_sc, NextIs, i
  <2> HIDE DEF success
  <2>2. wr_rq_fifo' \in Maybe(Carried(Id))
    BY <1>1, <1>2, <2>1 DEF Writing, Carried, Maybe, RequestTypes
  <2>3. mem_rd_resp_f_v' \in [Cpu -> Maybe(Value)]
    <3>1. <<IF success THEN Stored ELSE Refused>> \in Maybe(Value)
      BY <1>2, <2>1 DEF Stored, Refused, Maybe
    <3>2. QED  BY <1>1, <2>1, <3>1 DEF OtherTypes
  <2>4. reserved' \in [Cpu -> Maybe(Link)] /\ link_lrsc' \in Maybe(Addr) /\ amo_in_progress' \in BOOLEAN
    BY <1>1, <2>1 DEF OtherTypes, Maybe, success
  <2>5. QED
    BY <1>1, <1>9, <2>1, <2>2, <2>3, <2>4 DEF compute_sc, cores, RequestTypes, OtherTypes, links, Id, Value
<1>10. CASE elapse_store_op
  <2>1. Head(store_queue) \in Id /\ store_queue' \in Seq(Id)
    BY <1>1, <1>10, HeadTailProperties DEF elapse_store_op, RequestTypes
  <2>2. wr_rq_fifo' = <<Writing(Head(store_queue), FALSE, 0)>>
    BY <1>10 DEF elapse_store_op, may_elapse
  <2>3. wr_rq_fifo' \in Maybe(Carried(Id)) /\ link_lrsc' \in Maybe(Addr)
    BY <1>1, <1>2, <1>10, <2>1, <2>2
       DEF elapse_store_op, Writing, Carried, Maybe, link_after_store, OtherTypes
  <2>4. QED
    BY <1>1, <1>10, <2>1, <2>3 DEF elapse_store_op, cores, RequestTypes, OtherTypes, links, Id, Value
<1>11. CASE distribute_read_responses
  <2>1. /\ mem_rd_resp_f_v' = [mem_rd_resp_f_v EXCEPT ![receiver(rd_rs_fifo[1])] = <<rd_rs_fifo[1].old>>]
        /\ rd_rs_fifo # <<>> /\ rd_rs_fifo' = <<>>
    BY <1>11 DEF distribute_read_responses
  <2>2. <<rd_rs_fifo[1].old>> \in Maybe(Value)  BY <1>4, <2>1 DEF Carried, Maybe
  <2>3. mem_rd_resp_f_v' \in [Cpu -> Maybe(Value)]  BY <1>1, <2>1, <2>2 DEF OtherTypes
  <2>4. rd_rs_fifo' \in Maybe(Carried(Id))  BY <2>1 DEF Maybe
  <2>5. QED
    BY <1>1, <1>11, <2>3, <2>4
       DEF distribute_read_responses, cores, queues, amo, RequestTypes, OtherTypes, links, Id, Value
<1>12. CASE amo_transform_data
  <2> DEFINE a == amo_description[1]
  <2>1. /\ mem_rd_resp_f_v' = [mem_rd_resp_f_v EXCEPT ![cpu_id(a)] = <<rd_rs_fifo[1].old>>]
        /\ wr_rq_fifo' = IF kind(a) = "LR" THEN wr_rq_fifo ELSE <<Writing(a, TRUE, rd_rs_fifo[1].old)>>
        /\ amo_in_progress' = (kind(a) # "LR")
        /\ amo_description' = <<>> /\ rd_rs_fifo' = <<>> /\ rd_rs_fifo # <<>> /\ a \in Id
    BY <1>6, <1>12 DEF amo_transform_data
  <2> HIDE DEF a
  <2>2. rd_rs_fifo[1].old \in Value  BY <1>4, <2>1 DEF Carried
  <2>3. <<rd_rs_fifo[1].old>> \in Maybe(Value)  BY <2>2 DEF Maybe
  <2>4. mem_rd_resp_f_v' \in [Cpu -> Maybe(Value)]  BY <1>1, <2>1, <2>3 DEF OtherTypes
  <2>5. wr_rq_fifo' \in Maybe(Carried(Id))
    BY <1>1, <2>1, <2>2 DEF Writing, Carried, Maybe, RequestTypes
  <2>6. /\ rd_rs_fifo' \in Maybe(Carried(Id)) /\ amo_description' \in Maybe(Id)
        /\ amo_in_progress' \in BOOLEAN
    BY <2>1 DEF Maybe
  <2>7. QED
    BY <1>1, <1>12, <2>4, <2>5, <2>6
       DEF amo_transform_data, cores, queues, RequestTypes, OtherTypes, links, Id, Value
<1>13. CASE answer_missed
  <2>1. rd_rs_fifo' \in Maybe(Carried(Id))  BY <1>13 DEF answer_missed, Maybe
  <2>2. QED
    BY <1>1, <1>13, <2>1 DEF answer_missed, cores, queues, amo, RequestTypes, OtherTypes, links, Id, Value
<1>14. CASE distribute_write_responses
  <2>1. storing' \in [Cpu -> Maybe(Id)] /\ wr_rs_fifo' \in Maybe(Sent(Id))
    BY <1>1, <1>14 DEF distribute_write_responses, RequestTypes, Maybe
  <2>2. amo_in_progress' \in BOOLEAN  BY <1>14 DEF distribute_write_responses
  <2>3. QED
    BY <1>1, <1>14, <2>1, <2>2
       DEF distribute_write_responses, queues, RequestTypes, OtherTypes, links, Id, Value
<1>15. QED
  BY <1>7, <1>8, <1>9, <1>10, <1>11, <1>12, <1>13, <1>14 DEF Arbiter

LEMMA MemoryTypes ==
  ASSUME TypeOK, Memory
  PROVE  TypeOK'
<1>1. RequestTypes /\ OtherTypes  BY Types
<1>2. \A i \in Id : cpu_id(i) \in Cpu /\ addr(i) \in Addr /\ i \in Value
  BY <1>1, Ids
<1> SUFFICES RequestTypes' /\ OtherTypes'
  BY Types, PTL
<1>3. CASE MemoryTakes
  <2>1. /\ rd_rq_fifo \in Seq(Sent(Id)) /\ reads \in Seq(Sent(Id))
        /\ wr_rq_fifo \in Seq(Carried(Id)) /\ writes \in Seq(Carried(Id))
    BY <1>1, MaybeIsSeq DEF RequestTypes
  <2>2. reads \o rd_rq_fifo \in Seq(Sent(Id)) /\ writes \o wr_rq_fifo \in Seq(Carried(Id))
    BY <2>1, ConcatProperties
  <2>3. /\ rd_rq_fifo' \in Maybe(Sent(Id)) /\ reads' \in Seq(Sent(Id))
        /\ wr_rq_fifo' \in Maybe(Carried(Id)) /\ writes' \in Seq(Carried(Id))
    BY <1>1, <1>3, <2>2 DEF MemoryTakes, RequestTypes, Maybe
  <2>4. QED
    BY <1>1, <1>3, <2>3 DEF MemoryTakes, cores, queues, amo, RequestTypes, OtherTypes, links, Id, Value
<1>4. CASE MemoryReads
  <2> DEFINE t == Head(reads)
  <2>1. t \in Sent(Id) /\ reads' \in Seq(Sent(Id))
    BY <1>1, <1>4, HeadTailProperties DEF MemoryReads, RequestTypes
  <2>2. /\ rd_rs_fifo' = <<Writing(t.op, t.amo_id, mem[addr(t.op)])>>
        /\ reserved' = IF kind(t.op) = "LR"
                       THEN [reserved EXCEPT ![cpu_id(t.op)] = <<[addr |-> addr(t.op), intact |-> TRUE]>>]
                       ELSE reserved
        /\ watched' = IF kind(t.op) = "LR" THEN <<addr(t.op)>> ELSE watched
    BY <1>4 DEF MemoryReads
  <2> HIDE DEF t
  <2>3. t.op \in Id /\ t.amo_id \in BOOLEAN /\ mem[addr(t.op)] \in Value
    BY <1>1, <1>2, <2>1 DEF Sent, OtherTypes
  <2>4. rd_rs_fifo' \in Maybe(Carried(Id))  BY <2>2, <2>3 DEF Writing, Carried, Maybe
  <2>5. <<[addr |-> addr(t.op), intact |-> TRUE]>> \in Maybe(Link)
    BY <1>2, <2>3 DEF Link, Maybe
  <2>6. reserved' \in [Cpu -> Maybe(Link)] /\ watched' \in Maybe(Addr)
    BY <1>1, <1>2, <2>2, <2>3, <2>5 DEF OtherTypes, Maybe
  <2>7. QED
    BY <1>1, <1>4, <2>1, <2>4, <2>6
       DEF MemoryReads, cores, queues, amo, RequestTypes, OtherTypes, links, Id, Value
<1>5. CASE MemoryWrites
  <2> DEFINE t == Head(writes)
  <2>1. t \in Carried(Id) /\ writes' \in Seq(Carried(Id))
    BY <1>1, <1>5, HeadTailProperties DEF MemoryWrites, RequestTypes
  <2>2. /\ wr_rs_fifo' = <<Transfer(t.op, t.amo_id)>>
        /\ mem' = [mem EXCEPT ![addr(t.op)] = t.op]
        /\ seen' = [c \in Cpu |-> IF Occupies(reading, c, addr(t.op)) THEN seen[c] \cup {t.op} ELSE seen[c]]
        /\ reserved' = [c \in Cpu |-> Broken(c, t.op)]
        /\ watched' \in {<<>>, watched}
    BY <1>5 DEF MemoryWrites
  <2> HIDE DEF t
  <2>3. t.op \in Id /\ t.amo_id \in BOOLEAN /\ t.op \in Value  BY <1>2, <2>1 DEF Carried
  <2>4. wr_rs_fifo' \in Maybe(Sent(Id))  BY <2>2, <2>3 DEF Transfer, Sent, Maybe
  <2>5. mem' \in [Addr -> Value]  BY <1>1, <2>2, <2>3 DEF OtherTypes
  <2>6. seen' \in [Cpu -> SUBSET Value]  BY <1>1, <2>2, <2>3 DEF OtherTypes
  <2>7. \A c \in Cpu : Broken(c, t.op) \in Maybe(Link)
    <3> SUFFICES ASSUME NEW c \in Cpu PROVE Broken(c, t.op) \in Maybe(Link)
      OBVIOUS
    <3> DEFINE r == reserved[c]
               b(k) == [r[k] EXCEPT !.intact = @ /\ (c = cpu_id(t.op) \/ r[k].addr # addr(t.op))]
    <3>1. r \in Maybe(Link)  BY <1>1 DEF OtherTypes
    <3>2. CASE c = cpu_id(t.op) /\ kind(t.op) = "SC"  BY <3>2 DEF Broken, Maybe
    <3>3. CASE ~(c = cpu_id(t.op) /\ kind(t.op) = "SC")
      <4>1. Broken(c, t.op) = [k \in 1 .. Len(r) |-> b(k)]  BY <3>3 DEF Broken
      <4>2. CASE r = <<>>
        <5>1. Len(r) = 0  BY <4>2
        <5>2. [k \in 1 .. Len(r) |-> b(k)] = <<>>  BY <5>1
        <5>3. QED  BY <4>1, <5>2 DEF Maybe
      <4>3. CASE r # <<>>
        <5>1. r = <<r[1]>> /\ r[1] \in Link  BY <3>1, <4>3, MaybeIs
        <5>2. b(1) \in Link  BY <5>1 DEF Link
        <5>3. Len(r) = 1  BY <5>1
        <5> HIDE DEF r, b
        <5>4. [k \in 1 .. Len(r) |-> b(k)] = <<b(1)>>  BY <5>3
        <5>5. QED  BY <4>1, <5>2, <5>4 DEF Maybe
      <4>4. QED  BY <4>2, <4>3
    <3>4. QED  BY <3>2, <3>3
  <2>8. reserved' \in [Cpu -> Maybe(Link)] /\ watched' \in Maybe(Addr)
    BY <1>1, <2>2, <2>7 DEF OtherTypes, Maybe
  <2>9. QED
    BY <1>1, <1>5, <2>1, <2>4, <2>5, <2>6, <2>8
       DEF MemoryWrites, cores, queues, amo, RequestTypes, OtherTypes, links, Id, Value
<1>6. QED  BY <1>3, <1>4, <1>5 DEF Memory

LEMMA FirstTypes ==
  ASSUME Init
  PROVE  TypeOK
<1>1. Len(<<>>) = 0 /\ Len(ops) = 0 /\ MaxOps \in Nat  BY CpuAssumption DEF Init
<1>2. RequestTypes
  BY <1>1 DEF Init, RequestTypes, Maybe
<1>3. 0 \in Value  BY <1>1 DEF Value
<1>4. \A S : <<>> \in Maybe(S)  BY DEF Maybe
<1>5. mem \in [Addr -> Value] /\ seen \in [Cpu -> SUBSET Value]  BY <1>3 DEF Init
<1>6. OtherTypes
  BY <1>4, <1>5 DEF Init, OtherTypes
<1>7. QED  BY <1>2, <1>6, Types

LEMMA NextTypes ==
  ASSUME TypeOK, [Next]_vars
  PROVE  TypeOK'
<1>1. CASE \E c \in Cpu : put_read(c) \/ put_write(c) \/ get_read(c)  BY <1>1, CoreTypes
<1>2. CASE Arbiter  BY <1>2, ArbiterTypes
<1>3. CASE Memory  BY <1>3, MemoryTypes
<1>4. CASE UNCHANGED vars
  BY <1>4 DEF TypeOK, vars, cores, amo, queues, links, Id, Value
<1>5. QED  BY <1>1, <1>2, <1>3, <1>4 DEF Next

(* The state of the arbiter has its type: its queues, its FIFOs and memory's *)
(* channels carry only requests that a processor has made.                   *)
THEOREM TypeCorrect == Spec => []TypeOK
<1>1. Init => TypeOK  BY FirstTypes
<1>2. TypeOK /\ [Next]_vars => TypeOK'  BY NextTypes
<1>3. QED  BY <1>1, <1>2, PTL DEF Spec

-----------------------------------------------------------------------------
(* The inductive invariant.                                                  *)

(* The transfers of a channel from memory's answer back to the request, with *)
(* what tells them apart.                                                    *)
Bare(t) == [op |-> t.op, amo_id |-> t.amo_id]
Path(p, q, r) ==
  [k \in 1 .. Len(p) + Len(q) + Len(r) |->
     Bare(IF k <= Len(p) THEN p[k]
          ELSE IF k <= Len(p) + Len(q) THEN q[k - Len(p)] ELSE r[k - Len(p) - Len(q)])]

ReadPath  == Path(rd_rs_fifo, reads, rd_rq_fifo)
WritePath == Path(wr_rs_fifo, writes, wr_rq_fifo)

(* Its processor waits for request i.                                        *)
Waits(i)  == reading[cpu_id(i)] = <<i>> /\ mem_rd_resp_f_v[cpu_id(i)] = <<>>
Stores(i) == storing[cpu_id(i)] = <<i>>

(* A processor waits for every request the arbiter has of it.                *)
ReadersWait ==
  /\ \A k \in DOMAIN load_queue : Waits(load_queue[k])
  /\ \A k \in DOMAIN ReadPath : Waits(ReadPath[k].op)
  /\ amo_description # <<>> => Waits(amo_description[1])

(* A request is in one place only; what the arbiter reads is for its AMO.    *)
ReadOnce ==
  /\ \A j, k \in DOMAIN load_queue : load_queue[j] = load_queue[k] => j = k
  /\ \A j, k \in DOMAIN ReadPath : ReadPath[j].op = ReadPath[k].op => j = k
  /\ \A j \in DOMAIN load_queue, k \in DOMAIN ReadPath : load_queue[j] # ReadPath[k].op
  /\ \A j \in DOMAIN load_queue : amo_description # <<load_queue[j]>>
  /\ \A k \in DOMAIN ReadPath : ReadPath[k].amo_id <=> amo_description = <<ReadPath[k].op>>

(* Likewise for stores; the writes of AMOs are the arbiter's own.            *)
WritersWait ==
  /\ \A k \in DOMAIN store_queue : Stores(store_queue[k])
  /\ \A k \in DOMAIN WritePath : WritePath[k].amo_id \/ Stores(WritePath[k].op)

WrittenOnce ==
  /\ \A j, k \in DOMAIN store_queue : store_queue[j] = store_queue[k] => j = k
  /\ \A j, k \in DOMAIN WritePath :
       WritePath[j].op = WritePath[k].op => j = k \/ WritePath[j].amo_id \/ WritePath[k].amo_id
  /\ \A j \in DOMAIN store_queue, k \in DOMAIN WritePath :
       store_queue[j] = WritePath[k].op => WritePath[k].amo_id

(* What the word of a waiting processor holds has been seen since it asked,  *)
(* and so has what was read.                                                 *)
Current ==
  /\ \A c \in Cpu : reading[c] # <<>> =>
       cpu_id(reading[c][1]) = c /\ mem[addr(reading[c][1])] \in seen[c]
  /\ rd_rs_fifo # <<>> => rd_rs_fifo[1].old \in seen[cpu_id(rd_rs_fifo[1].op)]

ReadInv  == ReadersWait /\ ReadOnce /\ Current /\ AnswersAreCurrent
WriteInv == WritersWait /\ WrittenOnce

IInv == TypeOK /\ ReadInv /\ WriteInv

-----------------------------------------------------------------------------
(* How a line s becomes t: x joins, or x leaves.                             *)
Joins(s, t, x) ==
  \E n \in Nat : /\ DOMAIN s = 1 .. n /\ DOMAIN t = 1 .. n + 1
                 /\ \A k \in 1 .. n : t[k] = s[k]
                 /\ t[n + 1] = x

Leaves(s, t, x) ==
  \E n \in Nat : /\ DOMAIN s = 1 .. n + 1 /\ DOMAIN t = 1 .. n
                 /\ \A k \in 1 .. n : t[k] = s[k + 1]
                 /\ s[1] = x

LEMMA QueueMoves ==
  ASSUME NEW S, NEW s \in Seq(S)
  PROVE  /\ \A x \in S : Joins(s, Append(s, x), x)
         /\ s # <<>> => Leaves(s, Tail(s), Head(s))
<1>1. Len(s) \in Nat /\ DOMAIN s = 1 .. Len(s)  BY LenProperties
<1>2. ASSUME NEW x \in S PROVE Joins(s, Append(s, x), x)
  <2> DEFINE t == Append(s, x)
  <2>1. t \in Seq(S) /\ Len(t) = Len(s) + 1 /\ t[Len(s) + 1] = x
        /\ \A k \in 1 .. Len(s) : t[k] = s[k]
    OBVIOUS
  <2>2. DOMAIN t = 1 .. Len(s) + 1  BY <2>1, LenProperties
  <2> HIDE DEF t
  <2>3. Joins(s, t, x)  BY <1>1, <2>1, <2>2 DEF Joins
  <2>4. QED  BY <2>3 DEF t
<1>3. ASSUME s # <<>> PROVE Leaves(s, Tail(s), Head(s))
  <2> DEFINE t == Tail(s)
             n == Len(s) - 1
  <2>1. /\ t \in Seq(S) /\ Len(t) = n /\ \A k \in 1 .. Len(t) : t[k] = s[k + 1]
    BY <1>3, HeadTailProperties
  <2>2. n \in Nat /\ Len(s) = n + 1  BY <1>1, <1>3, EmptySeq
  <2>3. DOMAIN t = 1 .. n  BY <2>1, LenProperties
  <2>4. Head(s) = s[1]  BY <1>3
  <2> HIDE DEF t, n
  <2>5. Leaves(s, t, Head(s))  BY <1>1, <2>1, <2>2, <2>3, <2>4 DEF Leaves
  <2>6. QED  BY <2>5 DEF t
<1>4. QED  BY <1>2, <1>3

LEMMA SamePath ==
  ASSUME NEW p, NEW q, NEW r, NEW s, NEW t, NEW u,
         Len(p) + Len(q) + Len(r) = Len(s) + Len(t) + Len(u),
         \A k \in 1 .. Len(p) + Len(q) + Len(r) : Path(p, q, r)[k] = Path(s, t, u)[k]
  PROVE  Path(p, q, r) = Path(s, t, u)
<1> DEFINE n == Len(p) + Len(q) + Len(r)
<1>1. /\ Path(p, q, r) = [k \in 1 .. n |-> Path(p, q, r)[k]]
      /\ Path(s, t, u) = [k \in 1 .. n |-> Path(s, t, u)[k]]
  BY DEF Path
<1> HIDE DEF n
<1>2. \A k \in 1 .. n : Path(p, q, r)[k] = Path(s, t, u)[k]  BY DEF n
<1>3. QED  BY <1>1, <1>2, Zenon

(* Memory takes what is on the channel.                                      *)
LEMMA PathTaken ==
  ASSUME NEW S, NEW p \in Seq(S), NEW T, NEW q \in Seq(T), NEW r \in Seq(T)
  PROVE  Path(p, q \o r, <<>>) = Path(p, q, r)
<1>1. <<>> \in Seq(T) /\ Len(<<>>) = 0  BY EmptySeq
<1>2. /\ q \o r \in Seq(T) /\ Len(q \o r) = Len(q) + Len(r)
      /\ \A k \in 1 .. Len(q) + Len(r) : (q \o r)[k] = IF k <= Len(q) THEN q[k] ELSE r[k - Len(q)]
  BY ConcatProperties
<1> DEFINE s == q \o r
<1>3. /\ Len(p) \in Nat /\ Len(q) \in Nat /\ Len(r) \in Nat
      /\ \A k \in 1 .. Len(p) + Len(q) + Len(r) :
              Path(p, q, r)[k] = IF k <= Len(p) THEN Bare(p[k])
                                 ELSE IF k <= Len(p) + Len(q) THEN Bare(q[k - Len(p)])
                                 ELSE Bare(r[k - Len(p) - Len(q)])
  BY LenProperties DEF Path
<1> HIDE DEF s
<1>4. \A k \in 1 .. Len(p) + Len(s) : Path(p, s, <<>>)[k] = IF k <= Len(p) THEN Bare(p[k])
                                                          ELSE Bare(s[k - Len(p)])
  BY <1>1, <1>2, <1>3 DEF s, Path
<1>5. s \in Seq(T) /\ Len(s) = Len(q) + Len(r)  BY <1>2 DEF s
<1>6. \A k \in 1 .. Len(q) + Len(r) : s[k] = IF k <= Len(q) THEN q[k] ELSE r[k - Len(q)]
  BY <1>2 DEF s
<1>7. ASSUME NEW k \in 1 .. Len(p) + Len(q) + Len(r)
      PROVE  Path(p, q, r)[k] = Path(p, s, <<>>)[k]
  <2>1. k \in 1 .. Len(p) + Len(s)  BY <1>3, <1>5
  <2>2. CASE k <= Len(p)  BY <1>3, <1>4, <2>1, <2>2
  <2>3. CASE ~(k <= Len(p))
    <3>1. k - Len(p) \in 1 .. Len(q) + Len(r)  BY <1>3, <2>3
    <3>2. k <= Len(p) + Len(q) <=> k - Len(p) <= Len(q)  BY <1>3, <2>3
    <3>3. s[k - Len(p)] = IF k <= Len(p) + Len(q) THEN q[k - Len(p)]
                          ELSE r[k - Len(p) - Len(q)]
      BY <1>6, <3>1, <3>2
    <3>4. Path(p, s, <<>>)[k] = Bare(s[k - Len(p)])  BY <1>4, <2>1, <2>3
    <3>5. QED  BY <1>3, <2>3, <3>3, <3>4
  <2>4. QED  BY <2>2, <2>3
<1>8. Len(p) + Len(q) + Len(r) = Len(p) + Len(s) + Len(<<>>)  BY <1>1, <1>3, <1>5
<1>9. Path(p, q, r) = Path(p, s, <<>>)
  <2> DEFINE e == <<>>
  <2>1. /\ Len(p) + Len(q) + Len(r) = Len(p) + Len(s) + Len(e)
        /\ \A k \in 1 .. Len(p) + Len(q) + Len(r) : Path(p, q, r)[k] = Path(p, s, e)[k]
    BY <1>7, <1>8
  <2> HIDE DEF e
  <2>2. Path(p, q, r) = Path(p, s, e)  BY <2>1, SamePath
  <2>3. QED  BY <2>2 DEF e
<1>10. QED  BY <1>9 DEF s

(* Memory answers.                                                           *)
LEMMA PathAnswered ==
  ASSUME NEW S, NEW x \in S, NEW T, NEW q \in Seq(T), NEW r \in Seq(T), q # <<>>,
         Bare(x) = Bare(Head(q))
  PROVE  Path(<<x>>, Tail(q), r) = Path(<<>>, q, r)
<1> DEFINE s == Tail(q)
           y == <<x>>
           n == Len(q) + Len(r)
<1>1. /\ s \in Seq(T) /\ Len(s) = Len(q) - 1 /\ \A k \in 1 .. Len(s) : s[k] = q[k + 1]
      /\ Head(q) = q[1]
  BY HeadTailProperties
<1>2. Len(q) \in Nat /\ Len(q) >= 1 /\ Len(r) \in Nat /\ n \in Nat  BY LenProperties, EmptySeq
<1>3. y \in Seq(S) /\ Len(y) = 1 /\ y[1] = x  OBVIOUS
<1>4. <<>> \in Seq(S) /\ Len(<<>>) = 0  BY EmptySeq
<1> HIDE DEF s, y
<1>5. \A k \in 1 .. n : Path(<<>>, q, r)[k] = IF k <= Len(q) THEN Bare(q[k])
                                              ELSE Bare(r[k - Len(q)])
  BY <1>2, <1>4 DEF Path
<1>6. Len(y) + Len(s) + Len(r) = n  BY <1>1, <1>2, <1>3
<1>7. \A k \in 1 .. n : Path(y, s, r)[k] = IF k <= 1 THEN Bare(y[k])
                                           ELSE IF k <= Len(q) THEN Bare(s[k - 1])
                                           ELSE Bare(r[k - Len(q)])
  <2>1. \A k \in 1 .. Len(y) + Len(s) + Len(r) :
           Path(y, s, r)[k] = IF k <= Len(y) THEN Bare(y[k])
                                 ELSE IF k <= Len(y) + Len(s) THEN Bare(s[k - Len(y)])
                                 ELSE Bare(r[k - Len(y) - Len(s)])
    BY <1>1, <1>3 DEF Path
  <2>2. Len(y) + Len(s) = Len(q) /\ \A k \in Nat : k - Len(y) - Len(s) = k - Len(q)
    BY <1>1, <1>2, <1>3
  <2>3. QED  BY <1>3, <1>6, <2>1, <2>2
<1>8. \A k \in 1 .. n : Path(y, s, r)[k] = Path(<<>>, q, r)[k]
  <2> SUFFICES ASSUME NEW k \in 1 .. n PROVE Path(y, s, r)[k] = Path(<<>>, q, r)[k]  OBVIOUS
  <2>1. CASE k = 1  BY <1>1, <1>2, <1>3, <1>5, <1>7, <2>1
  <2>2. CASE k # 1 /\ k <= Len(q)
    <3>1. k - 1 \in 1 .. Len(s) /\ k - 1 + 1 = k  BY <1>1, <1>2, <2>2
    <3>2. s[k - 1] = q[k]  BY <1>1, <3>1
    <3>3. QED  BY <1>5, <1>7, <2>2, <3>2
  <2>3. CASE k # 1 /\ ~(k <= Len(q))  BY <1>5, <1>7, <2>3
  <2>4. QED  BY <2>1, <2>2, <2>3
<1>9. Len(y) + Len(s) + Len(r) = Len(<<>>) + Len(q) + Len(r)  BY <1>2, <1>4, <1>6
<1>10. Path(y, s, r) = Path(<<>>, q, r)  BY <1>6, <1>8, <1>9, SamePath
<1>11. QED  BY <1>10 DEF s, y

(* The arbiter asks, and takes an answer.                                    *)
LEMMA PathMoves ==
  ASSUME NEW S, NEW p \in Seq(S), NEW T, NEW q \in Seq(T), NEW r \in Seq(T)
  PROVE  /\ \A x \in T : Joins(Path(p, q, <<>>), Path(p, q, <<x>>), Bare(x))
         /\ \A x \in S : Leaves(Path(<<x>>, q, r), Path(<<>>, q, r), Bare(x))
<1>1. Len(p) \in Nat /\ Len(q) \in Nat /\ Len(r) \in Nat  BY LenProperties
<1>2. <<>> \in Seq(S) /\ <<>> \in Seq(T) /\ Len(<<>>) = 0  BY EmptySeq
<1>3. ASSUME NEW x \in T
      PROVE  Joins(Path(p, q, <<>>), Path(p, q, <<x>>), Bare(x))
  <2> DEFINE n == Len(p) + Len(q)
             y == <<x>>
  <2>1. n \in Nat  BY <1>1
  <2>2. y \in Seq(T) /\ Len(y) = 1 /\ y[1] = x  OBVIOUS
  <2> HIDE DEF y
  <2>3. /\ DOMAIN Path(p, q, <<>>) = 1 .. n
        /\ \A k \in 1 .. n : Path(p, q, <<>>)[k] = IF k <= Len(p) THEN Bare(p[k])
                                                   ELSE Bare(q[k - Len(p)])
    BY <1>1, <1>2 DEF Path
  <2>4. /\ DOMAIN Path(p, q, y) = 1 .. n + 1
        /\ \A k \in 1 .. n + 1 :
             Path(p, q, y)[k] = IF k <= Len(p) THEN Bare(p[k])
                                ELSE IF k <= Len(p) + Len(q) THEN Bare(q[k - Len(p)])
                                ELSE Bare(y[k - Len(p) - Len(q)])
    BY <2>2 DEF Path
  <2>5. \A k \in 1 .. n : Path(p, q, y)[k] = Path(p, q, <<>>)[k]  BY <1>1, <2>3, <2>4
  <2>6. n + 1 - Len(p) - Len(q) = 1  BY <1>1
  <2>7. Path(p, q, y)[n + 1] = Bare(x)  BY <1>1, <2>1, <2>2, <2>4, <2>6
  <2> HIDE DEF n
  <2>8. Joins(Path(p, q, <<>>), Path(p, q, y), Bare(x))
    BY <2>1, <2>3, <2>4, <2>5, <2>7 DEF Joins
  <2>9. QED  BY <2>8 DEF y
<1>4. ASSUME NEW x \in S
      PROVE  Leaves(Path(<<x>>, q, r), Path(<<>>, q, r), Bare(x))
  <2> DEFINE n == Len(q) + Len(r)
             y == <<x>>
  <2>1. n \in Nat  BY <1>1
  <2>2. y \in Seq(S) /\ Len(y) = 1 /\ y[1] = x  OBVIOUS
  <2> HIDE DEF y
  <2>3. /\ DOMAIN Path(<<>>, q, r) = 1 .. n
        /\ \A k \in 1 .. n : Path(<<>>, q, r)[k] = IF k <= Len(q) THEN Bare(q[k])
                                                   ELSE Bare(r[k - Len(q)])
    BY <1>1, <1>2 DEF Path
  <2>4. /\ DOMAIN Path(y, q, r) = 1 .. n + 1
        /\ \A k \in 1 .. n + 1 :
             Path(y, q, r)[k] = IF k <= 1 THEN Bare(y[k])
                                ELSE IF k <= 1 + Len(q) THEN Bare(q[k - 1])
                                ELSE Bare(r[k - 1 - Len(q)])
    BY <1>1, <2>2 DEF Path
  <2>5. ASSUME NEW k \in 1 .. n PROVE Path(<<>>, q, r)[k] = Path(y, q, r)[k + 1]
    <3>1. PICK j : j = k + 1  OBVIOUS
    <3>2. j \in 1 .. n + 1 /\ ~(j <= 1) /\ j - 1 = k /\ j - 1 - Len(q) = k - Len(q)
          /\ (j <= 1 + Len(q) <=> k <= Len(q))
      BY <1>1, <2>1, <3>1
    <3>3. Path(y, q, r)[j] = IF j <= 1 + Len(q) THEN Bare(q[j - 1]) ELSE Bare(r[j - 1 - Len(q)])
      BY <2>4, <3>2
    <3>4. Path(y, q, r)[j] = IF k <= Len(q) THEN Bare(q[k]) ELSE Bare(r[k - Len(q)])
      BY <3>2, <3>3
    <3>5. QED  BY <2>3, <3>1, <3>4
  <2>6. Path(y, q, r)[1] = Bare(x)  BY <2>1, <2>2, <2>4
  <2> HIDE DEF n
  <2>7. Leaves(Path(y, q, r), Path(<<>>, q, r), Bare(x))
    BY <2>1, <2>3, <2>4, <2>5, <2>6 DEF Leaves
  <2>8. QED  BY <2>7 DEF y
<1>5. QED  BY <1>3, <1>4

-----------------------------------------------------------------------------
(* The channels of the arbiter as lines.                                     *)

LEMMA ChannelTypes ==
  ASSUME RequestTypes
  PROVE  /\ rd_rs_fifo \in Seq(Carried(Id)) /\ rd_rq_fifo \in Seq(Sent(Id)) /\ reads \in Seq(Sent(Id))
         /\ wr_rs_fifo \in Seq(Sent(Id)) /\ wr_rq_fifo \in Seq(Carried(Id)) /\ writes \in Seq(Carried(Id))
         /\ rd_rs_fifo # <<>> => rd_rs_fifo = <<rd_rs_fifo[1]>> /\ rd_rs_fifo[1] \in Carried(Id)
         /\ wr_rs_fifo # <<>> => wr_rs_fifo = <<wr_rs_fifo[1]>> /\ wr_rs_fifo[1] \in Sent(Id)
BY MaybeIsSeq, MaybeIs DEF RequestTypes

LEMMA Asks ==
  ASSUME RequestTypes
  PROVE  /\ \A x \in Sent(Id) :
              rd_rq_fifo = <<>> /\ rd_rq_fifo' = <<x>> /\ UNCHANGED <<reads, rd_rs_fifo>>
                => Joins(ReadPath, ReadPath', Bare(x))
         /\ \A x \in Carried(Id) :
              wr_rq_fifo = <<>> /\ wr_rq_fifo' = <<x>> /\ UNCHANGED <<writes, wr_rs_fifo>>
                => Joins(WritePath, WritePath', Bare(x))
<1>1. \A x \in Sent(Id) : Joins(Path(rd_rs_fifo, reads, <<>>), Path(rd_rs_fifo, reads, <<x>>), Bare(x))
  <2>1. /\ rd_rs_fifo \in Seq(Carried(Id)) /\ reads \in Seq(Sent(Id))
        /\ <<>> \in Seq(Sent(Id))
    BY ChannelTypes, EmptySeq
  <2>2. QED  BY <2>1, PathMoves
<1>2. \A x \in Carried(Id) : Joins(Path(wr_rs_fifo, writes, <<>>), Path(wr_rs_fifo, writes, <<x>>), Bare(x))
  <2>1. /\ wr_rs_fifo \in Seq(Sent(Id)) /\ writes \in Seq(Carried(Id))
        /\ <<>> \in Seq(Carried(Id))
    BY ChannelTypes, EmptySeq
  <2>2. QED  BY <2>1, PathMoves
<1>3. QED  BY <1>1, <1>2 DEF ReadPath, WritePath

LEMMA Takes ==
  ASSUME RequestTypes
  PROVE  /\ rd_rs_fifo # <<>> /\ rd_rs_fifo' = <<>> /\ UNCHANGED <<reads, rd_rq_fifo>>
              => Leaves(ReadPath, ReadPath', Bare(rd_rs_fifo[1]))
         /\ wr_rs_fifo # <<>> /\ wr_rs_fifo' = <<>> /\ UNCHANGED <<writes, wr_rq_fifo>>
              => Leaves(WritePath, WritePath', Bare(wr_rs_fifo[1]))
<1>1. \A x \in Carried(Id) : Leaves(Path(<<x>>, reads, rd_rq_fifo), Path(<<>>, reads, rd_rq_fifo), Bare(x))
  <2>1. /\ rd_rq_fifo \in Seq(Sent(Id)) /\ reads \in Seq(Sent(Id))
        /\ <<>> \in Seq(Carried(Id))
    BY ChannelTypes, EmptySeq
  <2>2. QED  BY <2>1, PathMoves
<1>2. \A x \in Sent(Id) : Leaves(Path(<<x>>, writes, wr_rq_fifo), Path(<<>>, writes, wr_rq_fifo), Bare(x))
  <2>1. /\ wr_rq_fifo \in Seq(Carried(Id)) /\ writes \in Seq(Carried(Id))
        /\ <<>> \in Seq(Sent(Id))
    BY ChannelTypes, EmptySeq
  <2>2. QED  BY <2>1, PathMoves
<1>3. ASSUME rd_rs_fifo # <<>>, rd_rs_fifo' = <<>>, UNCHANGED <<reads, rd_rq_fifo>>
      PROVE  Leaves(ReadPath, ReadPath', Bare(rd_rs_fifo[1]))
  <2>1. rd_rs_fifo = <<rd_rs_fifo[1]>> /\ rd_rs_fifo[1] \in Carried(Id)  BY <1>3, ChannelTypes
  <2>2. /\ ReadPath = Path(<<rd_rs_fifo[1]>>, reads, rd_rq_fifo)
        /\ ReadPath' = Path(<<>>, reads, rd_rq_fifo)
    BY <1>3, <2>1 DEF ReadPath
  <2>3. QED  BY <1>1, <2>1, <2>2
<1>4. ASSUME wr_rs_fifo # <<>>, wr_rs_fifo' = <<>>, UNCHANGED <<writes, wr_rq_fifo>>
      PROVE  Leaves(WritePath, WritePath', Bare(wr_rs_fifo[1]))
  <2>1. wr_rs_fifo = <<wr_rs_fifo[1]>> /\ wr_rs_fifo[1] \in Sent(Id)  BY <1>4, ChannelTypes
  <2>2. /\ WritePath = Path(<<wr_rs_fifo[1]>>, writes, wr_rq_fifo)
        /\ WritePath' = Path(<<>>, writes, wr_rq_fifo)
    BY <1>4, <2>1 DEF WritePath
  <2>3. QED  BY <1>2, <2>1, <2>2
<1>5. QED  BY <1>3, <1>4

(* Nothing joins or leaves while memory works.                               *)
LEMMA MemoryKeepsPaths ==
  ASSUME RequestTypes, Memory
  PROVE  UNCHANGED <<ReadPath, WritePath>>
<1>1. CASE MemoryTakes
  <2>1. /\ Path(rd_rs_fifo, reads \o rd_rq_fifo, <<>>) = ReadPath
        /\ Path(wr_rs_fifo, writes \o wr_rq_fifo, <<>>) = WritePath
    BY ChannelTypes, PathTaken DEF ReadPath, WritePath
  <2>2. QED  BY <1>1, <2>1 DEF MemoryTakes, ReadPath, WritePath
<1>2. CASE MemoryReads
  <2> DEFINE t == Head(reads)
             x == Writing(t.op, t.amo_id, mem[addr(t.op)])
  <2>1. reads # <<>> /\ rd_rs_fifo = <<>> /\ rd_rs_fifo' = <<x>> /\ reads' = Tail(reads)
        /\ rd_rq_fifo' = rd_rq_fifo /\ UNCHANGED <<wr_rs_fifo, writes, wr_rq_fifo>>
    BY <1>2 DEF MemoryReads
  <2>2. Bare(x) = Bare(t)  BY DEF Bare, Writing
  <2>3. x \in {x}  OBVIOUS
  <2> HIDE DEF x
  <2>4. Path(<<x>>, Tail(reads), rd_rq_fifo) = Path(<<>>, reads, rd_rq_fifo)
    BY <2>1, <2>2, <2>3, ChannelTypes, PathAnswered
  <2>5. QED  BY <2>1, <2>4 DEF ReadPath, WritePath
<1>3. CASE MemoryWrites
  <2> DEFINE t == Head(writes)
             x == Transfer(t.op, t.amo_id)
  <2>1. writes # <<>> /\ wr_rs_fifo = <<>> /\ wr_rs_fifo' = <<x>> /\ writes' = Tail(writes)
        /\ wr_rq_fifo' = wr_rq_fifo /\ UNCHANGED <<rd_rs_fifo, reads, rd_rq_fifo>>
    BY <1>3 DEF MemoryWrites
  <2>2. Bare(x) = Bare(t)  BY DEF Bare, Transfer
  <2>3. x \in {x}  OBVIOUS
  <2> HIDE DEF x
  <2>4. Path(<<x>>, Tail(writes), wr_rq_fifo) = Path(<<>>, writes, wr_rq_fifo)
    BY <2>1, <2>2, <2>3, ChannelTypes, PathAnswered
  <2>5. QED  BY <2>1, <2>4 DEF ReadPath, WritePath
<1>4. QED  BY <1>1, <1>2, <1>3 DEF Memory

LEMMA PathIds ==
  ASSUME RequestTypes
  PROVE  /\ \A k \in DOMAIN ReadPath : ReadPath[k].op \in Id /\ ReadPath[k].amo_id \in BOOLEAN
         /\ \A k \in DOMAIN WritePath : WritePath[k].op \in Id /\ WritePath[k].amo_id \in BOOLEAN
<1>1. ASSUME NEW S, NEW p \in Seq(S), NEW T, NEW q \in Seq(T), NEW r \in Seq(T),
             NEW k \in DOMAIN Path(p, q, r),
             \A x \in S \cup T : x.op \in Id /\ x.amo_id \in BOOLEAN
      PROVE  Path(p, q, r)[k].op \in Id /\ Path(p, q, r)[k].amo_id \in BOOLEAN
  <2> DEFINE x == IF k <= Len(p) THEN p[k]
                  ELSE IF k <= Len(p) + Len(q) THEN q[k - Len(p)] ELSE r[k - Len(p) - Len(q)]
  <2>1. /\ Len(p) \in Nat /\ Len(q) \in Nat /\ Len(r) \in Nat
        /\ \A i \in 1 .. Len(p) : p[i] \in S
        /\ \A i \in 1 .. Len(q) : q[i] \in T
        /\ \A i \in 1 .. Len(r) : r[i] \in T
    BY LenProperties, ElementOfSeq
  <2>2. k \in 1 .. Len(p) + Len(q) + Len(r) /\ Path(p, q, r)[k] = Bare(x)  BY <1>1 DEF Path
  <2>3. x \in S \cup T
    <3>1. CASE k <= Len(p)  BY <2>1, <2>2, <3>1
    <3>2. CASE ~(k <= Len(p)) /\ k <= Len(p) + Len(q)
      <4>1. k - Len(p) \in 1 .. Len(q)  BY <2>1, <2>2, <3>2
      <4>2. QED  BY <2>1, <3>2, <4>1
    <3>3. CASE ~(k <= Len(p)) /\ ~(k <= Len(p) + Len(q))
      <4>1. k - Len(p) - Len(q) \in 1 .. Len(r)  BY <2>1, <2>2, <3>3
      <4>2. QED  BY <2>1, <3>3, <4>1
    <3>4. QED  BY <3>1, <3>2, <3>3
  <2> HIDE DEF x
  <2>4. QED  BY <1>1, <2>2, <2>3 DEF Bare
<1>2. \A x \in Sent(Id) \cup Carried(Id) : x.op \in Id /\ x.amo_id \in BOOLEAN
  BY DEF Sent, Carried
<1>3. \A k \in DOMAIN ReadPath : ReadPath[k].op \in Id /\ ReadPath[k].amo_id \in BOOLEAN
  BY <1>1, <1>2, ChannelTypes DEF ReadPath
<1>4. \A k \in DOMAIN WritePath : WritePath[k].op \in Id /\ WritePath[k].amo_id \in BOOLEAN
  BY <1>1, <1>2, ChannelTypes DEF WritePath
<1>5. QED  BY <1>3, <1>4

(* What memory answers, or is about to, is the first of the line.            *)
LEMMA ReadFirst ==
  ASSUME RequestTypes, NEW t,
         \/ rd_rs_fifo # <<>> /\ t = rd_rs_fifo[1]
         \/ rd_rs_fifo = <<>> /\ reads # <<>> /\ t = Head(reads)
  PROVE  1 \in DOMAIN ReadPath /\ ReadPath[1] = Bare(t)
<1>1. /\ Len(rd_rs_fifo) \in Nat /\ Len(reads) \in Nat /\ Len(rd_rq_fifo) \in Nat
      /\ reads # <<>> => Len(reads) >= 1 /\ Head(reads) = reads[1]
      /\ rd_rs_fifo # <<>> => Len(rd_rs_fifo) = 1
  BY ChannelTypes, LenProperties, EmptySeq, MaybeIsSeq DEF RequestTypes
<1>2. CASE rd_rs_fifo # <<>>  BY <1>1, <1>2 DEF ReadPath, Path
<1>3. CASE rd_rs_fifo = <<>>
  <2>1. Len(rd_rs_fifo) = 0 /\ Len(reads) >= 1 /\ t = reads[1]  BY <1>1, <1>3
  <2>2. QED  BY <1>1, <2>1 DEF ReadPath, Path
<1>4. QED  BY <1>2, <1>3

-----------------------------------------------------------------------------
(* Every request the arbiter has is one of those made.                       *)
LEMMA KnownRequests ==
  ASSUME RequestTypes
  PROVE  /\ \A k \in DOMAIN load_queue : load_queue[k] \in Id
         /\ \A k \in DOMAIN store_queue : store_queue[k] \in Id
         /\ amo_description # <<>> => amo_description[1] \in Id /\ amo_description = <<amo_description[1]>>
BY LenProperties, ElementOfSeq, MaybeIs DEF RequestTypes

LEMMA CoresRead ==
  ASSUME TypeOK, ReadInv, NEW c \in Cpu, put_read(c) \/ put_write(c) \/ get_read(c)
  PROVE  ReadInv'
<1>1. RequestTypes /\ OtherTypes  BY Types
<1>2. UNCHANGED <<ReadPath, rd_rs_fifo, amo_description, mem>>
  BY DEF put_read, put_write, get_read, ReadPath, amo, queues
<1>3. /\ \A k \in DOMAIN load_queue : load_queue[k] \in Id
      /\ \A k \in DOMAIN ReadPath : ReadPath[k].op \in Id
      /\ amo_description # <<>> => amo_description[1] \in Id
  BY <1>1, KnownRequests, PathIds
<1>4. rd_rs_fifo # <<>> => rd_rs_fifo[1].op \in Id /\ Waits(rd_rs_fifo[1].op)
  <2>1. ASSUME rd_rs_fifo # <<>> PROVE 1 \in DOMAIN ReadPath /\ ReadPath[1] = Bare(rd_rs_fifo[1])
    BY <1>1, <2>1, ReadFirst
  <2>2. QED  BY <1>3, <2>1 DEF ReadInv, ReadersWait, Bare
<1>5. \A d \in Cpu : reading[d] # <<>> => reading[d][1] \in Id
  BY <1>1, MaybeIs DEF RequestTypes
<1>6. CASE put_read(c)
  <2>1. PICK r \in build.requests[c] : Ask(c, r) /\ seen' = [seen EXCEPT ![c] = {mem[r.addr]}]
    BY <1>6 DEF put_read
  <2>0. PICK n : n = Len(ops) + 1  OBVIOUS
  <2> DEFINE o == [cpu |-> c, kind |-> r.kind, addr |-> r.addr]
  <2>2. /\ n \notin Id /\ (\A i \in Id : ops'[i] = ops[i]) /\ ops'[n] = o
    <3>1. r \in Request  BY <1>1, <2>1, Requests
    <3>2. o \in Owner /\ Len(ops) < MaxOps /\ ops' = Append(ops, o)
      BY <2>1, <3>1 DEF Ask, Owner, Request, Kind
    <3> HIDE DEF o
    <3>3. QED  BY <1>1, <2>0, <3>2, IdsGrow
  <2>3. o.cpu = c /\ o.addr = r.addr  OBVIOUS
  <2>4. /\ reading[c] = <<>> /\ reading' = [reading EXCEPT ![c] = <<n>>]
        /\ load_queue' = Append(load_queue, n) /\ UNCHANGED mem_rd_resp_f_v
    BY <1>6, <2>0 DEF put_read
  <2> HIDE DEF o
  <2>5. DOMAIN reading = Cpu /\ DOMAIN seen = Cpu  BY <1>1 DEF RequestTypes, OtherTypes
  <2>6. mem_rd_resp_f_v[c] = <<>>  BY <2>4 DEF ReadInv, AnswersAreCurrent
  <2>7. \A i \in Id : Waits(i) => Waits(i)' /\ cpu_id(i)' = cpu_id(i) /\ cpu_id(i) # c
    BY <2>2, <2>4, <2>5 DEF Waits, cpu_id
  <2>8. Waits(n)'  BY <2>2, <2>3, <2>4, <2>5, <2>6 DEF Waits, cpu_id
  <2>9. Joins(load_queue, load_queue', n)
    <3>1. load_queue \in Seq(Id \cup {n})  BY <1>1, SeqMonotonic DEF RequestTypes
    <3>2. QED  BY <2>4, <3>1, QueueMoves
  <2>10. ReadersWait'
    BY <1>2, <1>3, <2>7, <2>8, <2>9 DEF ReadInv, ReadersWait, Joins
  <2>11. ReadOnce'
    <3>1. amo_description # <<n>>  BY <1>3, <2>2
    <3>2. \A k \in DOMAIN ReadPath : ReadPath[k].op # n  BY <1>3, <2>2
    <3>3. \A k \in DOMAIN load_queue : load_queue[k] # n  BY <1>3, <2>2
    <3>4. /\ \A j, k \in DOMAIN load_queue' : load_queue'[j] = load_queue'[k] => j = k
          /\ \A j \in DOMAIN load_queue' : load_queue'[j] = n \/ \E k \in DOMAIN load_queue : load_queue'[j] = load_queue[k]
      BY <2>9, <3>3 DEF Joins, ReadInv, ReadOnce
    <3>5. QED  BY <1>2, <3>1, <3>2, <3>4 DEF ReadInv, ReadOnce
  <2>12. Current'
    <3>1. \A d \in Cpu : reading'[d] = (IF d = c THEN <<n>> ELSE reading[d])
                         /\ seen'[d] = (IF d = c THEN {mem[r.addr]} ELSE seen[d])
      BY <2>1, <2>4, <2>5
    <3>2. cpu_id(n)' = c /\ addr(n)' = r.addr  BY <2>2, <2>3 DEF cpu_id, addr
    <3>3. \A i \in Id : cpu_id(i)' = cpu_id(i) /\ addr(i)' = addr(i)  BY <2>2 DEF cpu_id, addr
    <3>4. ASSUME NEW d \in Cpu, reading'[d] # <<>>
          PROVE  cpu_id(reading[d][1])' = d /\ mem'[addr(reading[d][1])'] \in seen'[d]
      <4>1. CASE d = c
        <5>1. reading'[d][1] = n  BY <3>1, <4>1
        <5>2. QED  BY <1>2, <3>1, <3>2, <4>1, <5>1 DEF cpu_id, addr
      <4>2. CASE d # c
        <5>1. reading'[d] = reading[d] /\ reading[d][1] \in Id  BY <1>5, <3>1, <3>4, <4>2
        <5>2. QED  BY <1>2, <3>1, <3>3, <3>4, <4>2, <5>1 DEF ReadInv, Current, cpu_id, addr
      <4>3. QED  BY <4>1, <4>2
    <3>5. rd_rs_fifo' # <<>> => rd_rs_fifo'[1].old \in seen'[cpu_id(rd_rs_fifo[1].op)']
      <4>1. ASSUME rd_rs_fifo # <<>>
            PROVE  rd_rs_fifo[1].old \in seen'[cpu_id(rd_rs_fifo[1].op)']
        <5>1. rd_rs_fifo[1].op \in Id /\ Waits(rd_rs_fifo[1].op)  BY <1>4, <4>1
        <5>2. cpu_id(rd_rs_fifo[1].op) # c /\ cpu_id(rd_rs_fifo[1].op) \in Cpu
          BY <1>1, <2>7, <5>1, Ids
        <5>3. cpu_id(rd_rs_fifo[1].op)' = cpu_id(rd_rs_fifo[1].op)
          BY <1>2, <2>2, <5>1 DEF cpu_id
        <5>4. QED  BY <1>2, <3>1, <4>1, <5>2, <5>3 DEF ReadInv, Current
      <4>2. QED  BY <1>2, <4>1
    <3>6. QED  BY <3>4, <3>5 DEF Current
  <2>13. AnswersAreCurrent'
    <3>1. ASSUME NEW d \in Cpu, mem_rd_resp_f_v[d] # <<>>
          PROVE  /\ reading'[d] # <<>>
                 /\ kind(reading[d][1])' # "SC" => mem_rd_resp_f_v[d][1] \in seen'[d]
      <4>1. d # c /\ reading[d] # <<>>  BY <2>6, <3>1 DEF ReadInv, AnswersAreCurrent
      <4>2. reading'[d] = reading[d] /\ seen'[d] = seen[d] /\ reading[d][1] \in Id
        BY <1>5, <2>1, <2>4, <2>5, <4>1
      <4>3. kind(reading[d][1])' = kind(reading[d][1])  BY <2>2, <4>2 DEF kind
      <4>4. QED  BY <3>1, <4>1, <4>2, <4>3 DEF ReadInv, AnswersAreCurrent
    <3>2. QED  BY <2>4, <3>1 DEF AnswersAreCurrent
  <2>14. QED  BY <2>10, <2>11, <2>12, <2>13 DEF ReadInv
<1>7. CASE put_write(c)
  <2>1. \A i \in Id : ops'[i] = ops[i]
    <3>1. PICK r \in build.requests[c] : Ask(c, r)  BY <1>7 DEF put_write
    <3>2. r \in Request  BY <1>1, <3>1, Requests
    <3> DEFINE o == [cpu |-> c, kind |-> r.kind, addr |-> r.addr]
    <3>3. o \in Owner /\ Len(ops) < MaxOps /\ ops' = Append(ops, o)
      BY <3>1, <3>2 DEF Ask, Owner, Request, Kind
    <3> HIDE DEF o
    <3>4. QED  BY <1>1, <3>3, IdsGrow
  <2>2. UNCHANGED <<reading, load_queue, mem_rd_resp_f_v, seen>>  BY <1>7 DEF put_write
  <2>3. \A i \in Id : /\ cpu_id(i)' = cpu_id(i) /\ addr(i)' = addr(i) /\ kind(i)' = kind(i)
                      /\ Waits(i)' = Waits(i)
    BY <2>1, <2>2 DEF cpu_id, addr, kind, Waits
  <2>4. ReadersWait'  BY <1>2, <1>3, <2>2, <2>3 DEF ReadInv, ReadersWait
  <2>5. ReadOnce'  BY <1>2, <2>2 DEF ReadInv, ReadOnce
  <2>6. Current'
    <3>1. ASSUME NEW d \in Cpu, reading[d] # <<>>
          PROVE  cpu_id(reading[d][1])' = d /\ mem[addr(reading[d][1])'] \in seen[d]
      <4>1. reading[d][1] \in Id  BY <1>5, <3>1
      <4>2. QED  BY <2>1, <2>2, <3>1, <4>1 DEF ReadInv, Current, cpu_id, addr
    <3>2. rd_rs_fifo # <<>> => cpu_id(rd_rs_fifo[1].op)' = cpu_id(rd_rs_fifo[1].op)
      BY <1>2, <1>4, <2>1 DEF cpu_id
    <3>3. QED  BY <1>2, <2>2, <3>1, <3>2 DEF ReadInv, Current
  <2>7. AnswersAreCurrent'
    <3>1. ASSUME NEW d \in Cpu, reading[d] # <<>>
          PROVE  kind(reading[d][1])' = kind(reading[d][1])
      <4>1. reading[d][1] \in Id  BY <1>5, <3>1
      <4>2. QED  BY <2>1, <2>2, <4>1 DEF kind
    <3>2. QED  BY <2>2, <3>1 DEF ReadInv, AnswersAreCurrent
  <2>8. QED  BY <2>4, <2>5, <2>6, <2>7 DEF ReadInv
<1>8. CASE get_read(c)
  <2>1. /\ mem_rd_resp_f_v[c] # <<>> /\ UNCHANGED <<ops, load_queue>>
        /\ mem_rd_resp_f_v' = [mem_rd_resp_f_v EXCEPT ![c] = <<>>]
        /\ reading' = [reading EXCEPT ![c] = <<>>]
        /\ seen' = [seen EXCEPT ![c] = {}]
    BY <1>8 DEF get_read, queues
  <2>2. DOMAIN reading = Cpu /\ DOMAIN seen = Cpu /\ DOMAIN mem_rd_resp_f_v = Cpu
    BY <1>1 DEF RequestTypes, OtherTypes
  <2>3. \A i \in Id : Waits(i) => Waits(i)' /\ cpu_id(i) # c
    BY <2>1, <2>2 DEF Waits, cpu_id
  <2>4. ReadersWait'  BY <1>2, <1>3, <2>1, <2>3 DEF ReadInv, ReadersWait
  <2>5. ReadOnce'  BY <1>2, <2>1 DEF ReadInv, ReadOnce
  <2>6. \A d \in Cpu : /\ d # c => /\ reading'[d] = reading[d] /\ seen'[d] = seen[d]
                                   /\ mem_rd_resp_f_v'[d] = mem_rd_resp_f_v[d]
                       /\ d = c => reading'[d] = <<>> /\ mem_rd_resp_f_v'[d] = <<>>
    BY <2>1, <2>2
  <2>7. Current'
    <3>1. rd_rs_fifo # <<>> =>
            cpu_id(rd_rs_fifo[1].op) # c /\ cpu_id(rd_rs_fifo[1].op) \in Cpu
      BY <1>1, <1>4, <2>3, Ids
    <3>2. QED  BY <1>2, <2>1, <2>6, <3>1 DEF ReadInv, Current, cpu_id, addr
  <2>8. AnswersAreCurrent'  BY <2>1, <2>6 DEF ReadInv, AnswersAreCurrent, kind
  <2>9. QED  BY <2>4, <2>5, <2>7, <2>8 DEF ReadInv
<1>9. QED  BY <1>6, <1>7, <1>8

(* An answer to request i leaves the others waiting, and it is current if it *)
(* was seen or i is an SC.                                                   *)
LEMMA Answered ==
  ASSUME TypeOK, ReadInv, NEW i \in Id, Waits(i), NEW v,
         v \in seen[cpu_id(i)] \/ kind(i) = "SC",
         mem_rd_resp_f_v' = [mem_rd_resp_f_v EXCEPT ![cpu_id(i)] = <<v>>],
         UNCHANGED <<ops, reading, seen, mem>>
  PROVE  /\ \A j \in Id : Waits(j) /\ j # i => Waits(j)'
         /\ AnswersAreCurrent'
<1>1. RequestTypes /\ OtherTypes  BY Types
<1>2. DOMAIN mem_rd_resp_f_v = Cpu /\ \A j \in Id : cpu_id(j) \in Cpu
  BY <1>1, Ids DEF OtherTypes
<1>3. reading[cpu_id(i)] = <<i>> /\ <<i>>[1] = i /\ <<i>> # <<>>  BY DEF Waits
<1>4. ASSUME NEW j \in Id, Waits(j), j # i PROVE Waits(j)'
  <2>1. cpu_id(j) # cpu_id(i)
    <3>1. reading[cpu_id(j)] = <<j>> /\ <<j>>[1] = j  BY <1>4 DEF Waits
    <3>2. QED  BY <1>3, <1>4, <3>1
  <2>2. QED  BY <1>2, <1>4, <2>1 DEF Waits, cpu_id
<1>5. AnswersAreCurrent'
  <2>1. ASSUME NEW c \in Cpu, mem_rd_resp_f_v'[c] # <<>>
        PROVE  /\ reading[c] # <<>>
               /\ kind(reading[c][1]) # "SC" => mem_rd_resp_f_v'[c][1] \in seen[c]
    <3>1. CASE c = cpu_id(i)
      <4>1. mem_rd_resp_f_v'[c] = <<v>> /\ <<v>>[1] = v  BY <1>2, <3>1
      <4>2. QED  BY <1>3, <3>1, <4>1
    <3>2. CASE c # cpu_id(i)
      <4>1. mem_rd_resp_f_v'[c] = mem_rd_resp_f_v[c]  BY <1>2, <3>2
      <4>2. QED  BY <2>1, <4>1 DEF ReadInv, AnswersAreCurrent
    <3>3. QED  BY <3>1, <3>2
  <2>2. QED  BY <2>1 DEF AnswersAreCurrent, kind
<1>6. QED  BY <1>4, <1>5

(* What the first answer of memory is to.                                    *)
LEMMA FirstAnswer ==
  ASSUME TypeOK, ReadInv, rd_rs_fifo # <<>>, rd_rs_fifo' = <<>>,
         UNCHANGED <<reads, rd_rq_fifo>>
  PROVE  /\ rd_rs_fifo[1].op \in Id /\ Waits(rd_rs_fifo[1].op)
         /\ rd_rs_fifo[1].amo_id <=> amo_description = <<rd_rs_fifo[1].op>>
         /\ \A j \in DOMAIN load_queue : load_queue[j] # rd_rs_fifo[1].op
         /\ \A k \in DOMAIN ReadPath' : /\ \E j \in DOMAIN ReadPath : ReadPath'[k] = ReadPath[j]
                                        /\ ReadPath'[k].op # rd_rs_fifo[1].op
         /\ \A j, k \in DOMAIN ReadPath' : ReadPath'[j].op = ReadPath'[k].op => j = k
         /\ \A j \in DOMAIN load_queue, k \in DOMAIN ReadPath' : load_queue[j] # ReadPath'[k].op
<1>1. RequestTypes  BY Types
<1>2. PICK t : t = rd_rs_fifo[1]  OBVIOUS
<1>3. Bare(t).op = t.op /\ Bare(t).amo_id = t.amo_id  BY DEF Bare
<1>4. PICK n \in Nat : /\ DOMAIN ReadPath = 1 .. n + 1 /\ DOMAIN ReadPath' = 1 .. n
                       /\ \A k \in 1 .. n : ReadPath'[k] = ReadPath[k + 1]
                       /\ ReadPath[1] = Bare(t)
  BY <1>1, <1>2, Takes DEF Leaves
<1>5. 1 \in DOMAIN ReadPath /\ ReadPath[1].op = t.op /\ ReadPath[1].amo_id = t.amo_id
  BY <1>3, <1>4
<1>6. /\ t.op \in Id /\ Waits(t.op)
      /\ t.amo_id <=> amo_description = <<t.op>>
      /\ \A j \in DOMAIN load_queue : load_queue[j] # t.op
  BY <1>1, <1>5, PathIds DEF ReadInv, ReadersWait, ReadOnce
<1>7. \A k \in DOMAIN ReadPath' : /\ k + 1 \in DOMAIN ReadPath /\ k + 1 # 1
                                  /\ ReadPath'[k] = ReadPath[k + 1]
  BY <1>4
<1>8. \A k \in DOMAIN ReadPath' : ReadPath'[k].op # t.op
  BY <1>5, <1>7 DEF ReadInv, ReadOnce
<1>9. \A j, k \in DOMAIN ReadPath' : ReadPath'[j].op = ReadPath'[k].op => j = k
  <2>1. \A j, k \in DOMAIN ReadPath' : ReadPath'[j].op = ReadPath'[k].op => j + 1 = k + 1
    BY <1>7 DEF ReadInv, ReadOnce
  <2>2. \A j, k \in DOMAIN ReadPath' : j \in Nat /\ k \in Nat  BY <1>4
  <2>3. QED  BY <2>1, <2>2
<1>10. \A j \in DOMAIN load_queue, k \in DOMAIN ReadPath' : load_queue[j] # ReadPath'[k].op
  BY <1>7 DEF ReadInv, ReadOnce
<1>11. QED  BY <1>2, <1>6, <1>7, <1>8, <1>9, <1>10

(* What the arbiter takes from its queue of loads.                           *)
LEMMA NextRequest ==
  ASSUME TypeOK, ReadInv, load_queue # <<>>, load_queue' = Tail(load_queue)
  PROVE  /\ Head(load_queue) \in Id /\ Waits(Head(load_queue))
         /\ amo_description # <<Head(load_queue)>>
         /\ \A k \in DOMAIN ReadPath : ReadPath[k].op # Head(load_queue)
         /\ \A k \in DOMAIN load_queue' : /\ \E j \in DOMAIN load_queue : load_queue'[k] = load_queue[j]
                                          /\ load_queue'[k] # Head(load_queue)
         /\ \A j, k \in DOMAIN load_queue' : load_queue'[j] = load_queue'[k] => j = k
<1>1. RequestTypes  BY Types
<1>2. PICK i : i = Head(load_queue)  OBVIOUS
<1>3. PICK n \in Nat : /\ DOMAIN load_queue = 1 .. n + 1 /\ DOMAIN load_queue' = 1 .. n
                       /\ \A k \in 1 .. n : load_queue'[k] = load_queue[k + 1]
                       /\ load_queue[1] = i
  BY <1>1, <1>2, QueueMoves DEF RequestTypes, Leaves
<1>4. 1 \in DOMAIN load_queue  BY <1>3
<1>5. /\ i \in Id /\ Waits(i) /\ amo_description # <<i>>
      /\ \A k \in DOMAIN ReadPath : ReadPath[k].op # i
  BY <1>1, <1>3, <1>4, KnownRequests DEF ReadInv, ReadersWait, ReadOnce
<1>6. \A k \in DOMAIN load_queue' : /\ k + 1 \in DOMAIN load_queue /\ k + 1 # 1
                                    /\ load_queue'[k] = load_queue[k + 1]
  BY <1>3
<1>7. \A k \in DOMAIN load_queue' : load_queue'[k] # i
  BY <1>3, <1>4, <1>6 DEF ReadInv, ReadOnce
<1>8. \A j, k \in DOMAIN load_queue' : load_queue'[j] = load_queue'[k] => j = k
  <2>1. \A j, k \in DOMAIN load_queue' : load_queue'[j] = load_queue'[k] => j + 1 = k + 1
    BY <1>6 DEF ReadInv, ReadOnce
  <2>2. \A j, k \in DOMAIN load_queue' : j \in Nat /\ k \in Nat  BY <1>3
  <2>3. QED  BY <2>1, <2>2
<1>9. QED  BY <1>2, <1>5, <1>6, <1>7, <1>8

(* Asking memory for the next request.                                       *)
LEMMA NextAsked ==
  ASSUME TypeOK, ReadInv, NEW own \in BOOLEAN,
         load_queue # <<>>, load_queue' = Tail(load_queue),
         rd_rq_fifo = <<>>, rd_rq_fifo' = <<Transfer(Head(load_queue), own)>>,
         amo_description' = IF own THEN <<Head(load_queue)>> ELSE amo_description,
         own => amo_description = <<>>,
         UNCHANGED <<ops, reading, mem_rd_resp_f_v, reads, rd_rs_fifo>>
  PROVE  ReadersWait' /\ ReadOnce'
<1>1. RequestTypes  BY Types
<1>2. PICK i : i = Head(load_queue)  OBVIOUS
<1>3. PICK t : t = Transfer(i, own)  OBVIOUS
<1>4. i \in Id  BY <1>2, NextRequest
<1>5. t \in Sent(Id) /\ t.op = i /\ t.amo_id = own  BY <1>3, <1>4 DEF Transfer, Sent
<1>6. Bare(t).op = i /\ Bare(t).amo_id = own  BY <1>5 DEF Bare
<1>7. rd_rq_fifo' = <<t>>  BY <1>2, <1>3
<1>8. PICK n \in Nat : /\ DOMAIN ReadPath = 1 .. n /\ DOMAIN ReadPath' = 1 .. n + 1
                       /\ \A k \in 1 .. n : ReadPath'[k] = ReadPath[k]
                       /\ ReadPath'[n + 1] = Bare(t)
  BY <1>1, <1>5, <1>7, Asks DEF Joins
<1>9. \A k \in DOMAIN ReadPath' : \/ k \in DOMAIN ReadPath /\ ReadPath'[k] = ReadPath[k]
                                  \/ k = n + 1 /\ ReadPath'[k].op = i /\ ReadPath'[k].amo_id = own
  BY <1>6, <1>8
<1>10. /\ Waits(i) /\ amo_description # <<i>>
       /\ \A k \in DOMAIN ReadPath : ReadPath[k].op # i
       /\ \A k \in DOMAIN load_queue' : /\ \E j \in DOMAIN load_queue : load_queue'[k] = load_queue[j]
                                        /\ load_queue'[k] # i
       /\ \A j, k \in DOMAIN load_queue' : load_queue'[j] = load_queue'[k] => j = k
  BY <1>2, NextRequest
<1>11. amo_description' = IF own THEN <<i>> ELSE amo_description  BY <1>2
<1>12. ReadersWait'
  <2>1. ASSUME amo_description' # <<>>, NEW j, j = amo_description'[1] PROVE Waits(j)
    <3>1. CASE own
      <4>1. j = i  BY <1>11, <2>1, <3>1
      <4>2. QED  BY <1>10, <4>1
    <3>2. CASE ~own  BY <1>11, <2>1, <3>2 DEF ReadInv, ReadersWait
    <3>3. QED  BY <3>1, <3>2
  <2>2. ASSUME NEW k \in DOMAIN ReadPath', NEW j, j = ReadPath'[k].op PROVE Waits(j)
    BY <1>9, <1>10, <2>2 DEF ReadInv, ReadersWait
  <2>3. ASSUME NEW k \in DOMAIN load_queue', NEW j, j = load_queue'[k] PROVE Waits(j)
    BY <1>10, <2>3 DEF ReadInv, ReadersWait
  <2>4. QED  BY <2>1, <2>2, <2>3 DEF ReadersWait, Waits, cpu_id
<1>13. ReadOnce'
  <2>1. \A j, k \in DOMAIN ReadPath' : ReadPath'[j].op = ReadPath'[k].op => j = k
    BY <1>9, <1>10 DEF ReadInv, ReadOnce
  <2>2. \A j \in DOMAIN load_queue', k \in DOMAIN ReadPath' : load_queue'[j] # ReadPath'[k].op
    BY <1>9, <1>10 DEF ReadInv, ReadOnce
  <2>3. \A j \in DOMAIN load_queue' : amo_description' # <<load_queue'[j]>>
    <3>1. \A j \in DOMAIN load_queue' : <<i>> # <<load_queue'[j]>>
      <4>1. \A a, b : <<a>> = <<b>> => a = b  OBVIOUS
      <4>2. QED  BY <1>10, <4>1
    <3>2. QED  BY <1>10, <1>11, <3>1 DEF ReadInv, ReadOnce
  <2>4. ASSUME NEW k \in DOMAIN ReadPath'
        PROVE  ReadPath'[k].amo_id <=> amo_description' = <<ReadPath'[k].op>>
    <3>1. CASE k \in DOMAIN ReadPath /\ ReadPath'[k] = ReadPath[k]
      <4>1. ReadPath[k].amo_id <=> amo_description = <<ReadPath[k].op>>
        BY <3>1 DEF ReadInv, ReadOnce
      <4>2. <<i>> # <<ReadPath[k].op>>
        <5>1. \A a, b : <<a>> = <<b>> => a = b  OBVIOUS
        <5>2. QED  BY <1>10, <3>1, <5>1
      <4>3. CASE own
        <5>1. ~ReadPath[k].amo_id  BY <4>1, <4>3
        <5>2. QED  BY <1>11, <3>1, <4>2, <4>3, <5>1
      <4>4. CASE ~own  BY <1>11, <3>1, <4>1, <4>4
      <4>5. QED  BY <4>3, <4>4
    <3>2. CASE ReadPath'[k].op = i /\ ReadPath'[k].amo_id = own
      BY <1>10, <1>11, <3>2
    <3>3. QED  BY <1>9, <2>4, <3>1, <3>2
  <2>5. QED  BY <1>10, <2>1, <2>2, <2>3, <2>4 DEF ReadOnce
<1>14. QED  BY <1>12, <1>13

LEMMA RoomFor ==
  ASSUME NEW needed, Room(needed)
  PROVE  /\ "read" \in needed => rd_rq_fifo = <<>>
         /\ "write" \in needed => wr_rq_fifo = <<>>
         /\ "amo" \in needed => amo_description = <<>>
<1>1. \A f \in needed \cap {"read", "write", "amo"} :
        CASE f = "read"  -> rd_rq_fifo = <<>>
          [] f = "write" -> wr_rq_fifo = <<>>
          [] f = "amo"   -> amo_description = <<>>
  BY DEF Room
<1>2. QED  BY <1>1

LEMMA ArbiterRead ==
  ASSUME TypeOK, ReadInv, Arbiter
  PROVE  ReadInv'
<1>1. RequestTypes /\ OtherTypes  BY Types
<1>2. CASE compute_read
  <2>1. rd_rq_fifo = <<>> /\ load_queue # <<>>  BY <1>2, RoomFor DEF compute_read, NextIs
  <2>2. ReadersWait' /\ ReadOnce'
    <3>1. /\ load_queue' = Tail(load_queue) /\ rd_rq_fifo' = <<Transfer(Head(load_queue), FALSE)>>
          /\ amo_description' = amo_description
          /\ UNCHANGED <<ops, reading, mem_rd_resp_f_v, reads, rd_rs_fifo>>
      BY <1>2 DEF compute_read, cores, amo
    <3>2. QED  BY <2>1, <3>1, NextAsked
  <2>3. Current' /\ AnswersAreCurrent'
    BY <1>2 DEF compute_read, cores, ReadInv, Current, AnswersAreCurrent, cpu_id, addr, kind
  <2>4. QED  BY <2>2, <2>3 DEF ReadInv
<1>3. CASE compute_amo
  <2>1. rd_rq_fifo = <<>> /\ amo_description = <<>> /\ load_queue # <<>>
    BY <1>3, RoomFor DEF compute_amo, NextIs
  <2>2. ReadersWait' /\ ReadOnce'
    <3>1. /\ load_queue' = Tail(load_queue) /\ rd_rq_fifo' = <<Transfer(Head(load_queue), TRUE)>>
          /\ amo_description' = <<Head(load_queue)>>
          /\ UNCHANGED <<ops, reading, mem_rd_resp_f_v, reads, rd_rs_fifo>>
      BY <1>3 DEF compute_amo, cores
    <3>2. QED  BY <2>1, <3>1, NextAsked
  <2>3. Current' /\ AnswersAreCurrent'
    BY <1>3 DEF compute_amo, cores, ReadInv, Current, AnswersAreCurrent, cpu_id, addr, kind
  <2>4. QED  BY <2>2, <2>3 DEF ReadInv
<1>4. CASE compute_sc
  <2>1. PICK i : i = Head(load_queue)  OBVIOUS
  <2>2. PICK v : v = IF link_lrsc = <<addr(i)>> THEN Stored ELSE Refused  OBVIOUS
  <2>3. /\ load_queue # <<>> /\ load_queue' = Tail(load_queue) /\ kind(i) = "SC"
        /\ mem_rd_resp_f_v' = [mem_rd_resp_f_v EXCEPT ![cpu_id(i)] = <<v>>]
        /\ UNCHANGED <<ops, reading, seen, mem, rd_rs_fifo, ReadPath, amo_description>>
    BY <1>4, <2>1, <2>2 DEF compute_sc, NextIs, cores, ReadPath
  <2>4. /\ i \in Id /\ Waits(i) /\ amo_description # <<i>>
        /\ \A k \in DOMAIN ReadPath : ReadPath[k].op # i
        /\ \A k \in DOMAIN load_queue' : /\ \E j \in DOMAIN load_queue : load_queue'[k] = load_queue[j]
                                         /\ load_queue'[k] # i
        /\ \A j, k \in DOMAIN load_queue' : load_queue'[j] = load_queue'[k] => j = k
    BY <2>1, <2>3, NextRequest
  <2>5. /\ \A j \in Id : Waits(j) /\ j # i => Waits(j)'
        /\ AnswersAreCurrent'
    BY <2>3, <2>4, Answered
  <2>6. /\ \A k \in DOMAIN load_queue : load_queue[k] \in Id
        /\ \A k \in DOMAIN ReadPath : ReadPath[k].op \in Id
        /\ amo_description # <<>> => /\ amo_description[1] \in Id
                                     /\ amo_description = <<amo_description[1]>>
    BY <1>1, KnownRequests, PathIds
  <2>7. ReadersWait'
    <3>1. ASSUME NEW k \in DOMAIN load_queue', NEW j, j = load_queue'[k] PROVE Waits(j)'
      BY <2>4, <2>5, <2>6, <3>1 DEF ReadInv, ReadersWait
    <3>2. ASSUME NEW k \in DOMAIN ReadPath, NEW j, j = ReadPath[k].op PROVE Waits(j)'
      BY <2>4, <2>5, <2>6, <3>2 DEF ReadInv, ReadersWait
    <3>3. ASSUME amo_description # <<>>, NEW j, j = amo_description[1] PROVE Waits(j)'
      BY <2>4, <2>5, <2>6, <3>3 DEF ReadInv, ReadersWait
    <3>4. QED  BY <2>3, <3>1, <3>2, <3>3 DEF ReadersWait, Waits, cpu_id
  <2>8. ReadOnce'  BY <2>3, <2>4 DEF ReadInv, ReadOnce
  <2>9. Current'  BY <2>3 DEF ReadInv, Current, cpu_id, addr
  <2>10. QED  BY <2>5, <2>7, <2>8, <2>9 DEF ReadInv
<1>5. CASE elapse_store_op \/ distribute_write_responses
  <2>1. UNCHANGED <<ops, reading, load_queue, mem_rd_resp_f_v, ReadPath, rd_rs_fifo,
                    amo_description, mem, seen>>
    BY <1>5 DEF elapse_store_op, distribute_write_responses, cores, queues, ReadPath
  <2>2. QED
    BY <2>1 DEF ReadInv, ReadersWait, ReadOnce, Current, AnswersAreCurrent, Waits, cpu_id, addr, kind
<1>6. CASE distribute_read_responses \/ amo_transform_data \/ answer_missed
  <2>1. PICK i : i = rd_rs_fifo[1].op  OBVIOUS
  <2>2. PICK v : v = rd_rs_fifo[1].old  OBVIOUS
  <2>3. /\ rd_rs_fifo # <<>> /\ rd_rs_fifo' = <<>>
        /\ UNCHANGED <<ops, reading, load_queue, reads, rd_rq_fifo, seen, mem>>
    BY <1>6 DEF distribute_read_responses, amo_transform_data, answer_missed, cores, queues
  <2>4. /\ i \in Id /\ Waits(i)
        /\ rd_rs_fifo[1].amo_id <=> amo_description = <<i>>
        /\ \A j \in DOMAIN load_queue : load_queue[j] # i
        /\ \A k \in DOMAIN ReadPath' : /\ \E j \in DOMAIN ReadPath : ReadPath'[k] = ReadPath[j]
                                       /\ ReadPath'[k].op # i
        /\ \A j, k \in DOMAIN ReadPath' : ReadPath'[j].op = ReadPath'[k].op => j = k
        /\ \A j \in DOMAIN load_queue, k \in DOMAIN ReadPath' : load_queue[j] # ReadPath'[k].op
    BY <2>1, <2>3, FirstAnswer
  <2>5. /\ \A k \in DOMAIN load_queue : load_queue[k] \in Id
        /\ \A k \in DOMAIN ReadPath : ReadPath[k].op \in Id
        /\ amo_description # <<>> => /\ amo_description[1] \in Id
                                     /\ amo_description = <<amo_description[1]>>
    BY <1>1, KnownRequests, PathIds
  <2>6. Current'  BY <2>3 DEF ReadInv, Current, cpu_id, addr
  <2>7. v \in seen[cpu_id(i)]  BY <2>1, <2>2, <2>3 DEF ReadInv, Current
  <2>8. CASE answer_missed
    <3>1. UNCHANGED <<mem_rd_resp_f_v, amo_description>>  BY <2>8 DEF answer_missed, amo
    <3>2. ReadersWait'
      <4>1. ASSUME NEW k \in DOMAIN ReadPath', NEW j, j = ReadPath'[k].op PROVE Waits(j)
        BY <2>4, <4>1 DEF ReadInv, ReadersWait
      <4>2. QED  BY <2>3, <3>1, <4>1 DEF ReadInv, ReadersWait, Waits, cpu_id
    <3>3. ReadOnce'  BY <2>3, <2>4, <3>1 DEF ReadInv, ReadOnce
    <3>4. AnswersAreCurrent'  BY <2>3, <3>1 DEF ReadInv, AnswersAreCurrent, kind
    <3>5. QED  BY <2>6, <3>2, <3>3, <3>4 DEF ReadInv
  <2>9. CASE distribute_read_responses \/ amo_transform_data
    <3>1. mem_rd_resp_f_v' = [mem_rd_resp_f_v EXCEPT ![cpu_id(i)] = <<v>>]
      <4>1. CASE distribute_read_responses
        BY <2>1, <2>2, <4>1 DEF distribute_read_responses, receiver
      <4>2. CASE amo_transform_data
        <5>1. amo_description = <<i>>  BY <2>4, <4>2 DEF amo_transform_data
        <5>2. amo_description[1] = i  BY <5>1
        <5>3. QED  BY <2>2, <4>2, <5>2 DEF amo_transform_data
      <4>3. QED  BY <2>9, <4>1, <4>2
    <3>2. /\ amo_description' # <<>> => amo_description' = amo_description /\ amo_description # <<i>>
          /\ \A k \in DOMAIN ReadPath' :
               ReadPath'[k].amo_id <=> amo_description' = <<ReadPath'[k].op>>
      <4>1. \A k \in DOMAIN ReadPath' :
              ReadPath'[k].amo_id <=> amo_description = <<ReadPath'[k].op>>
        BY <2>4 DEF ReadInv, ReadOnce
      <4>2. CASE distribute_read_responses
        BY <2>4, <4>1, <4>2 DEF distribute_read_responses, amo
      <4>3. CASE amo_transform_data
        <5>1. amo_description = <<i>> /\ amo_description' = <<>>
          BY <2>4, <4>3 DEF amo_transform_data
        <5>2. \A k \in DOMAIN ReadPath' : amo_description # <<ReadPath'[k].op>>
          <6>1. \A a, b : <<a>> = <<b>> => a = b  OBVIOUS
          <6>2. QED  BY <2>4, <5>1, <6>1
        <5>3. \A a : <<>> # <<a>>  OBVIOUS
        <5>4. QED  BY <4>1, <5>1, <5>2, <5>3
      <4>4. QED  BY <2>9, <4>2, <4>3
    <3>3. /\ \A j \in Id : Waits(j) /\ j # i => Waits(j)'
          /\ AnswersAreCurrent'
      BY <2>3, <2>4, <2>7, <3>1, Answered
    <3>4. ReadersWait'
      <4>1. ASSUME NEW k \in DOMAIN load_queue, NEW j, j = load_queue[k] PROVE Waits(j)'
        BY <2>4, <2>5, <3>3, <4>1 DEF ReadInv, ReadersWait
      <4>2. ASSUME NEW k \in DOMAIN ReadPath', NEW j, j = ReadPath'[k].op PROVE Waits(j)'
        BY <2>4, <2>5, <3>3, <4>2 DEF ReadInv, ReadersWait
      <4>3. ASSUME amo_description' # <<>>, NEW j, j = amo_description'[1] PROVE Waits(j)'
        <5>1. amo_description = <<j>> /\ j # i /\ j \in Id  BY <2>5, <3>2, <4>3
        <5>2. Waits(j)  BY <3>2, <4>3 DEF ReadInv, ReadersWait
        <5>3. QED  BY <3>3, <5>1, <5>2
      <4>4. QED  BY <2>3, <4>1, <4>2, <4>3 DEF ReadersWait, Waits, cpu_id
    <3>5. ReadOnce'
      <4>1. \A j \in DOMAIN load_queue : amo_description' # <<load_queue[j]>>
        <5>1. \A a : <<>> # <<a>>  OBVIOUS
        <5>2. QED  BY <3>2, <5>1 DEF ReadInv, ReadOnce
      <4>2. QED  BY <2>3, <2>4, <3>2, <4>1 DEF ReadInv, ReadOnce
    <3>6. QED  BY <2>6, <3>3, <3>4, <3>5 DEF ReadInv
  <2>10. QED  BY <1>6, <2>8, <2>9
<1>7. QED  BY <1>2, <1>3, <1>4, <1>5, <1>6 DEF Arbiter

LEMMA MemoryRead ==
  ASSUME TypeOK, ReadInv, Memory
  PROVE  ReadInv'
<1>1. RequestTypes /\ OtherTypes  BY Types
<1>2. UNCHANGED <<ReadPath, ops, reading, load_queue, mem_rd_resp_f_v, amo_description>>
  BY <1>1, MemoryKeepsPaths
     DEF Memory, MemoryTakes, MemoryReads, MemoryWrites, cores, queues, amo
<1>3. ReadersWait' /\ ReadOnce'
  BY <1>2 DEF ReadInv, ReadersWait, ReadOnce, Waits, cpu_id
<1>4. CASE MemoryTakes
  BY <1>2, <1>3, <1>4
     DEF MemoryTakes, ReadInv, Current, AnswersAreCurrent, cpu_id, addr, kind
<1>5. CASE MemoryReads
  <2>1. UNCHANGED <<mem, seen>>  BY <1>5 DEF MemoryReads
  <2>2. PICK i : i = Head(reads).op  OBVIOUS
  <2>3. rd_rs_fifo'[1].op = i /\ rd_rs_fifo'[1].old = mem[addr(i)]
    BY <1>5, <2>2 DEF MemoryReads, Writing
  <2>4. Waits(i) /\ i \in Id
    <3>1. 1 \in DOMAIN ReadPath /\ ReadPath[1] = Bare(Head(reads))
      BY <1>1, <1>5, ReadFirst DEF MemoryReads
    <3>2. ReadPath[1].op = i  BY <2>2, <3>1 DEF Bare
    <3>3. QED  BY <1>1, <3>1, <3>2, PathIds DEF ReadInv, ReadersWait
  <2>5. mem[addr(i)] \in seen[cpu_id(i)]
    <3>1. cpu_id(i) \in Cpu  BY <1>1, <2>4, Ids
    <3>2. reading[cpu_id(i)] = <<i>> /\ <<i>> # <<>> /\ <<i>>[1] = i  BY <2>4 DEF Waits
    <3>3. QED  BY <3>1, <3>2 DEF ReadInv, Current
  <2>6. Current'
    BY <1>2, <2>1, <2>3, <2>5 DEF ReadInv, Current, cpu_id, addr
  <2>7. AnswersAreCurrent'  BY <1>2, <2>1 DEF ReadInv, AnswersAreCurrent, kind
  <2>8. QED  BY <1>3, <2>6, <2>7 DEF ReadInv
<1>6. CASE MemoryWrites
  <2>1. PICK i : i = Head(writes).op  OBVIOUS
  <2>2. /\ mem' = [mem EXCEPT ![addr(i)] = i] /\ rd_rs_fifo' = rd_rs_fifo
        /\ seen' = [c \in Cpu |-> IF Occupies(reading, c, addr(i)) THEN seen[c] \cup {i} ELSE seen[c]]
    BY <1>6, <2>1 DEF MemoryWrites
  <2>3. \A c \in Cpu : seen[c] \subseteq seen'[c]  BY <2>2
  <2>4. DOMAIN mem = Addr /\ \A j \in Id : cpu_id(j) \in Cpu /\ addr(j) \in Addr
    BY <1>1, Ids DEF OtherTypes
  <2>5. ASSUME NEW c \in Cpu, reading[c] # <<>>
        PROVE  cpu_id(reading[c][1]) = c /\ mem'[addr(reading[c][1])] \in seen'[c]
    <3>1. reading[c][1] \in Id  BY <1>1, <2>5, MaybeIs DEF RequestTypes
    <3>2. cpu_id(reading[c][1]) = c /\ mem[addr(reading[c][1])] \in seen[c]
      BY <2>5 DEF ReadInv, Current
    <3>3. CASE addr(reading[c][1]) = addr(i)
      <4>1. mem'[addr(reading[c][1])] = i  BY <2>2, <2>4, <3>1, <3>3
      <4>2. i \in seen'[c]  BY <2>2, <2>5, <3>3 DEF Occupies
      <4>3. QED  BY <3>2, <4>1, <4>2
    <3>4. CASE addr(reading[c][1]) # addr(i)
      <4>1. mem'[addr(reading[c][1])] = mem[addr(reading[c][1])]  BY <2>2, <2>4, <3>1, <3>4
      <4>2. QED  BY <2>3, <3>2, <4>1
    <3>5. QED  BY <3>3, <3>4
  <2>6. rd_rs_fifo # <<>> => rd_rs_fifo[1].old \in seen'[cpu_id(rd_rs_fifo[1].op)]
    <3>1. rd_rs_fifo # <<>> => cpu_id(rd_rs_fifo[1].op) \in Cpu
      BY <1>1, <2>4, ChannelTypes DEF Carried
    <3>2. QED  BY <2>3, <3>1 DEF ReadInv, Current
  <2>7. Current'  BY <1>2, <2>2, <2>5, <2>6 DEF Current, cpu_id, addr
  <2>8. AnswersAreCurrent'  BY <1>2, <2>3 DEF ReadInv, AnswersAreCurrent, kind
  <2>9. QED  BY <1>3, <2>7, <2>8 DEF ReadInv
<1>7. QED  BY <1>4, <1>5, <1>6 DEF Memory

-----------------------------------------------------------------------------
LEMMA CoresWrite ==
  ASSUME TypeOK, WriteInv, NEW c \in Cpu, put_read(c) \/ put_write(c) \/ get_read(c)
  PROVE  WriteInv'
<1>1. RequestTypes  BY Types
<1>2. UNCHANGED WritePath
  BY DEF put_read, put_write, get_read, WritePath
<1>3. /\ \A k \in DOMAIN store_queue : store_queue[k] \in Id
      /\ \A k \in DOMAIN WritePath : WritePath[k].op \in Id
  BY <1>1, KnownRequests, PathIds
<1>4. CASE get_read(c)
  <2>1. UNCHANGED <<ops, storing, store_queue>>  BY <1>4 DEF get_read, queues
  <2>2. QED  BY <1>2, <2>1 DEF WriteInv, WritersWait, WrittenOnce, Stores, cpu_id
<1>5. CASE put_read(c) \/ put_write(c)
  <2>1. PICK r \in build.requests[c] : Ask(c, r)  BY <1>5 DEF put_read, put_write
  <2>2. PICK n : n = Len(ops) + 1  OBVIOUS
  <2>3. /\ n \notin Id /\ (\A i \in Id : ops'[i] = ops[i]) /\ ops'[n].cpu = c
    <3> DEFINE o == [cpu |-> c, kind |-> r.kind, addr |-> r.addr]
    <3>1. r \in Request  BY <1>1, <2>1, Requests, Types
    <3>2. o \in Owner /\ Len(ops) < MaxOps /\ ops' = Append(ops, o) /\ o.cpu = c
      BY <2>1, <3>1 DEF Ask, Owner, Request, Kind
    <3> HIDE DEF o
    <3>3. QED  BY <1>1, <2>2, <3>2, IdsGrow
  <2>4. CASE put_read(c)
    <3>1. UNCHANGED <<storing, store_queue>>  BY <2>4 DEF put_read
    <3>2. \A i \in Id : Stores(i)' = Stores(i)  BY <2>3, <3>1 DEF Stores, cpu_id
    <3>3. WritersWait'  BY <1>2, <1>3, <3>1, <3>2 DEF WriteInv, WritersWait
    <3>4. WrittenOnce'  BY <1>2, <3>1 DEF WriteInv, WrittenOnce
    <3>5. QED  BY <3>3, <3>4 DEF WriteInv
  <2>5. CASE put_write(c)
    <3>1. /\ storing[c] = <<>> /\ storing' = [storing EXCEPT ![c] = <<n>>]
          /\ store_queue' = Append(store_queue, n)
      BY <2>2, <2>5 DEF put_write
    <3>2. DOMAIN storing = Cpu  BY <1>1 DEF RequestTypes
    <3>3. \A i \in Id : Stores(i) => Stores(i)'  BY <2>3, <3>1, <3>2 DEF Stores, cpu_id
    <3>4. Stores(n)'  BY <2>3, <3>1, <3>2 DEF Stores, cpu_id
    <3>5. Joins(store_queue, store_queue', n)
      <4>1. store_queue \in Seq(Id \cup {n})  BY <1>1, SeqMonotonic DEF RequestTypes
      <4>2. QED  BY <3>1, <4>1, QueueMoves
    <3>6. WritersWait'
      <4>1. ASSUME NEW k \in DOMAIN WritePath, NEW t, t = WritePath[k]
            PROVE  t.amo_id \/ Stores(t.op)'
        BY <1>3, <3>3, <4>1 DEF WriteInv, WritersWait
      <4>2. ASSUME NEW k \in DOMAIN store_queue', NEW j, j = store_queue'[k] PROVE Stores(j)'
        <5>1. CASE j = n  BY <3>4, <5>1
        <5>2. CASE j # n
          <6>1. \E i \in DOMAIN store_queue : j = store_queue[i]  BY <3>5, <4>2, <5>2 DEF Joins
          <6>2. QED  BY <1>3, <3>3, <6>1 DEF WriteInv, WritersWait
        <5>3. QED  BY <5>1, <5>2
      <4>3. QED  BY <1>2, <4>1, <4>2 DEF WritersWait, Stores, cpu_id
    <3>7. WrittenOnce'
      <4>1. \A k \in DOMAIN store_queue : store_queue[k] # n  BY <1>3, <2>3
      <4>2. \A k \in DOMAIN WritePath : WritePath[k].op # n  BY <1>3, <2>3
      <4>3. /\ \A j, k \in DOMAIN store_queue' : store_queue'[j] = store_queue'[k] => j = k
            /\ \A j \in DOMAIN store_queue' :
                 store_queue'[j] = n \/ \E k \in DOMAIN store_queue : store_queue'[j] = store_queue[k]
        BY <3>5, <4>1 DEF Joins, WriteInv, WrittenOnce
      <4>4. QED  BY <1>2, <4>2, <4>3 DEF WriteInv, WrittenOnce
    <3>8. QED  BY <3>6, <3>7 DEF WriteInv
  <2>6. QED  BY <1>5, <2>4, <2>5
<1>6. QED  BY <1>4, <1>5

(* A write of the arbiter's own disturbs nothing.                            *)
LEMMA OwnWrite ==
  ASSUME TypeOK, WriteInv, NEW t \in Carried(Id), t.amo_id,
         wr_rq_fifo = <<>>, wr_rq_fifo' = <<t>>,
         UNCHANGED <<ops, storing, store_queue, writes, wr_rs_fifo>>
  PROVE  WriteInv'
<1>1. RequestTypes  BY Types
<1>2. PICK n \in Nat : /\ DOMAIN WritePath = 1 .. n /\ DOMAIN WritePath' = 1 .. n + 1
                       /\ \A k \in 1 .. n : WritePath'[k] = WritePath[k]
                       /\ WritePath'[n + 1] = Bare(t)
  BY <1>1, Asks DEF Joins
<1>3. \A k \in DOMAIN WritePath' : \/ k \in DOMAIN WritePath /\ WritePath'[k] = WritePath[k]
                                   \/ WritePath'[k].amo_id
  BY <1>2 DEF Bare
<1>4. WritersWait'
  <2>1. ASSUME NEW k \in DOMAIN WritePath', NEW t1, t1 = WritePath'[k]
        PROVE  t1.amo_id \/ Stores(t1.op)
    BY <1>3, <2>1 DEF WriteInv, WritersWait
  <2>2. QED  BY <2>1 DEF WriteInv, WritersWait, Stores, cpu_id
<1>5. WrittenOnce'  BY <1>3 DEF WriteInv, WrittenOnce
<1>6. QED  BY <1>4, <1>5 DEF WriteInv

LEMMA ArbiterWrites ==
  ASSUME TypeOK, WriteInv, Arbiter
  PROVE  WriteInv'
<1>1. RequestTypes  BY Types
<1>2. CASE compute_read \/ compute_amo \/ distribute_read_responses \/ answer_missed
  <2>1. UNCHANGED <<ops, storing, store_queue, WritePath>>
    BY <1>2 DEF compute_read, compute_amo, distribute_read_responses, answer_missed,
                cores, queues, WritePath
  <2>2. QED  BY <2>1 DEF WriteInv, WritersWait, WrittenOnce, Stores, cpu_id
<1>3. CASE compute_sc
  <2>1. UNCHANGED <<ops, storing, store_queue, writes, wr_rs_fifo>>
    BY <1>3 DEF compute_sc, cores
  <2>2. PICK i : i = Head(load_queue)  OBVIOUS
  <2>3. i \in Id  BY <1>1, <1>3, <2>2, HeadTypes DEF compute_sc, NextIs
  <2>4. CASE link_lrsc = <<addr(i)>>
    <3>1. wr_rq_fifo = <<>> /\ wr_rq_fifo' = <<Writing(i, TRUE, 0)>>
      BY <1>3, <2>2, <2>4, RoomFor DEF compute_sc
    <3>2. Writing(i, TRUE, 0) \in Carried(Id) /\ Writing(i, TRUE, 0).amo_id
      BY <1>1, <2>3, Ids DEF Writing, Carried
    <3>3. QED  BY <2>1, <3>1, <3>2, OwnWrite
  <2>5. CASE link_lrsc # <<addr(i)>>
    <3>1. wr_rq_fifo' = wr_rq_fifo  BY <1>3, <2>2, <2>5 DEF compute_sc
    <3>2. UNCHANGED WritePath  BY <2>1, <3>1 DEF WritePath
    <3>3. QED  BY <2>1, <3>2 DEF WriteInv, WritersWait, WrittenOnce, Stores, cpu_id
  <2>6. QED  BY <2>4, <2>5
<1>4. CASE amo_transform_data
  <2>1. UNCHANGED <<ops, storing, store_queue, writes, wr_rs_fifo>>
    BY <1>4 DEF amo_transform_data, cores, queues
  <2>2. PICK i : i = amo_description[1]  OBVIOUS
  <2>3. PICK v : v = rd_rs_fifo[1].old  OBVIOUS
  <2>4. i \in Id /\ v \in Value
    BY <1>1, <1>4, <2>2, <2>3, KnownRequests, ChannelTypes DEF amo_transform_data, Carried
  <2>5. CASE kind(i) # "LR"
    <3>1. wr_rq_fifo = <<>> /\ wr_rq_fifo' = <<Writing(i, TRUE, v)>>
      BY <1>4, <2>2, <2>3, <2>5 DEF amo_transform_data, may_transform
    <3>2. Writing(i, TRUE, v) \in Carried(Id) /\ Writing(i, TRUE, v).amo_id
      BY <2>4 DEF Writing, Carried
    <3>3. QED  BY <2>1, <3>1, <3>2, OwnWrite
  <2>6. CASE kind(i) = "LR"
    <3>1. wr_rq_fifo' = wr_rq_fifo  BY <1>4, <2>2, <2>6 DEF amo_transform_data
    <3>2. UNCHANGED WritePath  BY <2>1, <3>1 DEF WritePath
    <3>3. QED  BY <2>1, <3>2 DEF WriteInv, WritersWait, WrittenOnce, Stores, cpu_id
  <2>7. QED  BY <2>5, <2>6
<1>5. CASE elapse_store_op
  <2>1. PICK i : i = Head(store_queue)  OBVIOUS
  <2>2. PICK t : t = Writing(i, FALSE, 0)  OBVIOUS
  <2>3. /\ UNCHANGED <<ops, storing, writes, wr_rs_fifo>>
        /\ store_queue # <<>> /\ store_queue' = Tail(store_queue)
        /\ wr_rq_fifo = <<>> /\ wr_rq_fifo' = <<t>>
    BY <1>5, <2>1, <2>2 DEF elapse_store_op, may_elapse, cores
  <2>4. PICK m \in Nat : /\ DOMAIN store_queue = 1 .. m + 1 /\ DOMAIN store_queue' = 1 .. m
                         /\ \A k \in 1 .. m : store_queue'[k] = store_queue[k + 1]
                         /\ store_queue[1] = i
    BY <1>1, <2>1, <2>3, QueueMoves DEF RequestTypes, Leaves
  <2>5. 1 \in DOMAIN store_queue /\ i \in Id /\ Stores(i)
    BY <1>1, <2>4, KnownRequests DEF WriteInv, WritersWait
  <2>6. t \in Carried(Id) /\ Bare(t).op = i /\ Bare(t).amo_id = FALSE
    BY <1>1, <2>2, <2>5, Ids DEF Writing, Carried, Bare
  <2>7. PICK n \in Nat : /\ DOMAIN WritePath = 1 .. n /\ DOMAIN WritePath' = 1 .. n + 1
                         /\ \A k \in 1 .. n : WritePath'[k] = WritePath[k]
                         /\ WritePath'[n + 1] = Bare(t)
    BY <1>1, <2>3, <2>6, Asks DEF Joins
  <2>8. \A k \in DOMAIN store_queue' : /\ k + 1 \in DOMAIN store_queue /\ k + 1 # 1 /\ k \in Nat
                                       /\ store_queue'[k] = store_queue[k + 1]
    BY <2>4
  <2>9. \A k \in DOMAIN store_queue' : store_queue'[k] # i
    BY <2>4, <2>5, <2>8 DEF WriteInv, WrittenOnce
  <2>10. \A k \in DOMAIN WritePath' : \/ k \in DOMAIN WritePath /\ WritePath'[k] = WritePath[k]
                                      \/ k = n + 1 /\ WritePath'[k].op = i
    BY <2>6, <2>7
  <2>11. WritersWait'
    <3>1. ASSUME NEW k \in DOMAIN WritePath', NEW t1, t1 = WritePath'[k]
          PROVE  t1.amo_id \/ Stores(t1.op)
      BY <2>5, <2>10, <3>1 DEF WriteInv, WritersWait
    <3>2. ASSUME NEW k \in DOMAIN store_queue', NEW j, j = store_queue'[k] PROVE Stores(j)
      BY <2>8, <3>2 DEF WriteInv, WritersWait
    <3>3. QED  BY <2>3, <3>1, <3>2 DEF WritersWait, Stores, cpu_id
  <2>12. WrittenOnce'
    <3>1. \A k \in DOMAIN WritePath : WritePath[k].op = i => WritePath[k].amo_id
      BY <2>4, <2>5 DEF WriteInv, WrittenOnce
    <3>2. \A j, k \in DOMAIN WritePath' :
            WritePath'[j].op = WritePath'[k].op
              => j = k \/ WritePath'[j].amo_id \/ WritePath'[k].amo_id
      BY <2>10, <3>1 DEF WriteInv, WrittenOnce
    <3>3. \A j, k \in DOMAIN store_queue' : store_queue'[j] = store_queue'[k] => j = k
      <4>1. \A j, k \in DOMAIN store_queue' : store_queue'[j] = store_queue'[k] => j + 1 = k + 1
        BY <2>8 DEF WriteInv, WrittenOnce
      <4>2. QED  BY <2>8, <4>1
    <3>4. \A j \in DOMAIN store_queue', k \in DOMAIN WritePath' :
            store_queue'[j] = WritePath'[k].op => WritePath'[k].amo_id
      BY <2>8, <2>9, <2>10 DEF WriteInv, WrittenOnce
    <3>5. QED  BY <3>2, <3>3, <3>4 DEF WrittenOnce
  <2>13. QED  BY <2>11, <2>12 DEF WriteInv
<1>6. CASE distribute_write_responses
  <2>1. PICK t : t = wr_rs_fifo[1]  OBVIOUS
  <2>2. /\ wr_rs_fifo # <<>> /\ wr_rs_fifo' = <<>>
        /\ UNCHANGED <<ops, store_queue, writes, wr_rq_fifo>>
        /\ storing' = [c \in Cpu |-> IF c \in result_writes(t) THEN <<>> ELSE storing[c]]
    BY <1>6, <2>1 DEF distribute_write_responses, queues
  <2>3. PICK n \in Nat : /\ DOMAIN WritePath = 1 .. n + 1 /\ DOMAIN WritePath' = 1 .. n
                         /\ \A k \in 1 .. n : WritePath'[k] = WritePath[k + 1]
                         /\ WritePath[1] = Bare(t)
    BY <1>1, <2>1, <2>2, Takes DEF Leaves
  <2>4. 1 \in DOMAIN WritePath /\ WritePath[1].op = t.op /\ WritePath[1].amo_id = t.amo_id
    BY <2>3 DEF Bare
  <2>5. /\ t.op \in Id /\ t.amo_id \in BOOLEAN
        /\ \A k \in DOMAIN store_queue : store_queue[k] \in Id
        /\ \A k \in DOMAIN WritePath : WritePath[k].op \in Id
    BY <1>1, <2>4, KnownRequests, PathIds
  <2>6. \A k \in DOMAIN WritePath' : /\ k + 1 \in DOMAIN WritePath /\ k + 1 # 1 /\ k \in Nat
                                     /\ WritePath'[k] = WritePath[k + 1]
    BY <2>3
  <2>7. ASSUME NEW j \in Id, Stores(j), t.amo_id \/ j # t.op
        PROVE  storing'[cpu_id(j)] = <<j>>
    <3>1. cpu_id(j) \in Cpu  BY <1>1, Ids
    <3>2. CASE t.amo_id  BY <2>2, <2>7, <3>1, <3>2 DEF Stores, result_writes
    <3>3. CASE ~t.amo_id
      <4>1. storing[cpu_id(t.op)] = <<t.op>>
        BY <2>4, <3>3 DEF WriteInv, WritersWait, Stores
      <4>2. \A a, b : <<a>> = <<b>> => a = b  OBVIOUS
      <4>3. cpu_id(j) # cpu_id(t.op)  BY <2>7, <3>3, <4>1, <4>2 DEF Stores
      <4>4. QED  BY <2>2, <2>7, <3>1, <3>3, <4>3 DEF Stores, result_writes
    <3>4. QED  BY <3>2, <3>3
  <2>8. WritersWait'
    <3>1. ASSUME NEW k \in DOMAIN store_queue, NEW j, j = store_queue[k]
          PROVE  storing'[cpu_id(j)] = <<j>>
      BY <2>4, <2>5, <2>7, <3>1 DEF WriteInv, WritersWait, WrittenOnce
    <3>2. ASSUME NEW k \in DOMAIN WritePath', NEW t1, t1 = WritePath'[k]
          PROVE  t1.amo_id \/ storing'[cpu_id(t1.op)] = <<t1.op>>
      <4>1. t1 = WritePath[k + 1] /\ k + 1 \in DOMAIN WritePath /\ k + 1 # 1  BY <2>6, <3>2
      <4>2. t1.amo_id \/ Stores(t1.op)  BY <4>1 DEF WriteInv, WritersWait
      <4>3. t1.amo_id \/ t.amo_id \/ t1.op # t.op  BY <2>4, <4>1 DEF WriteInv, WrittenOnce
      <4>4. QED  BY <2>5, <2>7, <4>1, <4>2, <4>3
    <3>3. QED  BY <2>2, <3>1, <3>2 DEF WritersWait, Stores, cpu_id
  <2>9. WrittenOnce'
    <3>1. \A j, k \in DOMAIN WritePath' :
            WritePath'[j].op = WritePath'[k].op
              => j + 1 = k + 1 \/ WritePath'[j].amo_id \/ WritePath'[k].amo_id
      BY <2>6 DEF WriteInv, WrittenOnce
    <3>2. \A j, k \in DOMAIN WritePath' :
            WritePath'[j].op = WritePath'[k].op
              => j = k \/ WritePath'[j].amo_id \/ WritePath'[k].amo_id
      BY <2>6, <3>1
    <3>3. \A j \in DOMAIN store_queue, k \in DOMAIN WritePath' :
            store_queue[j] = WritePath'[k].op => WritePath'[k].amo_id
      BY <2>6 DEF WriteInv, WrittenOnce
    <3>4. QED  BY <2>2, <3>2, <3>3 DEF WriteInv, WrittenOnce
  <2>10. QED  BY <2>8, <2>9 DEF WriteInv
<1>7. QED  BY <1>2, <1>3, <1>4, <1>5, <1>6 DEF Arbiter

LEMMA MemoryWritten ==
  ASSUME TypeOK, WriteInv, Memory
  PROVE  WriteInv'
<1>1. RequestTypes  BY Types
<1>2. UNCHANGED <<WritePath, ops, storing, store_queue>>
  BY <1>1, MemoryKeepsPaths
     DEF Memory, MemoryTakes, MemoryReads, MemoryWrites, cores, queues
<1>3. QED  BY <1>2 DEF WriteInv, WritersWait, WrittenOnce, Stores, cpu_id

-----------------------------------------------------------------------------
(* Every request of a processor is in one place on its way through the       *)
(* arbiter and back, and its processor waits for it.                         *)
THEOREM InvariantHolds == Spec => []IInv
<1>1. Init => IInv
  <2> SUFFICES ASSUME Init PROVE ReadInv /\ WriteInv /\ TypeOK  BY DEF IInv
  <2>1. Len(<<>>) = 0 /\ DOMAIN <<>> = {}  OBVIOUS
  <2>2. DOMAIN ReadPath = {} /\ DOMAIN WritePath = {}
    BY <2>1 DEF Init, ReadPath, WritePath, Path
  <2>3. ReadInv
    BY <2>1, <2>2 DEF Init, ReadInv, ReadersWait, ReadOnce, Current, AnswersAreCurrent
  <2>4. WriteInv  BY <2>1, <2>2 DEF Init, WriteInv, WritersWait, WrittenOnce
  <2>5. TypeOK  BY FirstTypes
  <2>6. QED  BY <2>3, <2>4, <2>5
<1>2. IInv /\ [Next]_vars => IInv'
  <2> SUFFICES ASSUME TypeOK, ReadInv, WriteInv, [Next]_vars PROVE (TypeOK /\ ReadInv /\ WriteInv)'
    BY DEF IInv
  <2>1. TypeOK'  BY NextTypes
  <2>2. CASE \E c \in Cpu : put_read(c) \/ put_write(c) \/ get_read(c)
    BY <2>1, <2>2, CoresRead, CoresWrite
  <2>3. CASE Arbiter  BY <2>1, <2>3, ArbiterRead, ArbiterWrites
  <2>4. CASE Memory  BY <2>1, <2>4, MemoryRead, MemoryWritten
  <2>5. CASE UNCHANGED vars
    <3>1. UNCHANGED <<ReadPath, WritePath>>  BY <2>5 DEF vars, ReadPath, WritePath
    <3>2. ReadInv'
      BY <2>5, <3>1 DEF vars, cores, queues, amo, ReadInv, ReadersWait, ReadOnce, Current,
                        AnswersAreCurrent, Waits, cpu_id, addr, kind
    <3>3. WriteInv'
      BY <2>5, <3>1 DEF vars, cores, queues, WriteInv, WritersWait, WrittenOnce, Stores, cpu_id
    <3>4. QED  BY <2>1, <3>2, <3>3
  <2>6. QED  BY <2>2, <2>3, <2>4, <2>5 DEF Next
<1>3. QED  BY <1>1, <1>2, PTL DEF Spec

(* A processor is answered what it asked for, with a value its word has had  *)
(* since.                                                                    *)
THEOREM AnswersCurrent == Spec => []AnswersAreCurrent
<1>1. IInv => AnswersAreCurrent  BY DEF IInv, ReadInv
<1>2. QED  BY <1>1, InvariantHolds, PTL

(* As many requests as there are processors that wait for them.              *)
LEMMA OnePerProcessor ==
  ASSUME RequestTypes, NEW q \in Seq(Id), NEW busy,
         \A k \in DOMAIN q : busy[cpu_id(q[k])] = <<q[k]>>,
         \A j, k \in DOMAIN q : q[j] = q[k] => j = k
  PROVE  Len(q) <= NUM_CPU
<1>1. NUM_CPU \in Nat /\ Len(q) \in Nat /\ DOMAIN q = 1 .. Len(q)
  BY CpuAssumption, LenProperties
<1>2. IsFiniteSet(Cpu) /\ Cardinality(Cpu) = NUM_CPU
  <2>1. IsFiniteSet(0 .. NUM_CPU - 1)
        /\ Cardinality(0 .. NUM_CPU - 1) = IF 0 > NUM_CPU - 1 THEN 0 ELSE NUM_CPU - 1 - 0 + 1
    BY <1>1, FS_Interval
  <2>2. QED  BY <1>1, <2>1 DEF Cpu
<1>3. IsFiniteSet(1 .. Len(q)) /\ Cardinality(1 .. Len(q)) = Len(q)
  <2>1. IsFiniteSet(1 .. Len(q))
        /\ Cardinality(1 .. Len(q)) = IF 1 > Len(q) THEN 0 ELSE Len(q) - 1 + 1
    BY <1>1, FS_Interval
  <2>2. QED  BY <1>1, <2>1
<1> DEFINE f == [k \in 1 .. Len(q) |-> cpu_id(q[k])]
<1>4. f \in [1 .. Len(q) -> Cpu]
  <2>1. \A k \in 1 .. Len(q) : q[k] \in Id  BY ElementOfSeq
  <2>2. QED  BY <2>1, Ids
<1>5. \A j, k \in 1 .. Len(q) : f[j] = f[k] => j = k
  <2> SUFFICES ASSUME NEW j \in 1 .. Len(q), NEW k \in 1 .. Len(q), f[j] = f[k] PROVE j = k
    OBVIOUS
  <2>1. busy[cpu_id(q[j])] = <<q[j]>> /\ busy[cpu_id(q[k])] = <<q[k]>>  BY <1>1
  <2>2. cpu_id(q[j]) = cpu_id(q[k])  OBVIOUS
  <2>3. \A a, b : <<a>> = <<b>> => a = b  OBVIOUS
  <2>4. QED  BY <1>1, <2>1, <2>2, <2>3
<1>6. Len(q) > NUM_CPU =>
        \E j, k \in 1 .. Len(q) : j # k /\ f[j] = f[k]
  <2> HIDE DEF f
  <2> SUFFICES ASSUME Len(q) > NUM_CPU PROVE \E j, k \in 1 .. Len(q) : j # k /\ f[j] = f[k]
    OBVIOUS
  <2>1. Cardinality(Cpu) < Cardinality(1 .. Len(q))  BY <1>1, <1>2, <1>3
  <2>2. QED  BY <1>2, <1>3, <1>4, <2>1, FS_PigeonHole
<1>7. QED  BY <1>1, <1>5, <1>6

(* The queues never hold more than one request of a processor, so that no    *)
(* put finds them full.                                                      *)
THEOREM RoomForAll == Spec => []QueuesHaveRoom
<1>1. IInv => QueuesHaveRoom
  <2> SUFFICES ASSUME IInv PROVE QueuesHaveRoom  OBVIOUS
  <2>1. RequestTypes  BY Types DEF IInv
  <2>2. Len(load_queue) <= NUM_CPU
    <3>1. /\ \A k \in DOMAIN load_queue : reading[cpu_id(load_queue[k])] = <<load_queue[k]>>
          /\ \A j, k \in DOMAIN load_queue : load_queue[j] = load_queue[k] => j = k
      BY DEF IInv, ReadInv, ReadersWait, ReadOnce, Waits
    <3>2. QED  BY <2>1, <3>1, OnePerProcessor DEF RequestTypes
  <2>3. Len(store_queue) <= NUM_CPU
    <3>1. /\ \A k \in DOMAIN store_queue : storing[cpu_id(store_queue[k])] = <<store_queue[k]>>
          /\ \A j, k \in DOMAIN store_queue : store_queue[j] = store_queue[k] => j = k
      BY DEF IInv, WriteInv, WritersWait, WrittenOnce, Stores
    <3>2. QED  BY <2>1, <3>1, OnePerProcessor DEF RequestTypes
  <2>4. QED  BY <2>2, <2>3 DEF QueuesHaveRoom
<1>2. QED  BY <1>1, InvariantHolds, PTL
-----------------------------------------------------------------------------
(* What the arbiter does for itself: AMOs, and the writes of SCs.           *)

(* What is asked for, and which transfers of the channels are whose.        *)
RequestKinds ==
  /\ \A i \in Id : [kind |-> kind(i), addr |-> addr(i)] \in build.requests[cpu_id(i)]
  /\ \A k \in DOMAIN store_queue : kind(store_queue[k]) = "STORE"
  /\ amo_description # <<>> => kind(amo_description[1]) \in {"AMO", "LR"}
  /\ \A k \in DOMAIN ReadPath : ~ReadPath[k].amo_id => kind(ReadPath[k].op) = "LOAD"
  /\ \A k \in DOMAIN WritePath :
       kind(WritePath[k].op) \in IF WritePath[k].amo_id THEN {"AMO", "SC"} ELSE {"STORE"}

(* Everything stalls from the read of an AMO to the answer to its write,    *)
(* which is the only one of its kind.                                       *)
Stalled ==
  /\ ~amo_in_progress => amo_description = <<>>
  /\ \A k \in DOMAIN WritePath : WritePath[k].amo_id =>
       /\ amo_in_progress /\ amo_description = <<>>
       /\ \A j \in DOMAIN WritePath : WritePath[j].amo_id => j = k

(* What the arbiter waits for is on its way, or its answer is lost.         *)
OnItsWay ==
  \/ \E k \in DOMAIN ReadPath : ReadPath[k].amo_id
  \/ \E k \in DOMAIN WritePath : WritePath[k].amo_id

Awaited ==
  /\ amo_in_progress /\ ~lost => OnItsWay
  /\ lost => /\ AGGRESSIVE /\ ~PromptWrites /\ amo_in_progress /\ ~OnItsWay
             /\ amo_description # <<>>

(* When the answer of its read is there, an AMO finds room for its write.   *)
RoomForWrite ==
  /\ ~AGGRESSIVE /\ amo_description # <<>> => wr_rq_fifo = <<>>
  /\ PromptWrites /\ rd_rs_fifo # <<>> /\ rd_rs_fifo[1].amo_id =>
       wr_rq_fifo = <<>> /\ writes = <<>>

AmoInv == RequestKinds /\ Stalled /\ Awaited /\ RoomForWrite

Meets(v, i) == addr(v.op) = addr(i)

(* Between the read of an AMO and its write its word does not change.       *)
WordKept ==
  /\ \A w \in Unperformed : kind(w.op) = "AMO" =>
       mem[addr(w.op)] = w.old /\ \A v \in Unperformed : v = w \/ ~Meets(v, w.op)
  /\ rd_rs_fifo # <<>> /\ kind(rd_rs_fifo[1].op) = "AMO" =>
       /\ mem[addr(rd_rs_fifo[1].op)] = rd_rs_fifo[1].old
       /\ \A v \in Unperformed : ~Meets(v, rd_rs_fifo[1].op)

(* No store meets an access of a kind, or memory performs every write       *)
(* before the reads that are sent after it.                                 *)
Apart(b, k) ==
  \A c, d \in Cpu : \A r \in b.requests[c], s \in b.requests[d] :
    r.kind = "STORE" /\ s.kind = k => r.addr # s.addr

StoresApart(k) == \A b \in Builds : b.PromptWrites \/ Apart(b, k)

(* Stores to a word that memory has still to perform.                       *)
StoresTo(a) == {v \in Unperformed : kind(v.op) = "STORE" /\ addr(v.op) = a}

(* An LR whose read memory has not answered.                                *)
Unread ==
  /\ amo_description # <<>> /\ kind(amo_description[1]) = "LR"
  /\ ~(rd_rs_fifo # <<>> /\ rd_rs_fifo[1].amo_id)

(* As long as there is a link, its word has been read and no store or SC    *)
(* has written to it or is about to.                                        *)
Linked ==
  /\ \A a \in Addr : link_lrsc = <<a>> /\ ~Unread => watched = <<a>> /\ StoresTo(a) = {}
  /\ amo_description # <<>> /\ kind(amo_description[1]) = "LR" =>
       link_lrsc = <<addr(amo_description[1])>>
  /\ \A k \in DOMAIN WritePath : kind(WritePath[k].op) = "SC" => link_lrsc = <<>>
  /\ \A w \in Unperformed : kind(w.op) = "SC" =>
       watched = <<addr(w.op)>> /\ StoresTo(addr(w.op)) = {}

(* What is in a line that x has joined, or left.                            *)
LEMMA JoinsMembers ==
  ASSUME NEW s, NEW t, NEW x, Joins(s, t, x)
  PROVE  /\ \A k \in DOMAIN t : (k \in DOMAIN s /\ t[k] = s[k]) \/ (k \notin DOMAIN s /\ t[k] = x)
         /\ \A k \in DOMAIN s : k \in DOMAIN t /\ t[k] = s[k]
         /\ \E k \in DOMAIN t : t[k] = x
         /\ \A j, k \in DOMAIN t : j \notin DOMAIN s /\ k \notin DOMAIN s => j = k
<1>1. PICK n \in Nat : /\ DOMAIN s = 1 .. n /\ DOMAIN t = 1 .. n + 1
                       /\ \A k \in 1 .. n : t[k] = s[k]
                       /\ t[n + 1] = x
  BY DEF Joins
<1>2. \A k \in 1 .. n + 1 : k \in 1 .. n \/ k = n + 1
  OBVIOUS
<1>3. n + 1 \in 1 .. n + 1 /\ n + 1 \notin 1 .. n /\ 1 .. n \subseteq 1 .. n + 1
  OBVIOUS
<1> QED
  BY <1>1, <1>2, <1>3

LEMMA LeavesMembers ==
  ASSUME NEW s, NEW t, NEW x, Leaves(s, t, x)
  PROVE  /\ \A k \in DOMAIN t : k + 1 \in DOMAIN s /\ k + 1 # 1 /\ k \in Nat /\ t[k] = s[k + 1]
         /\ 1 \in DOMAIN s /\ s[1] = x
         /\ \A j \in DOMAIN s : j = 1 \/ \E k \in DOMAIN t : t[k] = s[j]
<1>1. PICK n \in Nat : /\ DOMAIN s = 1 .. n + 1 /\ DOMAIN t = 1 .. n
                       /\ \A k \in 1 .. n : t[k] = s[k + 1]
                       /\ s[1] = x
  BY DEF Leaves
<1>2. ASSUME NEW j \in DOMAIN s, j # 1
      PROVE  \E k \in DOMAIN t : t[k] = s[j]
  <2>1. j - 1 \in 1 .. n /\ (j - 1) + 1 = j
    BY <1>1, <1>2
  <2> QED
    BY <1>1, <2>1
<1> QED
  BY <1>1, <1>2

(* Which lines an action of the arbiter changes.                            *)
LEMMA LinesMove ==
  ASSUME TypeOK
  PROVE  /\ compute_read =>
              /\ load_queue # <<>> /\ WritePath' = WritePath
              /\ Joins(ReadPath, ReadPath', [op |-> Head(load_queue), amo_id |-> FALSE])
         /\ compute_amo =>
              /\ load_queue # <<>> /\ WritePath' = WritePath /\ rd_rq_fifo = <<>>
              /\ Joins(ReadPath, ReadPath', [op |-> Head(load_queue), amo_id |-> TRUE])
         /\ compute_sc =>
              /\ load_queue # <<>> /\ ReadPath' = ReadPath
              /\ IF link_lrsc = <<addr(Head(load_queue))>>
                 THEN wr_rq_fifo = <<>> /\
                      Joins(WritePath, WritePath', [op |-> Head(load_queue), amo_id |-> TRUE])
                 ELSE WritePath' = WritePath
         /\ elapse_store_op =>
              /\ ReadPath' = ReadPath
              /\ Joins(WritePath, WritePath', [op |-> Head(store_queue), amo_id |-> FALSE])
         /\ distribute_read_responses \/ answer_missed =>
              /\ Leaves(ReadPath, ReadPath', Bare(rd_rs_fifo[1])) /\ WritePath' = WritePath
         /\ amo_transform_data =>
              /\ Leaves(ReadPath, ReadPath', Bare(rd_rs_fifo[1]))
              /\ IF kind(amo_description[1]) = "LR"
                 THEN WritePath' = WritePath
                 ELSE Joins(WritePath, WritePath', [op |-> amo_description[1], amo_id |-> TRUE])
         /\ distribute_write_responses =>
              /\ ReadPath' = ReadPath /\ Leaves(WritePath, WritePath', Bare(wr_rs_fifo[1]))
         /\ Memory \/ UNCHANGED vars \/ (\E c \in Cpu : put_read(c) \/ put_write(c) \/ get_read(c)) =>
              UNCHANGED <<ReadPath, WritePath>>
<1>1. RequestTypes /\ OtherTypes
  BY Types
<1>2. load_queue # <<>> => Head(load_queue) \in Id
  BY <1>1, HeadTypes
<1>3. \A i \in Id, own \in BOOLEAN :
        /\ Transfer(i, own) \in Sent(Id)
        /\ Bare(Transfer(i, own)) = [op |-> i, amo_id |-> own]
  BY DEF Transfer, Sent, Bare
<1>4. \A i \in Id, own \in BOOLEAN, v \in Value :
        /\ Writing(i, own, v) \in Carried(Id)
        /\ Bare(Writing(i, own, v)) = [op |-> i, amo_id |-> own]
  BY DEF Writing, Carried, Bare
<1>5. /\ 0 \in Value
      /\ rd_rs_fifo # <<>> => rd_rs_fifo[1].old \in Value
  BY <1>1, Ids, ChannelTypes DEF Carried
<1>6. ASSUME NEW i \in Id, NEW own \in BOOLEAN, rd_rq_fifo = <<>>,
             rd_rq_fifo' = <<Transfer(i, own)>>, UNCHANGED <<reads, rd_rs_fifo>>
      PROVE  Joins(ReadPath, ReadPath', [op |-> i, amo_id |-> own])
  <2>1. PICK x : x = Transfer(i, own)
    OBVIOUS
  <2> QED
    BY <1>1, <1>3, <1>6, <2>1, Asks
<1>7. ASSUME NEW i \in Id, NEW own \in BOOLEAN, NEW v \in Value, wr_rq_fifo = <<>>,
             wr_rq_fifo' = <<Writing(i, own, v)>>, UNCHANGED <<writes, wr_rs_fifo>>
      PROVE  Joins(WritePath, WritePath', [op |-> i, amo_id |-> own])
  <2>1. PICK x : x = Writing(i, own, v)
    OBVIOUS
  <2> QED
    BY <1>1, <1>4, <1>7, <2>1, Asks
<1>8. ASSUME compute_read
      PROVE  /\ load_queue # <<>> /\ WritePath' = WritePath
             /\ Joins(ReadPath, ReadPath', [op |-> Head(load_queue), amo_id |-> FALSE])
  <2>1. /\ load_queue # <<>> /\ WritePath' = WritePath /\ rd_rq_fifo = <<>>
        /\ rd_rq_fifo' = <<Transfer(Head(load_queue), FALSE)>> /\ UNCHANGED <<reads, rd_rs_fifo>>
    BY <1>8, RoomFor DEF compute_read, NextIs, WritePath
  <2> QED
    BY <1>2, <1>6, <2>1
<1>9. ASSUME compute_amo
      PROVE  /\ load_queue # <<>> /\ WritePath' = WritePath /\ rd_rq_fifo = <<>>
             /\ Joins(ReadPath, ReadPath', [op |-> Head(load_queue), amo_id |-> TRUE])
  <2>1. /\ load_queue # <<>> /\ WritePath' = WritePath /\ rd_rq_fifo = <<>>
        /\ rd_rq_fifo' = <<Transfer(Head(load_queue), TRUE)>> /\ UNCHANGED <<reads, rd_rs_fifo>>
    BY <1>9, RoomFor DEF compute_amo, NextIs, WritePath
  <2> QED
    BY <1>2, <1>6, <2>1
<1>10. ASSUME compute_sc
       PROVE  /\ load_queue # <<>> /\ ReadPath' = ReadPath
              /\ IF link_lrsc = <<addr(Head(load_queue))>>
                 THEN wr_rq_fifo = <<>> /\
                      Joins(WritePath, WritePath', [op |-> Head(load_queue), amo_id |-> TRUE])
                 ELSE WritePath' = WritePath
  <2>1. /\ load_queue # <<>> /\ ReadPath' = ReadPath /\ UNCHANGED <<writes, wr_rs_fifo>>
        /\ wr_rq_fifo' = IF link_lrsc = <<addr(Head(load_queue))>>
                         THEN <<Writing(Head(load_queue), TRUE, 0)>> ELSE wr_rq_fifo
        /\ Room(IF link_lrsc = <<addr(Head(load_queue))>> THEN {"write"} ELSE {})
    BY <1>10 DEF compute_sc, NextIs, ReadPath
  <2>2. CASE link_lrsc = <<addr(Head(load_queue))>>
    <3>1. wr_rq_fifo = <<>> /\ wr_rq_fifo' = <<Writing(Head(load_queue), TRUE, 0)>>
      BY <2>1, <2>2, RoomFor
    <3> QED
      BY <1>2, <1>5, <1>7, <2>1, <2>2, <3>1
  <2>3. CASE link_lrsc # <<addr(Head(load_queue))>>
    BY <2>1, <2>3 DEF WritePath
  <2> QED
    BY <2>2, <2>3
<1>11. ASSUME elapse_store_op
       PROVE  /\ ReadPath' = ReadPath
              /\ Joins(WritePath, WritePath', [op |-> Head(store_queue), amo_id |-> FALSE])
  <2>1. /\ ReadPath' = ReadPath /\ UNCHANGED <<writes, wr_rs_fifo>> /\ store_queue # <<>>
        /\ wr_rq_fifo = <<>> /\ wr_rq_fifo' = <<Writing(Head(store_queue), FALSE, 0)>>
    BY <1>11 DEF elapse_store_op, may_elapse, ReadPath
  <2>2. Head(store_queue) \in Id
    BY <1>1, <2>1, HeadTailProperties DEF RequestTypes
  <2> QED
    BY <1>5, <1>7, <2>1, <2>2
<1>12. ASSUME distribute_read_responses \/ answer_missed
       PROVE  Leaves(ReadPath, ReadPath', Bare(rd_rs_fifo[1])) /\ WritePath' = WritePath
  <2>1. /\ rd_rs_fifo # <<>> /\ rd_rs_fifo' = <<>> /\ UNCHANGED <<reads, rd_rq_fifo>>
        /\ WritePath' = WritePath
    BY <1>12 DEF distribute_read_responses, answer_missed, WritePath
  <2> QED
    BY <1>1, <2>1, Takes
<1>13. ASSUME amo_transform_data
       PROVE  /\ Leaves(ReadPath, ReadPath', Bare(rd_rs_fifo[1]))
              /\ IF kind(amo_description[1]) = "LR"
                 THEN WritePath' = WritePath
                 ELSE Joins(WritePath, WritePath', [op |-> amo_description[1], amo_id |-> TRUE])
  <2>1. PICK i : i = amo_description[1]
    OBVIOUS
  <2>2. /\ rd_rs_fifo # <<>> /\ rd_rs_fifo' = <<>> /\ UNCHANGED <<reads, rd_rq_fifo, writes, wr_rs_fifo>>
        /\ wr_rq_fifo' = IF kind(i) = "LR" THEN wr_rq_fifo ELSE <<Writing(i, TRUE, rd_rs_fifo[1].old)>>
        /\ wr_rq_fifo # <<>> => kind(i) = "LR"
        /\ i \in Id
    BY <1>1, <1>13, <2>1, KnownRequests DEF amo_transform_data, may_transform
  <2>3. Leaves(ReadPath, ReadPath', Bare(rd_rs_fifo[1]))
    BY <1>1, <2>2, Takes
  <2>4. CASE kind(i) = "LR"
    BY <2>1, <2>2, <2>3, <2>4 DEF WritePath
  <2>5. CASE kind(i) # "LR"
    BY <1>5, <1>7, <2>1, <2>2, <2>3, <2>5
  <2> QED
    BY <2>4, <2>5
<1>14. ASSUME distribute_write_responses
       PROVE  ReadPath' = ReadPath /\ Leaves(WritePath, WritePath', Bare(wr_rs_fifo[1]))
  <2>1. /\ wr_rs_fifo # <<>> /\ wr_rs_fifo' = <<>> /\ UNCHANGED <<writes, wr_rq_fifo>>
        /\ ReadPath' = ReadPath
    BY <1>14 DEF distribute_write_responses, ReadPath
  <2> QED
    BY <1>1, <2>1, Takes
<1>15. ASSUME UNCHANGED vars \/ (\E c \in Cpu : put_read(c) \/ put_write(c) \/ get_read(c))
       PROVE  UNCHANGED <<ReadPath, WritePath>>
  BY <1>15 DEF vars, put_read, put_write, get_read, ReadPath, WritePath
<1> QED
  BY <1>1, <1>8, <1>9, <1>10, <1>11, <1>12, <1>13, <1>14, <1>15, MemoryKeepsPaths

(* Requests are made, and stay.                                             *)
LEMMA RequestsStay ==
  ASSUME TypeOK, [Next]_vars
  PROVE  /\ build' = build /\ Id \subseteq Id' /\ \A i \in Id : ops'[i] = ops[i]
         /\ \/ ops' = ops
            \/ \E c \in Cpu : \E r \in build.requests[c] :
                 /\ Id' = Id \cup {Len(ops) + 1}
                 /\ ops'[Len(ops) + 1] = [cpu |-> c, kind |-> r.kind, addr |-> r.addr]
                 /\ put_read(c) \/ (put_write(c) /\ r.kind = "STORE")
<1>1. RequestTypes /\ OtherTypes
  BY Types
<1>2. CASE UNCHANGED vars \/ Arbiter \/ Memory \/ \E c \in Cpu : get_read(c)
  <2>1. UNCHANGED <<build, ops>>
    BY <1>2 DEF vars, cores, get_read, Arbiter, Memory, MemoryTakes, MemoryReads, MemoryWrites,
                compute_read, compute_amo, compute_sc, elapse_store_op, distribute_read_responses,
                amo_transform_data, answer_missed, distribute_write_responses
  <2> QED
    BY <2>1 DEF Id
<1>3. ASSUME NEW c \in Cpu, put_read(c) \/ put_write(c)
      PROVE  /\ build' = build /\ Id \subseteq Id' /\ \A i \in Id : ops'[i] = ops[i]
             /\ \E r \in build.requests[c] :
                 /\ Id' = Id \cup {Len(ops) + 1}
                 /\ ops'[Len(ops) + 1] = [cpu |-> c, kind |-> r.kind, addr |-> r.addr]
                 /\ put_read(c) \/ (put_write(c) /\ r.kind = "STORE")
  <2>1. PICK r \in build.requests[c] : Ask(c, r) /\ (put_read(c) \/ (put_write(c) /\ r.kind = "STORE"))
    BY <1>3 DEF put_read, put_write
  <2>2. r \in Request
    BY <1>1, <2>1, Requests
  <2>3. PICK o : o = [cpu |-> c, kind |-> r.kind, addr |-> r.addr]
    OBVIOUS
  <2>4. o \in Owner /\ Len(ops) < MaxOps /\ ops' = Append(ops, o)
    BY <2>1, <2>2, <2>3 DEF Ask, Owner, Request, Kind
  <2>5. /\ Id' = Id \cup {Len(ops) + 1} /\ \A i \in Id : ops'[i] = ops[i]
        /\ ops'[Len(ops) + 1] = o
    BY <1>1, <2>4, IdsGrow
  <2>6. build' = build
    BY <1>3 DEF put_read, put_write
  <2> QED
    BY <2>1, <2>3, <2>5, <2>6
<1> QED
  BY <1>2, <1>3 DEF Next

(* The queue of stores changes by what is asked for and what goes on.       *)
LEMMA StoresMove ==
  ASSUME TypeOK, [Next]_vars, NEW k \in DOMAIN store_queue'
  PROVE  \/ \E j \in DOMAIN store_queue : store_queue'[k] = store_queue[j]
         \/ /\ store_queue'[k] = Len(ops) + 1
            /\ \E c \in Cpu : put_write(c)
<1>1. RequestTypes
  BY Types
<1>2. CASE \E c \in Cpu : put_write(c)
  <2>1. PICK n : n = Len(ops) + 1
    OBVIOUS
  <2>2. store_queue' = Append(store_queue, n) /\ store_queue \in Seq(Id \cup {n})
    BY <1>1, <1>2, <2>1, SeqMonotonic DEF put_write, RequestTypes
  <2>3. Joins(store_queue, store_queue', n)
    BY <2>2, QueueMoves
  <2> QED
    BY <1>2, <2>1, <2>3, JoinsMembers
<1>3. CASE elapse_store_op
  <2>1. store_queue # <<>> /\ store_queue' = Tail(store_queue)
    BY <1>3 DEF elapse_store_op
  <2>2. Leaves(store_queue, store_queue', Head(store_queue))
    BY <1>1, <2>1, QueueMoves DEF RequestTypes
  <2> QED
    BY <2>2, LeavesMembers
<1>4. CASE store_queue' = store_queue
  BY <1>4
<1>5. store_queue' = store_queue \/ elapse_store_op \/ \E c \in Cpu : put_write(c)
  BY DEF Next, vars, queues, put_read, get_read, Arbiter, Memory, MemoryTakes, MemoryReads,
         MemoryWrites, compute_read, compute_amo, compute_sc, distribute_read_responses,
         amo_transform_data, answer_missed, distribute_write_responses
<1> QED
  BY <1>2, <1>3, <1>4, <1>5

(* What is asked for stays within what its processor may ask for, and each  *)
(* channel carries its kinds.                                               *)
LEMMA KindsStep ==
  ASSUME TypeOK, RequestKinds, [Next]_vars
  PROVE  RequestKinds'
<1>1. RequestTypes /\ OtherTypes
  BY Types
<1>2. /\ build' = build /\ Id \subseteq Id' /\ \A i \in Id : ops'[i] = ops[i]
      /\ \/ ops' = ops
         \/ \E c \in Cpu : \E r \in build.requests[c] :
              /\ Id' = Id \cup {Len(ops) + 1}
              /\ ops'[Len(ops) + 1] = [cpu |-> c, kind |-> r.kind, addr |-> r.addr]
              /\ put_read(c) \/ (put_write(c) /\ r.kind = "STORE")
  BY RequestsStay
<1>3. /\ \A k \in DOMAIN store_queue : store_queue[k] \in Id
      /\ \A k \in DOMAIN ReadPath : ReadPath[k].op \in Id
      /\ \A k \in DOMAIN WritePath : WritePath[k].op \in Id
      /\ amo_description # <<>> => amo_description[1] \in Id
      /\ load_queue # <<>> => Head(load_queue) \in Id
  BY <1>1, KnownRequests, PathIds, HeadTypes
<1>4. ASSUME NEW i \in Id'
      PROVE  [kind |-> ops'[i].kind, addr |-> ops'[i].addr] \in build.requests[ops'[i].cpu]
  <2>1. CASE i \in Id
    BY <1>2, <2>1 DEF RequestKinds, kind, addr, cpu_id
  <2>2. CASE i \notin Id
    <3>0. PICK c \in Cpu : \E r \in build.requests[c] :
            ops'[i] = [cpu |-> c, kind |-> r.kind, addr |-> r.addr]
      BY <1>2, <1>4, <2>2 DEF Id
    <3>1. PICK r \in build.requests[c] : ops'[i] = [cpu |-> c, kind |-> r.kind, addr |-> r.addr]
      BY <3>0
    <3>2. r \in Request
      BY <1>1, <3>1, Requests
    <3>3. r = [kind |-> r.kind, addr |-> r.addr]
      BY <3>2 DEF Request
    <3>4. ops'[i].cpu = c /\ ops'[i].kind = r.kind /\ ops'[i].addr = r.addr
      BY <3>1
    <3> QED
      BY <3>3, <3>4
  <2> QED
    BY <2>1, <2>2
<1>5. ASSUME NEW k \in DOMAIN store_queue', NEW j, j = store_queue'[k]
      PROVE  ops'[j].kind = "STORE"
  <2>1. CASE \E l \in DOMAIN store_queue : j = store_queue[l]
    BY <1>2, <1>3, <2>1 DEF RequestKinds, kind
  <2>2. CASE j = Len(ops) + 1 /\ \E c \in Cpu : put_write(c)
    <3>1. ops' # ops
      <4>1. ops' = Append(ops, ops'[j]) \/ Len(ops') = Len(ops) + 1
        BY <1>1, <2>2 DEF put_write, Ask, RequestTypes
      <4> QED
        BY <1>1, <4>1, LenProperties DEF RequestTypes
    <3>2. ~\E c \in Cpu : put_read(c)
      BY <1>1, <2>2, LenProperties DEF put_read, put_write, RequestTypes
    <3>3. PICK c \in Cpu : \E r \in build.requests[c] :
            ops'[Len(ops) + 1] = [cpu |-> c, kind |-> r.kind, addr |-> r.addr] /\ r.kind = "STORE"
      BY <1>2, <3>1, <3>2
    <3> QED
      BY <2>2, <3>3
  <2> QED
    BY <1>5, <2>1, <2>2, StoresMove
<1>6. ASSUME amo_description' # <<>>, NEW j, j = amo_description'[1]
      PROVE  ops'[j].kind \in {"AMO", "LR"}
  <2>1. CASE amo_description' = amo_description
    BY <1>2, <1>3, <1>6, <2>1 DEF RequestKinds, kind
  <2>2. CASE compute_amo
    <3>1. /\ amo_description' = <<Head(load_queue)>> /\ load_queue # <<>> /\ ops' = ops
          /\ kind(Head(load_queue)) \in {"AMO", "LR"}
      BY <2>2 DEF compute_amo, NextIs, cores
    <3> QED
      BY <1>6, <3>1 DEF kind
  <2>3. amo_description' = amo_description \/ amo_description' = <<>> \/ compute_amo
    BY DEF Next, vars, amo, put_read, put_write, get_read, Arbiter, Memory, MemoryTakes, MemoryReads,
           MemoryWrites, compute_read, compute_sc, elapse_store_op, distribute_read_responses,
           amo_transform_data, answer_missed, distribute_write_responses
  <2> QED
    BY <1>6, <2>1, <2>2, <2>3
<1>7. ASSUME NEW k \in DOMAIN ReadPath', NEW t, t = ReadPath'[k], ~t.amo_id
      PROVE  ops'[t.op].kind = "LOAD"
  <2>1. CASE \E l \in DOMAIN ReadPath : t = ReadPath[l]
    BY <1>2, <1>3, <1>7, <2>1 DEF RequestKinds, kind
  <2>2. CASE compute_read
    <3>1. kind(Head(load_queue)) = "LOAD" /\ ops' = ops
      BY <2>2 DEF compute_read, NextIs, cores
    <3>2. (\E l \in DOMAIN ReadPath : t = ReadPath[l]) \/ t.op = Head(load_queue)
      BY <1>7, <2>2, LinesMove, JoinsMembers
    <3> QED
      BY <2>1, <3>1, <3>2 DEF kind
  <2>3. CASE compute_amo
    BY <1>7, <2>1, <2>3, LinesMove, JoinsMembers
  <2>4. CASE distribute_read_responses \/ answer_missed \/ amo_transform_data
    BY <1>7, <2>1, <2>4, LinesMove, LeavesMembers
  <2>5. CASE ReadPath' = ReadPath
    BY <1>7, <2>1, <2>5
  <2> QED
    BY <2>2, <2>3, <2>4, <2>5, LinesMove DEF Next, Arbiter
<1>8. ASSUME NEW k \in DOMAIN WritePath', NEW t, t = WritePath'[k]
      PROVE  ops'[t.op].kind \in IF t.amo_id THEN {"AMO", "SC"} ELSE {"STORE"}
  <2>1. CASE \E l \in DOMAIN WritePath : t = WritePath[l]
    BY <1>2, <1>3, <2>1 DEF RequestKinds, kind
  <2>2. CASE WritePath' = WritePath
    BY <1>8, <2>1, <2>2
  <2>3. CASE compute_sc
    <3>1. kind(Head(load_queue)) = "SC" /\ ops' = ops
      BY <2>3 DEF compute_sc, NextIs, cores
    <3>2. \/ \E l \in DOMAIN WritePath : t = WritePath[l]
          \/ t.op = Head(load_queue) /\ t.amo_id
      BY <1>8, <2>2, <2>3, LinesMove, JoinsMembers
    <3> QED
      BY <2>1, <3>1, <3>2 DEF kind
  <2>4. CASE amo_transform_data
    <3>1. kind(amo_description[1]) \in {"AMO", "LR"} /\ ops' = ops
      BY <2>4 DEF amo_transform_data, cores, RequestKinds
    <3>2. \/ \E l \in DOMAIN WritePath : t = WritePath[l]
          \/ t.op = amo_description[1] /\ t.amo_id /\ kind(t.op) # "LR"
      BY <1>8, <2>2, <2>4, LinesMove, JoinsMembers
    <3> QED
      BY <2>1, <3>1, <3>2 DEF kind
  <2>5. CASE elapse_store_op
    <3>1. kind(Head(store_queue)) = "STORE" /\ ops' = ops
      <4>1. store_queue # <<>> /\ store_queue' = Tail(store_queue) /\ ops' = ops
        BY <2>5 DEF elapse_store_op, cores
      <4>2. Leaves(store_queue, Tail(store_queue), Head(store_queue))
        BY <1>1, <4>1, QueueMoves DEF RequestTypes
      <4> QED
        BY <4>1, <4>2, LeavesMembers DEF RequestKinds
    <3>2. \/ \E l \in DOMAIN WritePath : t = WritePath[l]
          \/ t.op = Head(store_queue) /\ ~t.amo_id
      BY <1>8, <2>5, LinesMove, JoinsMembers
    <3> QED
      BY <2>1, <3>1, <3>2 DEF kind
  <2>6. CASE distribute_write_responses
    BY <1>8, <2>1, <2>6, LinesMove, LeavesMembers
  <2> QED
    BY <2>2, <2>3, <2>4, <2>5, <2>6, LinesMove DEF Next, Arbiter
<1> QED
  BY <1>2, <1>4, <1>5, <1>6, <1>7, <1>8 DEF RequestKinds, kind, addr, cpu_id

(* The first answer to a write is that to the first of the line.            *)
LEMMA FirstWritten ==
  ASSUME TypeOK, distribute_write_responses
  PROVE  /\ 1 \in DOMAIN WritePath /\ WritePath[1].amo_id = wr_rs_fifo[1].amo_id
         /\ WritePath[1].op = wr_rs_fifo[1].op
         /\ \A k \in DOMAIN WritePath' : /\ k + 1 \in DOMAIN WritePath /\ k + 1 # 1 /\ k \in Nat
                                         /\ WritePath'[k] = WritePath[k + 1]
         /\ \A j \in DOMAIN WritePath : j = 1 \/ \E k \in DOMAIN WritePath' : WritePath'[k] = WritePath[j]
<1>1. PICK t : t = wr_rs_fifo[1]
  OBVIOUS
<1>2. PICK x : x = Bare(t)
  OBVIOUS
<1>3. x.op = t.op /\ x.amo_id = t.amo_id
  BY <1>2 DEF Bare
<1>4. Leaves(WritePath, WritePath', x)
  BY <1>1, <1>2, LinesMove
<1> QED
  BY <1>1, <1>3, <1>4, LeavesMembers

(* An access of the arbiter's own stays in a line, unless it is the one     *)
(* that leaves.                                                             *)
LEMMA OwnStays ==
  ASSUME NEW s, NEW t, NEW x
  PROVE  /\ Joins(s, t, x) /\ (x.amo_id \/ \E k \in DOMAIN s : s[k].amo_id) =>
              \E k \in DOMAIN t : t[k].amo_id
         /\ Leaves(s, t, x) /\ ~x.amo_id /\ (\E k \in DOMAIN s : s[k].amo_id) =>
              \E k \in DOMAIN t : t[k].amo_id
<1>1. ASSUME Joins(s, t, x), x.amo_id
      PROVE  \E k \in DOMAIN t : t[k].amo_id
  <2>1. PICK k \in DOMAIN t : t[k] = x
    BY <1>1, JoinsMembers
  <2> QED
    BY <1>1, <2>1
<1>2. ASSUME Joins(s, t, x), NEW k \in DOMAIN s, s[k].amo_id
      PROVE  \E j \in DOMAIN t : t[j].amo_id
  <2>1. k \in DOMAIN t /\ t[k] = s[k]
    BY <1>2, JoinsMembers
  <2> QED
    BY <1>2, <2>1
<1>3. ASSUME Leaves(s, t, x), ~x.amo_id, NEW k \in DOMAIN s, s[k].amo_id
      PROVE  \E j \in DOMAIN t : t[j].amo_id
  <2>1. k # 1
    BY <1>3, LeavesMembers
  <2>2. PICK j \in DOMAIN t : t[j] = s[k]
    BY <1>3, <2>1, LeavesMembers
  <2> QED
    BY <1>3, <2>2
<1> QED
  BY <1>1, <1>2, <1>3

(* A line without one gets one only by what joins.                          *)
LEMMA NoneJoins ==
  ASSUME NEW s, NEW t, NEW x, \A k \in DOMAIN s : ~s[k].amo_id,
         \/ Joins(s, t, x) /\ ~x.amo_id
         \/ Leaves(s, t, x)
  PROVE  \A k \in DOMAIN t : ~t[k].amo_id
<1>1. CASE Joins(s, t, x) /\ ~x.amo_id
  BY <1>1, JoinsMembers
<1>2. CASE Leaves(s, t, x)
  BY <1>2, LeavesMembers
<1> QED
  BY <1>1, <1>2

(* The arbiter stalls for one access of its own.                            *)
LEMMA StalledStep ==
  ASSUME TypeOK, Stalled, [Next]_vars
  PROVE  Stalled'
<1> DEFINE NoOwn == \A k \in DOMAIN WritePath : ~WritePath[k].amo_id
<1>1. /\ ~amo_in_progress => amo_description = <<>> /\ NoOwn
      /\ amo_description # <<>> => NoOwn
  BY DEF Stalled
<1>2. ASSUME NoOwn,
             \/ WritePath' = WritePath /\ (~amo_in_progress' => amo_description' = <<>>)
             \/ /\ \E x : Joins(WritePath, WritePath', x)
                /\ amo_in_progress' /\ amo_description' = <<>>
      PROVE  Stalled'
  BY <1>2, JoinsMembers DEF Stalled
<1>3. CASE /\ WritePath' = WritePath
           /\ UNCHANGED <<amo_in_progress, amo_description>>
  BY <1>3 DEF Stalled
<1>4. CASE compute_read \/ distribute_read_responses \/ answer_missed
  BY <1>3, <1>4, LinesMove DEF compute_read, distribute_read_responses, answer_missed, amo
<1>5. CASE compute_amo
  BY <1>1, <1>2, <1>5, LinesMove DEF compute_amo, NextIs
<1>6. CASE compute_sc
  <2>1. /\ ~amo_in_progress /\ amo_description' = amo_description
        /\ amo_in_progress' = (link_lrsc = <<addr(Head(load_queue))>>)
    BY <1>6 DEF compute_sc, NextIs
  <2> QED
    BY <1>1, <1>2, <1>6, <2>1, LinesMove
<1>7. CASE elapse_store_op
  <2>1. ~amo_in_progress /\ UNCHANGED <<amo_in_progress, amo_description>>
    BY <1>7 DEF elapse_store_op, may_elapse
  <2>2. \A k \in DOMAIN WritePath' : ~WritePath'[k].amo_id
    BY <1>1, <1>7, <2>1, LinesMove, JoinsMembers
  <2> QED
    BY <1>1, <2>1, <2>2 DEF Stalled
<1>8. CASE amo_transform_data
  <2>1. /\ amo_description # <<>> /\ amo_description' = <<>>
        /\ amo_in_progress' = (kind(amo_description[1]) # "LR")
    BY <1>8 DEF amo_transform_data
  <2> QED
    BY <1>1, <1>2, <1>8, <2>1, LinesMove
<1>9. CASE distribute_write_responses
  <2>1. /\ amo_description' = amo_description
        /\ amo_in_progress' = (amo_in_progress /\ ~wr_rs_fifo[1].amo_id)
    BY <1>9 DEF distribute_write_responses, write_amo
  <2>2. CASE wr_rs_fifo[1].amo_id
    <3>1. amo_description = <<>> /\ \A j \in DOMAIN WritePath : WritePath[j].amo_id => j = 1
      BY <1>9, <2>2, FirstWritten DEF Stalled
    <3>2. \A k \in DOMAIN WritePath' : ~WritePath'[k].amo_id
      BY <1>9, <3>1, FirstWritten
    <3> QED
      BY <2>1, <3>1, <3>2 DEF Stalled
  <2>3. CASE ~wr_rs_fifo[1].amo_id
    <3>1. amo_in_progress' = amo_in_progress
      BY <2>1, <2>3, Types DEF OtherTypes
    <3>2. \A j, k \in DOMAIN WritePath' :
            WritePath'[j].amo_id /\ WritePath'[k].amo_id => j + 1 = k + 1
      BY <1>9, FirstWritten DEF Stalled
    <3>3. \A j, k \in DOMAIN WritePath' : j + 1 = k + 1 => j = k
      BY <1>9, FirstWritten
    <3>4. \A k \in DOMAIN WritePath' : WritePath'[k].amo_id => amo_in_progress /\ amo_description = <<>>
      BY <1>9, FirstWritten DEF Stalled
    <3> QED
      BY <2>1, <3>1, <3>2, <3>3, <3>4 DEF Stalled
  <2> QED
    BY <2>2, <2>3
<1>10. CASE Memory \/ UNCHANGED vars \/ \E c \in Cpu : put_read(c) \/ put_write(c) \/ get_read(c)
  <2>1. UNCHANGED amo
    BY <1>10 DEF Memory, MemoryTakes, MemoryReads, MemoryWrites, vars, put_read, put_write, get_read
  <2> QED
    BY <1>3, <1>10, <2>1, LinesMove DEF amo
<1> QED
  BY <1>4, <1>5, <1>6, <1>7, <1>8, <1>9, <1>10 DEF Next, Arbiter

(* An AMO finds room for its write.                                         *)
LEMMA RoomStep ==
  ASSUME TypeOK, ReadInv, Stalled, RoomForWrite, [Next]_vars
  PROVE  RoomForWrite'
<1>1. RequestTypes /\ OtherTypes
  BY Types
<1>2. rd_rs_fifo # <<>> /\ rd_rs_fifo[1].amo_id => amo_description # <<>> /\ amo_in_progress
  <2>1. rd_rs_fifo # <<>> => 1 \in DOMAIN ReadPath /\ ReadPath[1] = Bare(rd_rs_fifo[1])
    BY <1>1, ReadFirst
  <2>2. \A a : <<>> # <<a>>
    OBVIOUS
  <2> QED
    BY <2>1, <2>2 DEF ReadInv, ReadOnce, Bare, Stalled
<1>3. build' = build
  BY RequestsStay
<1>4. CASE /\ amo_description' \in {<<>>, amo_description} /\ rd_rs_fifo' \in {<<>>, rd_rs_fifo}
           /\ wr_rq_fifo' \in {<<>>, wr_rq_fifo}
           /\ writes' = writes
  BY <1>3, <1>4 DEF RoomForWrite, AGGRESSIVE, PromptWrites
<1>5. CASE compute_read \/ distribute_read_responses \/ answer_missed \/ distribute_write_responses
           \/ UNCHANGED vars \/ \E c \in Cpu : put_read(c) \/ put_write(c) \/ get_read(c)
  BY <1>4, <1>5 DEF compute_read, distribute_read_responses, answer_missed,
                    distribute_write_responses, vars, amo, put_read, put_write, get_read
<1>6. CASE compute_amo
  <2>1. ~amo_in_progress /\ UNCHANGED <<rd_rs_fifo, wr_rq_fifo, writes>> /\ Room({"read", "amo"})
    BY <1>6 DEF compute_amo, NextIs
  <2>2. ~AGGRESSIVE => wr_rq_fifo = <<>>
    <3>1. ASSUME ~AGGRESSIVE
          PROVE  \A f \in {"read", "write", "amo"} :
                   CASE f = "read"  -> rd_rq_fifo = <<>>
                     [] f = "write" -> wr_rq_fifo = <<>>
                     [] f = "amo"   -> amo_description = <<>>
      BY <2>1, <3>1 DEF Room
    <3> QED
      BY <3>1
  <2>3. ~(rd_rs_fifo # <<>> /\ rd_rs_fifo[1].amo_id)
    BY <1>2, <2>1
  <2> QED
    BY <1>3, <2>1, <2>2, <2>3 DEF RoomForWrite, AGGRESSIVE, PromptWrites
<1>7. CASE compute_sc \/ elapse_store_op
  <2>1. ~amo_in_progress /\ UNCHANGED <<rd_rs_fifo, amo_description>>
    BY <1>7 DEF compute_sc, elapse_store_op, may_elapse, NextIs
  <2>2. amo_description' = <<>> /\ ~(rd_rs_fifo' # <<>> /\ rd_rs_fifo'[1].amo_id)
    BY <1>2, <2>1 DEF Stalled
  <2> QED
    BY <2>2 DEF RoomForWrite
<1>8. CASE amo_transform_data
  BY <1>8 DEF amo_transform_data, RoomForWrite
<1>9. CASE MemoryTakes
  <2>1. /\ UNCHANGED <<rd_rs_fifo, amo_description>>
        /\ wr_rq_fifo' \in {<<>>, wr_rq_fifo}
        /\ writes' = writes \/ wr_rq_fifo # <<>>
    BY <1>9 DEF MemoryTakes, amo
  <2> QED
    BY <1>3, <2>1 DEF RoomForWrite, AGGRESSIVE, PromptWrites
<1>10. CASE MemoryReads
  <2>1. /\ UNCHANGED <<wr_rq_fifo, writes, amo_description>>
        /\ PromptWrites => wr_rq_fifo = <<>> /\ writes = <<>>
    BY <1>10 DEF MemoryReads, amo
  <2> QED
    BY <1>3, <2>1 DEF RoomForWrite, AGGRESSIVE, PromptWrites
<1>11. CASE MemoryWrites
  <2>1. UNCHANGED <<wr_rq_fifo, rd_rs_fifo, amo_description>> /\ writes # <<>>
    BY <1>11 DEF MemoryWrites, amo
  <2> QED
    BY <1>3, <2>1 DEF RoomForWrite, AGGRESSIVE, PromptWrites
<1> QED
  BY <1>5, <1>6, <1>7, <1>8, <1>9, <1>10, <1>11 DEF Next, Arbiter, Memory

(* An answer is dropped only in a build that lets an AMO start without room *)
(* for its write.                                                           *)
LEMMA DropsWhere ==
  ASSUME TypeOK, ReadInv, Stalled, RoomForWrite, answer_missed
  PROVE  /\ AGGRESSIVE /\ ~PromptWrites /\ amo_in_progress /\ amo_description # <<>>
         /\ \A k \in DOMAIN ReadPath' : ~ReadPath'[k].amo_id
         /\ \A k \in DOMAIN WritePath' : ~WritePath'[k].amo_id
<1>1. RequestTypes /\ OtherTypes
  BY Types
<1>2. /\ rd_rs_fifo # <<>> /\ rd_rs_fifo[1].amo_id
      /\ ~(amo_description # <<>> /\ may_transform(amo_description[1]))
  BY DEF answer_missed
<1>3. PICK i : i = rd_rs_fifo[1].op
  OBVIOUS
<1>4. 1 \in DOMAIN ReadPath /\ ReadPath[1].op = i /\ ReadPath[1].amo_id
  <2>1. 1 \in DOMAIN ReadPath /\ ReadPath[1] = Bare(rd_rs_fifo[1])
    BY <1>1, <1>2, ReadFirst
  <2> QED
    BY <1>2, <1>3, <2>1 DEF Bare
<1>5. amo_description = <<i>> /\ Waits(i)
  BY <1>4 DEF ReadInv, ReadOnce, ReadersWait
<1>6. amo_description[1] = i /\ amo_description # <<>> /\ amo_in_progress
  BY <1>5 DEF Stalled
<1>7. wr_rq_fifo # <<>>
  BY <1>2, <1>5, <1>6 DEF may_transform, Waits
<1>8. AGGRESSIVE /\ ~PromptWrites
  BY <1>2, <1>6, <1>7 DEF RoomForWrite
<1>9. \A k \in DOMAIN ReadPath : ReadPath[k].amo_id => k = 1
  <2>1. \A a, b : <<a>> = <<b>> => a = b
    OBVIOUS
  <2> QED
    BY <1>4, <1>5, <2>1 DEF ReadInv, ReadOnce
<1>10. \A k \in DOMAIN ReadPath' : ~ReadPath'[k].amo_id
  <2>1. Leaves(ReadPath, ReadPath', Bare(rd_rs_fifo[1]))
    BY LinesMove
  <2> QED
    BY <1>9, <2>1, LeavesMembers
<1>11. \A k \in DOMAIN WritePath' : ~WritePath'[k].amo_id
  BY <1>6, LinesMove DEF Stalled
<1> QED
  BY <1>6, <1>8, <1>10, <1>11

(* What the arbiter waits for is on its way until its answer is dropped.    *)
LEMMA AwaitedStep ==
  ASSUME TypeOK, ReadInv, Stalled, RoomForWrite, Awaited, [Next]_vars
  PROVE  Awaited'
<1>1. RequestTypes /\ OtherTypes
  BY Types
<1>2. build' = build
  BY RequestsStay
<1>3. CASE answer_missed
  <2>1. lost' = TRUE /\ UNCHANGED amo
    BY <1>3 DEF answer_missed
  <2> QED
    BY <1>2, <1>3, <2>1, DropsWhere DEF Awaited, OnItsWay, AGGRESSIVE, PromptWrites, amo
<1>4. CASE lost /\ ~answer_missed
  <2>1. /\ AGGRESSIVE /\ ~PromptWrites /\ amo_in_progress /\ amo_description # <<>>
        /\ \A k \in DOMAIN ReadPath : ~ReadPath[k].amo_id
        /\ \A k \in DOMAIN WritePath : ~WritePath[k].amo_id
    BY <1>4 DEF Awaited, OnItsWay
  <2>2. SUFFICES /\ lost' = lost /\ amo_in_progress' /\ amo_description' # <<>>
                 /\ \A k \in DOMAIN ReadPath' : ~ReadPath'[k].amo_id
                 /\ \A k \in DOMAIN WritePath' : ~WritePath'[k].amo_id
    BY <1>2, <1>4, <2>1 DEF Awaited, OnItsWay, AGGRESSIVE, PromptWrites
  <2>3. ~(rd_rs_fifo # <<>> /\ rd_rs_fifo[1].amo_id)
    <3>1. rd_rs_fifo # <<>> => 1 \in DOMAIN ReadPath /\ ReadPath[1] = Bare(rd_rs_fifo[1])
      BY <1>1, ReadFirst
    <3> QED
      BY <2>1, <3>1 DEF Bare
  <2>4. ~compute_read /\ ~compute_amo /\ ~compute_sc /\ ~elapse_store_op /\ ~amo_transform_data
    BY <2>1, <2>3 DEF compute_read, compute_amo, compute_sc, NextIs, elapse_store_op, may_elapse,
                      amo_transform_data
  <2>5. CASE distribute_read_responses
    <3>1. UNCHANGED <<amo_in_progress, amo_description, lost>>
      BY <2>5 DEF distribute_read_responses, amo
    <3> QED
      BY <2>1, <2>5, <3>1, LinesMove, NoneJoins
  <2>6. CASE distribute_write_responses
    <3>1. UNCHANGED <<amo_description, lost>>
          /\ amo_in_progress' = (amo_in_progress /\ ~wr_rs_fifo[1].amo_id)
      BY <2>6 DEF distribute_write_responses, write_amo
    <3>2. ~wr_rs_fifo[1].amo_id
      BY <2>1, <2>6, FirstWritten
    <3> QED
      BY <2>1, <2>6, <3>1, <3>2, LinesMove, NoneJoins
  <2>7. CASE Memory \/ UNCHANGED vars \/ \E c \in Cpu : put_read(c) \/ put_write(c) \/ get_read(c)
    <3>1. UNCHANGED <<amo_in_progress, amo_description, lost>>
      BY <2>7 DEF Memory, MemoryTakes, MemoryReads, MemoryWrites, vars, amo, put_read, put_write, get_read
    <3>2. UNCHANGED <<ReadPath, WritePath>>
      BY <2>7, LinesMove
    <3> QED
      BY <2>1, <3>1, <3>2
  <2> QED
    BY <1>4, <2>4, <2>5, <2>6, <2>7 DEF Next, Arbiter
<1>5. CASE ~lost /\ ~answer_missed
  <2>1. lost' = lost
    BY <1>5 DEF Next, Arbiter, Memory, MemoryTakes, MemoryReads, MemoryWrites, vars, put_read, put_write,
                get_read, compute_read, compute_amo, compute_sc, elapse_store_op,
                distribute_read_responses, amo_transform_data, distribute_write_responses
  <2>2. SUFFICES ASSUME amo_in_progress'
                 PROVE  \/ \E k \in DOMAIN ReadPath' : ReadPath'[k].amo_id
                        \/ \E k \in DOMAIN WritePath' : WritePath'[k].amo_id
    BY <1>5, <2>1 DEF Awaited, OnItsWay
  <2>3. CASE compute_amo
    BY <2>3, LinesMove, OwnStays
  <2>4. CASE compute_sc
    <3>1. link_lrsc = <<addr(Head(load_queue))>>
      BY <2>2, <2>4 DEF compute_sc
    <3> QED
      BY <2>4, <3>1, LinesMove, OwnStays
  <2>5. CASE amo_transform_data
    <3>1. kind(amo_description[1]) # "LR"
      BY <2>2, <2>5 DEF amo_transform_data
    <3> QED
      BY <2>5, <3>1, LinesMove, OwnStays
  <2>6. amo_in_progress =>
          \/ \E k \in DOMAIN ReadPath : ReadPath[k].amo_id
          \/ \E k \in DOMAIN WritePath : WritePath[k].amo_id
    BY <1>5 DEF Awaited, OnItsWay
  <2>7. ~compute_read /\ ~elapse_store_op
    BY <2>2 DEF compute_read, elapse_store_op, NextIs, may_elapse, amo
  <2>8. CASE distribute_read_responses
    <3>1. amo_in_progress' = amo_in_progress /\ ~Bare(rd_rs_fifo[1]).amo_id
      BY <2>8 DEF distribute_read_responses, amo, Bare
    <3> QED
      BY <2>2, <2>6, <2>8, <3>1, LinesMove, OwnStays
  <2>9. CASE distribute_write_responses
    <3>1. amo_in_progress /\ ~wr_rs_fifo[1].amo_id
      BY <2>2, <2>9 DEF distribute_write_responses, write_amo
    <3> QED
      BY <2>6, <2>9, <3>1, LinesMove, FirstWritten
  <2>10. CASE Memory \/ UNCHANGED vars \/ \E c \in Cpu : put_read(c) \/ put_write(c) \/ get_read(c)
    <3>1. UNCHANGED amo
      BY <2>10 DEF Memory, MemoryTakes, MemoryReads, MemoryWrites, vars, put_read, put_write, get_read
    <3> QED
      BY <2>2, <2>6, <2>10, <3>1, LinesMove DEF amo
  <2> QED
    BY <1>5, <2>3, <2>4, <2>5, <2>7, <2>8, <2>9, <2>10 DEF Next, Arbiter
<1> QED
  BY <1>3, <1>4, <1>5

(* Counting the accesses of the arbiter's own along a line.                 *)
LEMMA OwnCount ==
  ASSUME NEW S, NEW p \in Seq(S), NEW T, NEW q \in Seq(T), NEW r \in Seq(T)
  PROVE  /\ (\A k \in DOMAIN Path(p, q, r) : ~Path(p, q, r)[k].amo_id) =>
              Cardinality(Own(p)) = 0 /\ Cardinality(Own(q)) = 0 /\ Cardinality(Own(r)) = 0
         /\ \A k \in DOMAIN Path(p, q, r) :
              Path(p, q, r)[k].amo_id /\ (\A j \in DOMAIN Path(p, q, r) : Path(p, q, r)[j].amo_id => j = k)
                => Cardinality(Own(p)) + Cardinality(Own(q)) + Cardinality(Own(r)) = 1
<1>1. /\ Len(p) \in Nat /\ DOMAIN p = 1 .. Len(p) /\ Len(q) \in Nat /\ DOMAIN q = 1 .. Len(q)
      /\ Len(r) \in Nat /\ DOMAIN r = 1 .. Len(r)
  BY LenProperties
<1>2. PICK l, m, n : l = Len(p) /\ m = Len(q) /\ n = Len(r)
  OBVIOUS
<1>3. PICK P : P = Path(p, q, r)
  OBVIOUS
<1>4. DOMAIN P = 1 .. l + m + n
  BY <1>2, <1>3 DEF Path
<1>5. \A k \in 1 .. l : k \in 1 .. l + m + n /\ P[k].amo_id = p[k].amo_id
  BY <1>1, <1>2, <1>3 DEF Path, Bare
<1>6. ASSUME NEW k \in 1 .. m
      PROVE  k + l \in 1 .. l + m + n /\ P[k + l].amo_id = q[k].amo_id
  <2>1. /\ k + l \in 1 .. l + m + n /\ ~(k + l <= l) /\ k + l <= l + m /\ (k + l) - l = k
    BY <1>1, <1>2, <1>6
  <2> QED
    BY <1>2, <1>3, <2>1 DEF Path, Bare
<1>7. ASSUME NEW k \in 1 .. n
      PROVE  k + l + m \in 1 .. l + m + n /\ P[k + l + m].amo_id = r[k].amo_id
  <2>1. /\ k + l + m \in 1 .. l + m + n /\ ~(k + l + m <= l) /\ ~(k + l + m <= l + m)
        /\ (k + l + m) - l - m = k
    BY <1>1, <1>2, <1>7
  <2> QED
    BY <1>2, <1>3, <2>1 DEF Path, Bare
<1>8. Cardinality({}) = 0 /\ \A x : Cardinality({x}) = 1
  BY FS_EmptySet, FS_Singleton
<1>9. ASSUME \A k \in DOMAIN P : ~P[k].amo_id
      PROVE  Cardinality(Own(p)) = 0 /\ Cardinality(Own(q)) = 0 /\ Cardinality(Own(r)) = 0
  <2>1. Own(p) = {} /\ Own(q) = {} /\ Own(r) = {}
    BY <1>1, <1>2, <1>4, <1>5, <1>6, <1>7, <1>9 DEF Own
  <2> QED
    BY <1>8, <2>1
<1>10. ASSUME NEW k \in DOMAIN P, P[k].amo_id, \A j \in DOMAIN P : P[j].amo_id => j = k
       PROVE  Cardinality(Own(p)) + Cardinality(Own(q)) + Cardinality(Own(r)) = 1
  <2>1. /\ Own(p) = {j \in 1 .. l : P[j].amo_id} /\ Own(q) = {j \in 1 .. m : P[j + l].amo_id}
        /\ Own(r) = {j \in 1 .. n : P[j + l + m].amo_id}
    BY <1>1, <1>2, <1>5, <1>6, <1>7 DEF Own
  <2>2. /\ \A j \in 1 .. l : P[j].amo_id <=> j = k
        /\ \A j \in 1 .. m : P[j + l].amo_id <=> j + l = k
        /\ \A j \in 1 .. n : P[j + l + m].amo_id <=> j + l + m = k
    BY <1>4, <1>5, <1>6, <1>7, <1>10
  <2>3. l \in Nat /\ m \in Nat /\ n \in Nat /\ k \in 1 .. l + m + n
    BY <1>1, <1>2, <1>4, <1>10
  <2>7. /\ Own(p) = {j \in 1 .. l : j = k} /\ Own(q) = {j \in 1 .. m : j + l = k}
        /\ Own(r) = {j \in 1 .. n : j + l + m = k}
    BY <2>1, <2>2, Zenon
  <2>8. \A a, b, c : /\ a = 1 /\ b = 0 /\ c = 0 => a + b + c = 1
                     /\ a = 0 /\ b = 1 /\ c = 0 => a + b + c = 1
                     /\ a = 0 /\ b = 0 /\ c = 1 => a + b + c = 1
    OBVIOUS
  <2>4. CASE k <= l
    <3>1. {j \in 1 .. l : j = k} = {k}
      BY <2>3, <2>4
    <3>2. {j \in 1 .. m : j + l = k} = {} /\ {j \in 1 .. n : j + l + m = k} = {}
      BY <2>3, <2>4
    <3>3. Cardinality(Own(p)) = 1 /\ Cardinality(Own(q)) = 0 /\ Cardinality(Own(r)) = 0
      BY <1>8, <2>7, <3>1, <3>2, Zenon
    <3> QED
      BY <2>8, <3>3
  <2>5. CASE k > l /\ k <= l + m
    <3>1. {j \in 1 .. m : j + l = k} = {k - l}
      BY <2>3, <2>5
    <3>2. {j \in 1 .. l : j = k} = {} /\ {j \in 1 .. n : j + l + m = k} = {}
      BY <2>3, <2>5
    <3>3. Cardinality(Own(p)) = 0 /\ Cardinality(Own(q)) = 1 /\ Cardinality(Own(r)) = 0
      BY <1>8, <2>7, <3>1, <3>2, Zenon
    <3> QED
      BY <2>8, <3>3
  <2>6. CASE k > l + m
    <3>1. {j \in 1 .. n : j + l + m = k} = {k - l - m}
      BY <2>3, <2>6
    <3>2. {j \in 1 .. l : j = k} = {} /\ {j \in 1 .. m : j + l = k} = {}
      BY <2>3, <2>6
    <3>3. Cardinality(Own(p)) = 0 /\ Cardinality(Own(q)) = 0 /\ Cardinality(Own(r)) = 1
      BY <1>8, <2>7, <3>1, <3>2, Zenon
    <3> QED
      BY <2>8, <3>3
  <2> QED
    BY <2>3, <2>4, <2>5, <2>6
<1> QED
  BY <1>3, <1>9, <1>10

(* The arbiter stalls for an access that is on its way, and has no other.   *)
LEMMA OneTransfer ==
  ASSUME IInv, Stalled, Awaited
  PROVE  AmoOnItsWay
<1>1. RequestTypes
  BY Types DEF IInv
<1> DEFINE R == Cardinality(Own(rd_rs_fifo)) + Cardinality(Own(reads)) + Cardinality(Own(rd_rq_fifo))
           W == Cardinality(Own(wr_rs_fifo)) + Cardinality(Own(writes)) + Cardinality(Own(wr_rq_fifo))
<1>2. /\ (\A k \in DOMAIN ReadPath : ~ReadPath[k].amo_id) =>
           Cardinality(Own(rd_rs_fifo)) = 0 /\ Cardinality(Own(reads)) = 0 /\ Cardinality(Own(rd_rq_fifo)) = 0
      /\ \A k \in DOMAIN ReadPath :
           ReadPath[k].amo_id /\ (\A j \in DOMAIN ReadPath : ReadPath[j].amo_id => j = k) => R = 1
  BY <1>1, ChannelTypes, OwnCount DEF ReadPath
<1>3. /\ (\A k \in DOMAIN WritePath : ~WritePath[k].amo_id) =>
           Cardinality(Own(wr_rs_fifo)) = 0 /\ Cardinality(Own(writes)) = 0 /\ Cardinality(Own(wr_rq_fifo)) = 0
      /\ \A k \in DOMAIN WritePath :
           WritePath[k].amo_id /\ (\A j \in DOMAIN WritePath : WritePath[j].amo_id => j = k) => W = 1
  BY <1>1, ChannelTypes, OwnCount DEF WritePath
<1>4. \A k \in DOMAIN ReadPath : ReadPath[k].amo_id =>
        amo_description # <<>> /\ \A j \in DOMAIN ReadPath : ReadPath[j].amo_id => j = k
  <2>1. \A a, b : (<<a>> = <<b>> => a = b) /\ <<a>> # <<>>
    OBVIOUS
  <2> QED
    BY <2>1 DEF IInv, ReadInv, ReadOnce
<1>7. /\ Cardinality(Own(rd_rs_fifo)) \in Nat /\ Cardinality(Own(reads)) \in Nat
      /\ Cardinality(Own(rd_rq_fifo)) \in Nat /\ Cardinality(Own(wr_rs_fifo)) \in Nat
      /\ Cardinality(Own(writes)) \in Nat /\ Cardinality(Own(wr_rq_fifo)) \in Nat
  <2>1. ASSUME NEW S, NEW s \in Seq(S)
        PROVE  Cardinality(Own(s)) \in Nat
    <3>1. Own(s) \subseteq 1 .. Len(s) /\ Len(s) \in Nat
      BY LenProperties DEF Own
    <3>2. IsFiniteSet(1 .. Len(s))
      BY <3>1, FS_Interval
    <3> QED
      BY <3>1, <3>2, FS_Subset, FS_CardinalityType
  <2> QED
    BY <1>1, <2>1, ChannelTypes
<1>5. ASSUME ~lost, amo_in_progress
      PROVE  OwnTransfers = 1
  <2>1. CASE \E k \in DOMAIN WritePath : WritePath[k].amo_id
    <3>1. W = 1 /\ amo_description = <<>>
      BY <1>3, <2>1 DEF Stalled
    <3>2. Cardinality(Own(rd_rs_fifo)) = 0 /\ Cardinality(Own(reads)) = 0 /\ Cardinality(Own(rd_rq_fifo)) = 0
      BY <1>2, <1>4, <3>1
    <3> QED
      BY <3>1, <3>2, <1>7 DEF OwnTransfers
  <2>2. CASE \E k \in DOMAIN ReadPath : ReadPath[k].amo_id
    <3>1. R = 1 /\ amo_description # <<>>
      BY <1>2, <1>4, <2>2
    <3>2. Cardinality(Own(wr_rs_fifo)) = 0 /\ Cardinality(Own(writes)) = 0 /\ Cardinality(Own(wr_rq_fifo)) = 0
      BY <1>3, <3>1 DEF Stalled
    <3> QED
      BY <3>1, <3>2, <1>7 DEF OwnTransfers
  <2> QED
    BY <1>5, <2>1, <2>2 DEF Awaited, OnItsWay
<1>6. ASSUME ~amo_in_progress
      PROVE  OwnTransfers = 0
  <2>1. amo_description = <<>> /\ \A k \in DOMAIN WritePath : ~WritePath[k].amo_id
    BY <1>6 DEF Stalled
  <2> QED
    BY <1>2, <1>3, <1>4, <2>1 DEF OwnTransfers
<1>8. ASSUME lost
      PROVE  OwnTransfers = 0 /\ amo_in_progress /\ AGGRESSIVE /\ ~PromptWrites
  <2>1. /\ \A k \in DOMAIN ReadPath : ~ReadPath[k].amo_id
        /\ \A k \in DOMAIN WritePath : ~WritePath[k].amo_id
        /\ amo_in_progress /\ AGGRESSIVE /\ ~PromptWrites
    BY <1>8 DEF Awaited, OnItsWay
  <2> QED
    BY <1>2, <1>3, <2>1 DEF OwnTransfers
<1> QED
  BY <1>5, <1>6, <1>8 DEF AmoOnItsWay

-----------------------------------------------------------------------------
(* The elements of a channel.                                               *)
LEMMA ChannelElements ==
  ASSUME NEW S, NEW s \in Seq(S)
  PROVE  /\ \A k \in 1 .. Len(s) : s[k] \in S
         /\ s # <<>> => /\ Head(s) = s[1] /\ 1 \in 1 .. Len(s)
                        /\ \A k \in 1 .. Len(Tail(s)) :
                             k + 1 \in 1 .. Len(s) /\ k + 1 # 1 /\ Tail(s)[k] = s[k + 1]
<1>1. Len(s) \in Nat /\ \A k \in 1 .. Len(s) : s[k] \in S
  BY LenProperties, ElementOfSeq
<1>2. ASSUME s # <<>>
      PROVE  /\ Head(s) = s[1] /\ 1 \in 1 .. Len(s)
             /\ \A k \in 1 .. Len(Tail(s)) :
                  k + 1 \in 1 .. Len(s) /\ k + 1 # 1 /\ Tail(s)[k] = s[k + 1]
  <2>1. /\ Len(Tail(s)) = Len(s) - 1 /\ \A k \in 1 .. Len(Tail(s)) : Tail(s)[k] = s[k + 1]
        /\ Head(s) = s[1] /\ Len(s) # 0
    BY <1>2, HeadTailProperties, EmptySeq
  <2> QED
    BY <1>1, <2>1
<1> QED
  BY <1>1, <1>2

(* The writes that are not performed are in their line.                     *)
LEMMA UnperformedIs ==
  ASSUME RequestTypes, NEW w \in Unperformed
  PROVE  w \in Carried(Id) /\ w.op \in Id /\ \E k \in DOMAIN WritePath : WritePath[k] = Bare(w)
<1>1. /\ wr_rs_fifo \in Seq(Sent(Id)) /\ wr_rq_fifo \in Seq(Carried(Id)) /\ writes \in Seq(Carried(Id))
  BY ChannelTypes
<1>2. PICK l, m, n : l = Len(wr_rs_fifo) /\ m = Len(writes) /\ n = Len(wr_rq_fifo)
  OBVIOUS
<1>3. l \in Nat /\ m \in Nat /\ n \in Nat /\ DOMAIN WritePath = 1 .. l + m + n
  BY <1>1, <1>2, LenProperties DEF WritePath, Path
<1>4. CASE \E k \in 1 .. n : w = wr_rq_fifo[k]
  <2>1. PICK k \in 1 .. n : w = wr_rq_fifo[k]
    BY <1>4
  <2>2. /\ k + l + m \in 1 .. l + m + n /\ ~(k + l + m <= l) /\ ~(k + l + m <= l + m)
        /\ (k + l + m) - l - m = k
    BY <1>3
  <2>3. WritePath[k + l + m] = Bare(w)
    BY <1>2, <2>1, <2>2 DEF WritePath, Path
  <2>4. w \in Carried(Id)
    BY <1>1, <1>2, <2>1, ChannelElements
  <2>5. w.op \in Id
    BY <2>4 DEF Carried
  <2> QED
    BY <1>3, <2>2, <2>3, <2>4, <2>5
<1>5. CASE \E k \in 1 .. m : w = writes[k]
  <2>1. PICK k \in 1 .. m : w = writes[k]
    BY <1>5
  <2>2. /\ k + l \in 1 .. l + m + n /\ ~(k + l <= l) /\ k + l <= l + m /\ (k + l) - l = k
    BY <1>3
  <2>3. WritePath[k + l] = Bare(w)
    BY <1>2, <2>1, <2>2 DEF WritePath, Path
  <2>4. w \in Carried(Id)
    BY <1>1, <1>2, <2>1, ChannelElements
  <2>5. w.op \in Id
    BY <2>4 DEF Carried
  <2> QED
    BY <1>3, <2>2, <2>3, <2>4, <2>5
<1> QED
  BY <1>2, <1>4, <1>5 DEF Unperformed

(* Memory performs the first write of the line; the others stay.            *)
LEMMA FirstPerformed ==
  ASSUME RequestTypes, MemoryWrites
  PROVE  /\ Head(writes) \in Unperformed
         /\ 1 \in DOMAIN WritePath /\ WritePath[1] = Bare(Head(writes))
         /\ \A v \in Unperformed' : /\ v \in Unperformed
                                    /\ \E k \in DOMAIN WritePath : k # 1 /\ WritePath[k] = Bare(v)
<1>1. /\ wr_rs_fifo = <<>> /\ writes # <<>> /\ writes' = Tail(writes) /\ wr_rq_fifo' = wr_rq_fifo
      /\ wr_rq_fifo \in Seq(Carried(Id)) /\ writes \in Seq(Carried(Id))
  BY ChannelTypes DEF MemoryWrites
<1>2. PICK m, n : m = Len(writes) /\ n = Len(wr_rq_fifo)
  OBVIOUS
<1>3. /\ m \in Nat /\ n \in Nat /\ Len(wr_rs_fifo) = 0
      /\ Head(writes) = writes[1] /\ 1 \in 1 .. m
      /\ \A k \in 1 .. Len(Tail(writes)) :
           k + 1 \in 1 .. m /\ k + 1 # 1 /\ Tail(writes)[k] = writes[k + 1]
  BY <1>1, <1>2, LenProperties, ChannelElements
<1>4. /\ DOMAIN WritePath = 1 .. m + n
      /\ \A k \in 1 .. m : k \in 1 .. m + n /\ WritePath[k] = Bare(writes[k])
      /\ \A k \in 1 .. n : k + m \in 1 .. m + n /\ k + m # 1 /\ WritePath[k + m] = Bare(wr_rq_fifo[k])
  <2>1. DOMAIN WritePath = 1 .. m + n
    BY <1>2, <1>3 DEF WritePath, Path
  <2>2. ASSUME NEW k \in 1 .. m
        PROVE  k \in 1 .. m + n /\ WritePath[k] = Bare(writes[k])
    <3>1. k \in 1 .. m + n /\ ~(k <= 0) /\ k <= 0 + m /\ k - 0 = k
      BY <1>3
    <3> QED
      BY <1>2, <1>3, <3>1 DEF WritePath, Path
  <2>3. ASSUME NEW k \in 1 .. n
        PROVE  k + m \in 1 .. m + n /\ k + m # 1 /\ WritePath[k + m] = Bare(wr_rq_fifo[k])
    <3>1. k + m \in 1 .. m + n /\ ~(k + m <= 0) /\ ~(k + m <= 0 + m) /\ k + m - 0 - m = k /\ k + m # 1
      BY <1>3
    <3> QED
      BY <1>2, <1>3, <3>1 DEF WritePath, Path
  <2> QED
    BY <2>1, <2>2, <2>3
<1>5. ASSUME NEW v \in Unperformed'
      PROVE  /\ v \in Unperformed
             /\ \E k \in DOMAIN WritePath : k # 1 /\ WritePath[k] = Bare(v)
  <2>1. CASE \E k \in 1 .. Len(Tail(writes)) : v = Tail(writes)[k]
    <3>1. PICK k \in 1 .. Len(Tail(writes)) : v = Tail(writes)[k]
      BY <2>1
    <3>2. k + 1 \in 1 .. m /\ k + 1 # 1 /\ v = writes[k + 1]
      BY <1>3, <3>1
    <3> QED
      BY <1>2, <1>4, <3>2 DEF Unperformed
  <2>2. CASE \E k \in 1 .. n : v = wr_rq_fifo[k]
    BY <1>2, <1>4, <2>2 DEF Unperformed
  <2> QED
    BY <1>1, <1>2, <1>5, <2>1, <2>2 DEF Unperformed
<1> QED
  BY <1>2, <1>3, <1>4, <1>5 DEF Unperformed

(* What else joins the writes to be performed.                              *)
LEMMA UnperformedMoves ==
  ASSUME TypeOK
  PROVE  /\ \A x : wr_rq_fifo = <<>> /\ wr_rq_fifo' = <<x>> /\ writes' = writes =>
                     Unperformed' = Unperformed \cup {x}
         /\ wr_rq_fifo' = wr_rq_fifo /\ writes' = writes => Unperformed' = Unperformed
         /\ MemoryTakes => Unperformed' = Unperformed
         /\ wr_rq_fifo = <<>> /\ writes = <<>> => Unperformed = {}
<1>1. RequestTypes
  BY Types
<1>2. ASSUME NEW x, wr_rq_fifo = <<>>, wr_rq_fifo' = <<x>>, writes' = writes
      PROVE  Unperformed' = Unperformed \cup {x}
  <2>1. /\ {wr_rq_fifo[k] : k \in 1 .. Len(wr_rq_fifo)} = {}
        /\ {<<x>>[k] : k \in 1 .. Len(<<x>>)} = {x}
    BY <1>2
  <2> QED
    BY <1>2, <2>1 DEF Unperformed
<1>3. ASSUME MemoryTakes
      PROVE  Unperformed' = Unperformed
  <2>1. CASE wr_rq_fifo' = wr_rq_fifo /\ writes' = writes
    BY <2>1 DEF Unperformed
  <2>2. CASE wr_rq_fifo # <<>> /\ writes' = writes \o wr_rq_fifo /\ wr_rq_fifo' = <<>>
    <3>1. PICK x : wr_rq_fifo = <<x>> /\ x \in Carried(Id)
      BY <1>1, <2>2, MaybeIs DEF RequestTypes
    <3>2. PICK q : q = writes \o wr_rq_fifo
      OBVIOUS
    <3>3. Len(writes) \in Nat /\ Len(wr_rq_fifo) = 1 /\ wr_rq_fifo[1] = x
      BY <1>1, <3>1, LenProperties DEF RequestTypes
    <3>4. /\ Len(q) = Len(writes) + 1
          /\ \A k \in 1 .. Len(writes) : q[k] = writes[k]
          /\ q[Len(writes) + 1] = x
      BY <1>1, <3>1, <3>2, <3>3 DEF RequestTypes
    <3>5. {q[k] : k \in 1 .. Len(q)} = {writes[k] : k \in 1 .. Len(writes)} \cup {x}
      BY <3>3, <3>4
    <3>6. {wr_rq_fifo[k] : k \in 1 .. Len(wr_rq_fifo)} = {x}
      BY <3>3
    <3>7. {<<>>[k] : k \in 1 .. Len(<<>>)} = {}
      OBVIOUS
    <3> QED
      BY <2>2, <3>2, <3>5, <3>6, <3>7 DEF Unperformed
  <2> QED
    BY <1>3, <2>1, <2>2 DEF MemoryTakes
<1>4. ASSUME wr_rq_fifo = <<>>, writes = <<>>
      PROVE  Unperformed = {}
  BY <1>4 DEF Unperformed
<1> QED
  BY <1>2, <1>3, <1>4 DEF Unperformed

(* While nothing stalls, the arbiter has no access of its own under way;    *)
(* while it reads for an AMO, it writes nothing.                            *)
LEMMA OwnWaits ==
  ASSUME TypeOK, ReadInv, AmoInv
  PROVE  /\ \A w \in Unperformed : kind(w.op) \in {"AMO", "SC", "STORE"}
         /\ ~amo_in_progress \/ amo_description # <<>> =>
              \A w \in Unperformed : kind(w.op) = "STORE"
         /\ rd_rs_fifo # <<>> =>
              /\ rd_rs_fifo[1].op \in Id
              /\ IF rd_rs_fifo[1].amo_id
                 THEN amo_in_progress /\ amo_description = <<rd_rs_fifo[1].op>>
                 ELSE kind(rd_rs_fifo[1].op) = "LOAD"
         /\ reads # <<>> /\ rd_rs_fifo = <<>> =>
              /\ Head(reads).op \in Id
              /\ IF Head(reads).amo_id
                 THEN amo_in_progress /\ amo_description = <<Head(reads).op>>
                 ELSE kind(Head(reads).op) = "LOAD"
<1>1. RequestTypes
  BY Types
<1>2. ASSUME NEW w \in Unperformed
      PROVE  /\ kind(w.op) \in {"AMO", "SC", "STORE"}
             /\ ~amo_in_progress \/ amo_description # <<>> => kind(w.op) = "STORE"
  <2>1. PICK k \in DOMAIN WritePath : WritePath[k] = Bare(w)
    BY <1>1, UnperformedIs
  <2>2. WritePath[k].op = w.op
    BY <2>1 DEF Bare
  <2> QED
    BY <2>2 DEF AmoInv, RequestKinds, Stalled
<1>3. ASSUME NEW t, 1 \in DOMAIN ReadPath, ReadPath[1] = Bare(t)
      PROVE  /\ t.op \in Id
             /\ IF t.amo_id THEN amo_in_progress /\ amo_description = <<t.op>> ELSE kind(t.op) = "LOAD"
  <2>1. ReadPath[1].op = t.op /\ ReadPath[1].amo_id = t.amo_id
    BY <1>3 DEF Bare
  <2>2. t.op \in Id /\ t.amo_id \in BOOLEAN
    BY <1>1, <1>3, <2>1, PathIds
  <2>3. CASE t.amo_id
    <3>1. amo_description = <<t.op>>
      BY <1>3, <2>1, <2>3 DEF ReadInv, ReadOnce
    <3>2. amo_in_progress
      BY <3>1 DEF AmoInv, Stalled
    <3> QED
      BY <2>2, <2>3, <3>1, <3>2
  <2>4. CASE ~t.amo_id
    BY <1>3, <2>1, <2>2, <2>4 DEF AmoInv, RequestKinds
  <2> QED
    BY <2>3, <2>4
<1> QED
  BY <1>1, <1>2, <1>3, ReadFirst

(* The invariant of AMOs is kept.                                           *)
LEMMA AmoStep ==
  ASSUME TypeOK, ReadInv, AmoInv, [Next]_vars
  PROVE  AmoInv'
BY KindsStep, StalledStep, RoomStep, AwaitedStep DEF AmoInv

(* No access to the word of an AMO is performed between its read and its    *)
(* write.                                                                   *)
LEMMA WordKeptStep ==
  ASSUME TypeOK, ReadInv, AmoInv, WordKept, PromptWrites \/ Apart(build, "AMO"), [Next]_vars
  PROVE  WordKept'
<1>1. RequestTypes /\ OtherTypes
  BY Types
<1>2. /\ \A i \in Id : ops'[i] = ops[i] /\ addr(i) \in Addr
      /\ \A w \in Unperformed : w.op \in Id
      /\ rd_rs_fifo # <<>> => rd_rs_fifo[1].op \in Id
  BY <1>1, RequestsStay, Ids, UnperformedIs, OwnWaits
<1>3. CASE /\ mem' = mem /\ Unperformed' = Unperformed /\ rd_rs_fifo' \in {<<>>, rd_rs_fifo}
  BY <1>2, <1>3 DEF WordKept, Meets, kind, addr
<1>4. CASE UNCHANGED vars \/ compute_read \/ compute_amo \/ distribute_read_responses \/ answer_missed
           \/ distribute_write_responses \/ \E c \in Cpu : put_read(c) \/ put_write(c) \/ get_read(c)
  <2>1. UNCHANGED <<mem, writes, wr_rq_fifo>> /\ rd_rs_fifo' \in {<<>>, rd_rs_fifo}
    BY <1>4 DEF vars, compute_read, compute_amo, distribute_read_responses, answer_missed,
                distribute_write_responses, put_read, put_write, get_read
  <2> QED
    BY <1>3, <2>1, UnperformedMoves
<1>5. CASE MemoryTakes
  BY <1>3, <1>5, UnperformedMoves DEF MemoryTakes
<1>6. CASE compute_sc \/ elapse_store_op
  <2>1. /\ ~amo_in_progress /\ UNCHANGED <<mem, rd_rs_fifo, ops>>
        /\ \/ UNCHANGED <<writes, wr_rq_fifo>>
           \/ \E x : /\ wr_rq_fifo = <<>> /\ wr_rq_fifo' = <<x>> /\ writes' = writes
                     /\ kind(x.op) \in {"SC", "STORE"}
    <3>1. CASE compute_sc
      <4>1. PICK i : i = Head(load_queue)
        OBVIOUS
      <4>2. PICK x : x = Writing(i, TRUE, 0)
        OBVIOUS
      <4>3. /\ ~amo_in_progress /\ UNCHANGED <<mem, rd_rs_fifo, ops, writes>> /\ kind(i) = "SC"
            /\ wr_rq_fifo' = IF link_lrsc = <<addr(i)>> THEN <<x>> ELSE wr_rq_fifo
            /\ link_lrsc = <<addr(i)>> => wr_rq_fifo = <<>>
        BY <3>1, <4>1, <4>2, RoomFor DEF compute_sc, NextIs, cores
      <4>4. x.op = i
        BY <4>2 DEF Writing
      <4> QED
        BY <4>3, <4>4
    <3>2. CASE elapse_store_op
      <4>1. PICK i : i = Head(store_queue)
        OBVIOUS
      <4>2. PICK x : x = Writing(i, FALSE, 0)
        OBVIOUS
      <4>3. /\ ~amo_in_progress /\ UNCHANGED <<mem, rd_rs_fifo, ops, writes>>
            /\ wr_rq_fifo = <<>> /\ wr_rq_fifo' = <<x>> /\ store_queue # <<>>
        BY <3>2, <4>1, <4>2 DEF elapse_store_op, may_elapse, cores
      <4>4. kind(i) = "STORE"
        <5>1. Leaves(store_queue, Tail(store_queue), i)
          BY <1>1, <4>1, <4>3, QueueMoves DEF RequestTypes
        <5> QED
          BY <5>1, LeavesMembers DEF AmoInv, RequestKinds
      <4>5. x.op = i
        BY <4>2 DEF Writing
      <4> QED
        BY <4>3, <4>4, <4>5
    <3> QED
      BY <1>6, <3>1, <3>2
  <2>2. \A w \in Unperformed' : kind(w.op) # "AMO"
    BY <2>1, OwnWaits, UnperformedMoves
  <2>3. rd_rs_fifo # <<>> => kind(rd_rs_fifo[1].op) # "AMO"
    BY <2>1, OwnWaits
  <2> QED
    BY <2>1, <2>2, <2>3 DEF WordKept, kind
<1>7. CASE amo_transform_data
  <2>1. PICK i : i = amo_description[1]
    OBVIOUS
  <2>2. /\ amo_description # <<>> /\ rd_rs_fifo # <<>> /\ rd_rs_fifo[1].amo_id
        /\ rd_rs_fifo' = <<>> /\ UNCHANGED <<mem, writes, ops>>
        /\ wr_rq_fifo' = IF kind(i) = "LR" THEN wr_rq_fifo ELSE <<Writing(i, TRUE, rd_rs_fifo[1].old)>>
        /\ kind(i) # "LR" => wr_rq_fifo = <<>>
    BY <1>7, <2>1 DEF amo_transform_data, cores, may_transform
  <2>3. rd_rs_fifo[1].op = i /\ kind(i) \in {"AMO", "LR"} /\ i \in Id
    <3>1. amo_description = <<rd_rs_fifo[1].op>> /\ rd_rs_fifo[1].op \in Id
      BY <2>2, OwnWaits
    <3> QED
      BY <2>1, <2>2, <3>1 DEF AmoInv, RequestKinds
  <2>4. \A w \in Unperformed : kind(w.op) = "STORE"
    BY <2>2, OwnWaits
  <2>5. CASE kind(i) = "LR"
    BY <1>3, <2>2, <2>5, UnperformedMoves
  <2>6. CASE kind(i) = "AMO"
    <3>1. PICK x : x = Writing(i, TRUE, rd_rs_fifo[1].old)
      OBVIOUS
    <3>2. x.op = i /\ x.old = rd_rs_fifo[1].old
      BY <3>1 DEF Writing
    <3>3. Unperformed' = Unperformed \cup {x}
      BY <2>2, <2>6, <3>1, UnperformedMoves
    <3>4. mem[addr(i)] = x.old /\ \A v \in Unperformed : ~Meets(v, i)
      BY <2>2, <2>3, <2>6, <3>2 DEF WordKept
    <3> QED
      BY <2>2, <2>4, <3>2, <3>3, <3>4 DEF WordKept, Meets, kind, addr
  <2> QED
    BY <2>3, <2>5, <2>6
<1>8. CASE MemoryReads
  <2>1. PICK i, own : i = Head(reads).op /\ own = Head(reads).amo_id
    OBVIOUS
  <2>2. /\ reads # <<>> /\ rd_rs_fifo = <<>> /\ rd_rs_fifo' = <<Writing(i, own, mem[addr(i)])>>
        /\ UNCHANGED <<mem, writes, wr_rq_fifo, ops>>
        /\ PromptWrites => wr_rq_fifo = <<>> /\ writes = <<>>
    BY <1>8, <2>1 DEF MemoryReads, cores
  <2>3. Unperformed' = Unperformed
    BY <2>2, UnperformedMoves
  <2>4. rd_rs_fifo'[1].op = i /\ rd_rs_fifo'[1].old = mem[addr(i)]
    BY <2>2 DEF Writing
  <2>5. ASSUME kind(i) = "AMO", NEW v \in Unperformed
        PROVE  ~Meets(v, i)
    <3>1. i \in Id /\ amo_description # <<>>
      BY <2>1, <2>2, <2>5, OwnWaits
    <3>2. kind(v.op) = "STORE" /\ v.op \in Id
      BY <1>2, <2>5, <3>1, OwnWaits
    <3>3. Apart(build, "AMO")
      BY <2>2, <2>5, UnperformedMoves
    <3>4. /\ [kind |-> kind(i), addr |-> addr(i)] \in build.requests[cpu_id(i)]
          /\ [kind |-> kind(v.op), addr |-> addr(v.op)] \in build.requests[cpu_id(v.op)]
          /\ cpu_id(i) \in Cpu /\ cpu_id(v.op) \in Cpu
      BY <1>1, <3>1, <3>2, Ids DEF AmoInv, RequestKinds
    <3> QED
      BY <2>5, <3>2, <3>3, <3>4 DEF Apart, Meets
  <2> QED
    BY <2>2, <2>3, <2>4, <2>5 DEF WordKept, Meets, kind, addr
<1>9. CASE MemoryWrites
  <2>1. PICK h : h = Head(writes)
    OBVIOUS
  <2>2. /\ mem' = [mem EXCEPT ![addr(h.op)] = h.op] /\ UNCHANGED <<rd_rs_fifo, ops>>
    BY <1>9, <2>1 DEF MemoryWrites, cores
  <2>3. /\ h \in Unperformed /\ 1 \in DOMAIN WritePath /\ WritePath[1] = Bare(h)
        /\ \A v \in Unperformed' : /\ v \in Unperformed
                                   /\ \E k \in DOMAIN WritePath : k # 1 /\ WritePath[k] = Bare(v)
    BY <1>1, <1>9, <2>1, FirstPerformed
  <2>4. \A i \in Id : addr(i) # addr(h.op) => mem'[addr(i)] = mem[addr(i)]
    BY <1>1, <1>2, <2>2 DEF OtherTypes
  <2>5. ASSUME NEW w \in Unperformed', kind(w.op) = "AMO"
        PROVE  /\ mem'[addr(w.op)] = w.old
               /\ \A v \in Unperformed' : v = w \/ ~Meets(v, w.op)
    <3>1. w \in Unperformed /\ w.op \in Id
      BY <1>2, <2>3, <2>5
    <3>2. PICK k \in DOMAIN WritePath : k # 1 /\ WritePath[k] = Bare(w)
      BY <2>3, <2>5
    <3>3. WritePath[k].op = w.op
      BY <3>2 DEF Bare
    <3>4. WritePath[k].amo_id
      BY <2>5, <3>3 DEF AmoInv, RequestKinds
    <3>5. h # w
      BY <2>3, <3>2, <3>4 DEF AmoInv, Stalled
    <3>6. addr(h.op) # addr(w.op) /\ mem[addr(w.op)] = w.old
      BY <2>3, <2>5, <3>1, <3>5 DEF WordKept, Meets
    <3> QED
      BY <2>3, <2>4, <2>5, <3>1, <3>6 DEF WordKept
  <2>6. ASSUME rd_rs_fifo # <<>>, kind(rd_rs_fifo[1].op) = "AMO"
        PROVE  /\ mem'[addr(rd_rs_fifo[1].op)] = rd_rs_fifo[1].old
               /\ \A v \in Unperformed' : ~Meets(v, rd_rs_fifo[1].op)
    <3>1. addr(h.op) # addr(rd_rs_fifo[1].op)
      BY <2>3, <2>6 DEF WordKept, Meets
    <3> QED
      BY <1>2, <2>3, <2>4, <2>6, <3>1 DEF WordKept
  <2> QED
    BY <2>2, <2>5, <2>6 DEF WordKept, Meets, kind, addr
<1> QED
  BY <1>4, <1>5, <1>6, <1>7, <1>8, <1>9 DEF Next, Arbiter, Memory

(* Outside of an access of its own, the arbiter has no SC on its way.       *)
LEMMA NoScWaits ==
  ASSUME TypeOK, ReadInv, AmoInv, ~amo_in_progress \/ amo_description # <<>>
  PROVE  /\ \A k \in DOMAIN WritePath : kind(WritePath[k].op) = "STORE"
         /\ \A w \in Unperformed : kind(w.op) = "STORE"
         /\ ~amo_in_progress => amo_description = <<>>
<1>1. \A k \in DOMAIN WritePath : kind(WritePath[k].op) = "STORE"
  BY DEF AmoInv, RequestKinds, Stalled
<1> QED
  BY <1>1, OwnWaits DEF AmoInv, Stalled

(* A step that neither writes nor links keeps the link.                     *)
LEMMA LinkedKept ==
  ASSUME TypeOK, Linked, [Next]_vars, UNCHANGED <<watched, link_lrsc>>,
         Unperformed' \subseteq Unperformed, Unread => Unread',
         \A k \in DOMAIN WritePath' : \E j \in DOMAIN WritePath : WritePath'[k] = WritePath[j],
         amo_description' # <<>> =>
           amo_description' = amo_description \/ ops'[amo_description'[1]].kind # "LR"
  PROVE  Linked'
<1>1. RequestTypes
  BY Types
<1>2. /\ \A i \in Id : ops'[i] = ops[i]
      /\ \A w \in Unperformed : w.op \in Id
      /\ \A k \in DOMAIN WritePath : WritePath[k].op \in Id
      /\ amo_description # <<>> => amo_description[1] \in Id
  BY <1>1, RequestsStay, UnperformedIs, PathIds, KnownRequests
<1>3. \A a : StoresTo(a) = {} => StoresTo(a)' = {}
  BY <1>2 DEF StoresTo, kind, addr
<1>4. ASSUME NEW a \in Addr, link_lrsc' = <<a>>, ~Unread'
      PROVE  watched' = <<a>> /\ StoresTo(a)' = {}
  BY <1>3, <1>4 DEF Linked
<1>5. amo_description' # <<>> /\ ops'[amo_description'[1]].kind = "LR" =>
        link_lrsc' = <<ops'[amo_description'[1]].addr>>
  BY <1>2 DEF Linked, kind, addr
<1>6. ASSUME NEW k \in DOMAIN WritePath', ops'[WritePath'[k].op].kind = "SC"
      PROVE  link_lrsc' = <<>>
  BY <1>2, <1>6 DEF Linked, kind
<1>7. ASSUME NEW w \in Unperformed', ops'[w.op].kind = "SC"
      PROVE  watched' = <<ops'[w.op].addr>> /\ {v \in Unperformed' : ops'[v.op].kind = "STORE" /\ ops'[v.op].addr = ops'[w.op].addr} = {}
  <2>1. PICK a : a = addr(w.op)
    OBVIOUS
  <2>2. w \in Unperformed /\ ops'[w.op] = ops[w.op]
    BY <1>2, <1>7
  <2>3. watched = <<a>> /\ StoresTo(a) = {}
    BY <1>7, <2>1, <2>2 DEF Linked, kind
  <2>4. StoresTo(a)' = {}
    BY <1>3, <2>3
  <2> QED
    BY <2>1, <2>2, <2>3, <2>4 DEF StoresTo, kind, addr
<1> QED
  BY <1>4, <1>5, <1>6, <1>7 DEF Linked, StoresTo, kind, addr

(* A link lasts from the read of the LR as long as no store or SC writes.   *)
LEMMA LinkedStep ==
  ASSUME TypeOK, ReadInv, AmoInv, Linked, PromptWrites \/ Apart(build, "LR"), [Next]_vars
  PROVE  Linked'
<1>1. RequestTypes /\ OtherTypes /\ RequestKinds
  BY Types DEF AmoInv
<1>2. /\ \A i \in Id : ops'[i] = ops[i]
      /\ \A w \in Unperformed : w.op \in Id
      /\ \A k \in DOMAIN WritePath : WritePath[k].op \in Id
      /\ amo_description # <<>> => amo_description[1] \in Id
  BY <1>1, RequestsStay, UnperformedIs, PathIds, KnownRequests
<1>3. CASE UNCHANGED vars \/ compute_read \/ \E c \in Cpu : put_read(c) \/ put_write(c) \/ get_read(c)
  <2>1. UNCHANGED <<watched, link_lrsc, amo_description, rd_rs_fifo, writes, wr_rq_fifo>>
    BY <1>3 DEF vars, amo, links, compute_read, put_read, put_write, get_read
  <2>2. WritePath' = WritePath /\ Unperformed' = Unperformed
    BY <1>3, <2>1, LinesMove, UnperformedMoves
  <2>3. Unread => Unread'
    BY <1>2, <2>1 DEF Unread, kind
  <2> QED
    BY <2>1, <2>2, <2>3, LinkedKept
<1>4. CASE compute_amo
  <2>1. PICK i : i = Head(load_queue)
    OBVIOUS
  <2>2. /\ ~amo_in_progress /\ amo_description' = <<i>> /\ UNCHANGED <<watched, rd_rs_fifo, ops, writes, wr_rq_fifo>>
        /\ link_lrsc' = IF kind(i) = "LR" THEN <<addr(i)>> ELSE link_lrsc
        /\ WritePath' = WritePath
    BY <1>4, <2>1, LinesMove DEF compute_amo, NextIs, cores, links
  <2>3. Unperformed' = Unperformed
    BY <2>2, UnperformedMoves
  <2>4. /\ \A k \in DOMAIN WritePath : kind(WritePath[k].op) = "STORE"
        /\ \A w \in Unperformed : kind(w.op) = "STORE"
        /\ amo_description = <<>>
    BY <2>2, NoScWaits
  <2>5. ~(rd_rs_fifo # <<>> /\ rd_rs_fifo[1].amo_id)
    BY <2>4, OwnWaits
  <2>6. amo_description'[1] = i /\ amo_description' # <<>>
    BY <2>2
  <2>7. CASE kind(i) = "LR"
    <3>1. Unread' /\ link_lrsc' = <<addr(i)>>
      BY <2>2, <2>5, <2>6, <2>7 DEF Unread, kind
    <3> QED
      BY <2>2, <2>3, <2>4, <2>6, <3>1 DEF Linked, kind, addr
  <2>8. CASE kind(i) # "LR"
    <3>1. ~Unread
      BY <2>4 DEF Unread
    <3>2. ops'[amo_description'[1]].kind # "LR"
      BY <2>2, <2>6, <2>8 DEF kind
    <3> QED
      BY <2>2, <2>3, <2>8, <3>1, <3>2, LinkedKept
  <2> QED
    BY <2>7, <2>8
<1>5. CASE compute_sc
  <2>1. PICK i : i = Head(load_queue)
    OBVIOUS
  <2>2. PICK x : x = Writing(i, TRUE, 0)
    OBVIOUS
  <2>3. /\ ~amo_in_progress /\ load_queue # <<>> /\ kind(i) = "SC" /\ link_lrsc' = <<>>
        /\ UNCHANGED <<rd_rs_fifo, ops, writes, amo_description, watched>>
        /\ IF link_lrsc = <<addr(i)>>
           THEN wr_rq_fifo = <<>> /\ wr_rq_fifo' = <<x>>
           ELSE wr_rq_fifo' = wr_rq_fifo
    BY <1>5, <2>1, <2>2, RoomFor DEF compute_sc, NextIs, cores
  <2>4. x.op = i /\ i \in Id /\ addr(i) \in Addr
    BY <1>1, <2>1, <2>2, <2>3, HeadTypes, Ids DEF Writing
  <2>5. (\A w \in Unperformed : kind(w.op) = "STORE") /\ amo_description = <<>>
    BY <2>3, NoScWaits
  <2>6. CASE link_lrsc = <<addr(i)>>
    <3>1. Unperformed' = Unperformed \cup {x}
      BY <2>3, <2>6, UnperformedMoves
    <3>2. watched = <<addr(i)>> /\ StoresTo(addr(i)) = {}
      BY <2>4, <2>5, <2>6 DEF Linked, Unread
    <3>3. {v \in Unperformed' : kind(v.op) = "STORE" /\ addr(v.op) = addr(i)} = {}
      BY <2>3, <2>4, <3>1, <3>2 DEF StoresTo
    <3>4. \A w \in Unperformed' : kind(w.op) = "SC" => w.op = i
      BY <2>4, <2>5, <3>1
    <3>5. link_lrsc' = <<>> /\ amo_description' = <<>>
      BY <2>3, <2>5
    <3> QED
      BY <2>3, <3>2, <3>3, <3>4, <3>5 DEF Linked, StoresTo, kind, addr
  <2>7. CASE link_lrsc # <<addr(i)>>
    <3>1. Unperformed' = Unperformed
      BY <2>3, <2>7, UnperformedMoves
    <3>2. \A w \in Unperformed' : ops'[w.op].kind # "SC"
      BY <2>3, <2>5, <3>1 DEF kind
    <3>3. link_lrsc' = <<>> /\ amo_description' = <<>>
      BY <2>3, <2>5
    <3> QED
      BY <3>2, <3>3 DEF Linked, kind
  <2> QED
    BY <2>6, <2>7
<1>6. CASE elapse_store_op
  <2>1. PICK i : i = Head(store_queue)
    OBVIOUS
  <2>2. PICK x : x = Writing(i, FALSE, 0)
    OBVIOUS
  <2>3. /\ ~amo_in_progress /\ store_queue # <<>>
        /\ link_lrsc' = IF link_lrsc = <<addr(i)>> THEN <<>> ELSE link_lrsc
        /\ UNCHANGED <<rd_rs_fifo, ops, writes, amo_description, watched>>
        /\ wr_rq_fifo = <<>> /\ wr_rq_fifo' = <<x>>
        /\ Joins(WritePath, WritePath', [op |-> i, amo_id |-> FALSE])
    BY <1>6, <2>1, <2>2, LinesMove DEF elapse_store_op, may_elapse, link_after_store, cores, links
  <2>4. x.op = i /\ kind(i) = "STORE"
    <3>1. Leaves(store_queue, Tail(store_queue), i)
      BY <1>1, <2>1, <2>3, QueueMoves DEF RequestTypes
    <3> QED
      BY <2>2, <3>1, LeavesMembers DEF AmoInv, RequestKinds, Writing
  <2>5. /\ \A k \in DOMAIN WritePath : kind(WritePath[k].op) = "STORE"
        /\ \A w \in Unperformed : kind(w.op) = "STORE"
        /\ amo_description = <<>>
    BY <2>3, NoScWaits
  <2>6. Unperformed' = Unperformed \cup {x}
    BY <2>3, UnperformedMoves
  <2>7. ASSUME NEW k \in DOMAIN WritePath'
        PROVE  kind(WritePath'[k].op) = "STORE"
    BY <2>3, <2>4, <2>5, JoinsMembers
  <2>8. ASSUME NEW a \in Addr, link_lrsc' = <<a>>
        PROVE  watched = <<a>> /\ {v \in Unperformed' : kind(v.op) = "STORE" /\ addr(v.op) = a} = {}
    <3>1. link_lrsc = <<a>> /\ addr(i) # a
      BY <2>3, <2>8
    <3>2. watched = <<a>> /\ StoresTo(a) = {}
      BY <2>5, <2>8, <3>1 DEF Linked, Unread
    <3> QED
      BY <2>4, <2>6, <3>1, <3>2 DEF StoresTo
  <2>9. \A w \in Unperformed' : kind(w.op) = "STORE"
    BY <2>4, <2>5, <2>6
  <2> QED
    BY <2>3, <2>5, <2>7, <2>8, <2>9 DEF Linked, StoresTo, kind, addr
<1>7. CASE distribute_read_responses \/ answer_missed
  <2>1. /\ rd_rs_fifo' = <<>> /\ UNCHANGED <<ops, watched, link_lrsc, amo_description, writes, wr_rq_fifo>>
        /\ WritePath' = WritePath
    BY <1>7, LinesMove DEF distribute_read_responses, answer_missed, amo, cores, links
  <2>2. Unperformed' = Unperformed
    BY <2>1, UnperformedMoves
  <2>3. Unread => Unread'
    BY <2>1 DEF Unread, kind
  <2> QED
    BY <2>1, <2>2, <2>3, LinkedKept
<1>8. CASE amo_transform_data
  <2>1. PICK i : i = amo_description[1]
    OBVIOUS
  <2>2. PICK x : x = Writing(i, TRUE, rd_rs_fifo[1].old)
    OBVIOUS
  <2>3. /\ rd_rs_fifo # <<>> /\ rd_rs_fifo[1].amo_id /\ amo_description # <<>> /\ amo_description' = <<>>
        /\ UNCHANGED <<ops, watched, link_lrsc, writes>>
        /\ IF kind(i) = "LR" THEN wr_rq_fifo' = wr_rq_fifo ELSE wr_rq_fifo = <<>> /\ wr_rq_fifo' = <<x>>
        /\ IF kind(i) = "LR" THEN WritePath' = WritePath
           ELSE Joins(WritePath, WritePath', [op |-> i, amo_id |-> TRUE])
    BY <1>8, <2>1, <2>2, LinesMove DEF amo_transform_data, may_transform, cores, links
  <2>4. ~Unread
    BY <2>3 DEF Unread
  <2>5. CASE kind(i) = "LR"
    <3>1. Unperformed' = Unperformed
      BY <2>3, <2>5, UnperformedMoves
    <3> QED
      BY <2>3, <2>4, <2>5, <3>1, LinkedKept
  <2>6. CASE kind(i) # "LR"
    <3>1. x.op = i /\ i \in Id /\ kind(i) = "AMO"
      BY <1>2, <2>1, <2>2, <2>3, <2>6 DEF AmoInv, RequestKinds, Writing
    <3>2. Unperformed' = Unperformed \cup {x}
      BY <2>3, <2>6, UnperformedMoves
    <3>3. /\ \A k \in DOMAIN WritePath : kind(WritePath[k].op) = "STORE"
          /\ \A w \in Unperformed : kind(w.op) = "STORE"
      BY <2>3, NoScWaits
    <3>4. ASSUME NEW k \in DOMAIN WritePath'
          PROVE  kind(WritePath'[k].op) # "SC"
      BY <2>3, <2>6, <3>1, <3>3, JoinsMembers
    <3>5. ASSUME NEW a \in Addr, link_lrsc' = <<a>>
          PROVE  watched = <<a>> /\ {v \in Unperformed' : kind(v.op) = "STORE" /\ addr(v.op) = a} = {}
      <4>1. watched = <<a>> /\ StoresTo(a) = {}
        BY <2>3, <2>4, <3>5 DEF Linked
      <4> QED
        BY <3>1, <3>2, <4>1 DEF StoresTo
    <3>6. \A w \in Unperformed' : kind(w.op) # "SC"
      BY <3>1, <3>2, <3>3
    <3> QED
      BY <2>3, <3>4, <3>5, <3>6 DEF Linked, StoresTo, kind, addr
  <2> QED
    BY <2>5, <2>6
<1>9. CASE distribute_write_responses
  <2>1. UNCHANGED <<ops, watched, link_lrsc, amo_description, rd_rs_fifo, writes, wr_rq_fifo>>
    BY <1>9 DEF distribute_write_responses, links
  <2>2. Unperformed' = Unperformed /\ (Unread => Unread')
    BY <2>1, UnperformedMoves DEF Unread, kind
  <2>3. \A k \in DOMAIN WritePath' : \E j \in DOMAIN WritePath : WritePath'[k] = WritePath[j]
    BY <1>9, FirstWritten
  <2> QED
    BY <2>1, <2>2, <2>3, LinkedKept
<1>10. CASE MemoryTakes
  <2>1. UNCHANGED <<ops, watched, link_lrsc, amo_description, rd_rs_fifo>>
    BY <1>10 DEF MemoryTakes, cores, amo, links
  <2>2. Unperformed' = Unperformed /\ WritePath' = WritePath /\ (Unread => Unread')
    BY <1>10, <2>1, UnperformedMoves, LinesMove DEF Memory, Unread, kind
  <2> QED
    BY <2>1, <2>2, LinkedKept
<1>11. CASE MemoryReads
  <2>1. PICK i, own : i = Head(reads).op /\ own = Head(reads).amo_id
    OBVIOUS
  <2>2. /\ reads # <<>> /\ rd_rs_fifo = <<>> /\ rd_rs_fifo' = <<Writing(i, own, mem[addr(i)])>>
        /\ UNCHANGED <<writes, wr_rq_fifo, ops, link_lrsc, amo_description>>
        /\ PromptWrites => wr_rq_fifo = <<>> /\ writes = <<>>
        /\ watched' = IF kind(i) = "LR" THEN <<addr(i)>> ELSE watched
    BY <1>11, <2>1 DEF MemoryReads, cores, amo
  <2>3. Unperformed' = Unperformed /\ WritePath' = WritePath
    BY <1>11, <2>2, UnperformedMoves, LinesMove DEF Memory
  <2>4. rd_rs_fifo'[1].amo_id = own /\ rd_rs_fifo' # <<>>
    BY <2>2 DEF Writing
  <2>5. i \in Id /\ IF own THEN amo_description = <<i>> ELSE kind(i) = "LOAD"
    BY <2>1, <2>2, OwnWaits
  <2>6. CASE kind(i) # "LR"
    <3>1. Unread => ~own
      BY <2>5, <2>6 DEF Unread
    <3>2. Unread => Unread'
      BY <2>2, <2>4, <3>1 DEF Unread, kind
    <3> QED
      BY <2>2, <2>3, <2>6, <3>2, LinkedKept
  <2>7. CASE kind(i) = "LR"
    <3>1. amo_description = <<i>> /\ amo_description # <<>> /\ amo_description[1] = i
      BY <2>5, <2>7
    <3>2. (\A w \in Unperformed : kind(w.op) = "STORE") /\ link_lrsc = <<addr(i)>>
      BY <2>7, <3>1, NoScWaits DEF Linked
    <3>3. ASSUME NEW v \in Unperformed
          PROVE  addr(v.op) # addr(i)
      <4>1. kind(v.op) = "STORE" /\ v.op \in Id
        BY <1>2, <3>2, <3>3
      <4>2. Apart(build, "LR")
        BY <2>2, <3>3, UnperformedMoves
      <4>3. /\ [kind |-> kind(i), addr |-> addr(i)] \in build.requests[cpu_id(i)]
            /\ [kind |-> kind(v.op), addr |-> addr(v.op)] \in build.requests[cpu_id(v.op)]
            /\ cpu_id(i) \in Cpu /\ cpu_id(v.op) \in Cpu
        BY <1>1, <2>5, <4>1, Ids DEF RequestKinds
      <4> QED
        BY <2>7, <4>1, <4>2, <4>3 DEF Apart
    <3>4. ASSUME NEW a \in Addr, link_lrsc' = <<a>>
          PROVE  watched' = <<a>> /\ {v \in Unperformed' : kind(v.op) = "STORE" /\ addr(v.op) = a} = {}
      <4>1. addr(i) = a
        <5>1. \A x, y : <<x>> = <<y>> => x = y
          OBVIOUS
        <5> QED
          BY <2>2, <3>2, <3>4, <5>1
      <4> QED
        BY <2>2, <2>3, <2>7, <3>3, <4>1
    <3>5. /\ \A k \in DOMAIN WritePath' : kind(WritePath'[k].op) # "SC"
          /\ \A w \in Unperformed' : kind(w.op) # "SC"
      BY <2>3, <3>1, NoScWaits
    <3> QED
      BY <2>2, <3>1, <3>2, <3>4, <3>5 DEF Linked, StoresTo, kind, addr
  <2> QED
    BY <2>6, <2>7
<1>12. CASE MemoryWrites
  <2>1. PICK h : h = Head(writes)
    OBVIOUS
  <2>2. /\ UNCHANGED <<ops, link_lrsc, amo_description, rd_rs_fifo>>
        /\ watched' = IF kind(h.op) # "AMO" /\ watched = <<addr(h.op)>> THEN <<>> ELSE watched
        /\ WritePath' = WritePath
    BY <1>12, <2>1, LinesMove DEF MemoryWrites, cores, amo, Memory
  <2>3. /\ h \in Unperformed /\ 1 \in DOMAIN WritePath /\ WritePath[1] = Bare(h) /\ WritePath[1].op = h.op
        /\ \A v \in Unperformed' : /\ v \in Unperformed
                                   /\ \E k \in DOMAIN WritePath : k # 1 /\ WritePath[k] = Bare(v)
    BY <1>1, <1>12, <2>1, FirstPerformed DEF Bare
  <2>4. ASSUME NEW a, watched = <<a>>, StoresTo(a) = {}, kind(h.op) # "SC"
        PROVE  watched' = <<a>> /\ {v \in Unperformed' : kind(v.op) = "STORE" /\ addr(v.op) = a} = {}
    <3>1. kind(h.op) = "AMO" \/ addr(h.op) # a
      BY <2>3, <2>4, OwnWaits DEF StoresTo
    <3>2. watched' = <<a>>
      <4>1. \A x, y : <<x>> = <<y>> => x = y
        OBVIOUS
      <4> QED
        BY <2>2, <2>4, <3>1, <4>1
    <3> QED
      BY <2>3, <2>4, <3>2 DEF StoresTo
  <2>5. ASSUME NEW a \in Addr, link_lrsc' = <<a>>, ~Unread'
        PROVE  watched' = <<a>> /\ {v \in Unperformed' : kind(v.op) = "STORE" /\ addr(v.op) = a} = {}
    <3>1. link_lrsc = <<a>> /\ ~Unread /\ link_lrsc # <<>>
      BY <2>2, <2>5 DEF Unread, kind
    <3>2. watched = <<a>> /\ StoresTo(a) = {}
      BY <2>5, <3>1 DEF Linked
    <3>3. kind(h.op) # "SC"
      BY <2>3, <3>1 DEF Linked
    <3> QED
      BY <2>4, <3>2, <3>3
  <2>6. ASSUME NEW w \in Unperformed', kind(w.op) = "SC"
        PROVE  watched' = <<addr(w.op)>> /\ {v \in Unperformed' : kind(v.op) = "STORE" /\ addr(v.op) = addr(w.op)} = {}
    <3>1. w \in Unperformed
      BY <2>3, <2>6
    <3>2. PICK k \in DOMAIN WritePath : k # 1 /\ WritePath[k] = Bare(w)
      BY <2>3, <2>6
    <3>3. WritePath[k].op = w.op
      BY <3>2 DEF Bare
    <3>4. WritePath[k].amo_id
      BY <2>6, <3>3 DEF AmoInv, RequestKinds
    <3>5. ~WritePath[1].amo_id
      BY <2>3, <3>2, <3>4 DEF AmoInv, Stalled
    <3>6. kind(h.op) # "SC"
      BY <2>3, <3>5 DEF AmoInv, RequestKinds
    <3>7. watched = <<addr(w.op)>> /\ StoresTo(addr(w.op)) = {}
      BY <2>6, <3>1 DEF Linked
    <3> QED
      BY <2>4, <3>6, <3>7
  <2> QED
    BY <2>2, <2>3, <2>5, <2>6 DEF Linked, StoresTo, kind, addr
<1> QED
  BY <1>3, <1>4, <1>5, <1>6, <1>7, <1>8, <1>9, <1>10, <1>11, <1>12 DEF Next, Arbiter, Memory

-----------------------------------------------------------------------------
(* The invariants of AMOs and of the link hold at the start.                *)
LEMMA AmoInit ==
  ASSUME Init
  PROVE  AmoInv /\ WordKept /\ Linked
<1>1. Len(<<>>) = 0 /\ DOMAIN <<>> = {}
  OBVIOUS
<1>2. DOMAIN ReadPath = {} /\ DOMAIN WritePath = {} /\ Unperformed = {}
  BY <1>1 DEF Init, ReadPath, WritePath, Path, Unperformed
<1>3. Id = {}
  BY <1>1 DEF Init, Id
<1>4. AmoInv
  BY <1>1, <1>2, <1>3 DEF Init, AmoInv, RequestKinds, Stalled, Awaited, RoomForWrite
<1>5. WordKept
  BY <1>2 DEF Init, WordKept
<1>6. Linked
  BY <1>2 DEF Init, Linked, Unread
<1> QED
  BY <1>4, <1>5, <1>6

(* From the start of an AMO to the answer to its write everything stalls,   *)
(* and what the arbiter waits for is on its way.                            *)
THEOREM AmoInvariant == Spec => []AmoInv
<1>1. Init => AmoInv
  BY AmoInit
<1>2. IInv /\ AmoInv /\ [Next]_vars => AmoInv'
  BY AmoStep DEF IInv
<1> QED
  BY <1>1, <1>2, InvariantHolds, PTL DEF Spec

(* The arbiter has exactly one access of its own on its way while it stalls, *)
(* and none at any other time; only one that may start an AMO without room   *)
(* for its write, on independent channels, ever drops an answer.             *)
THEOREM AmoAnswered == Spec => []AmoOnItsWay
<1>1. IInv /\ AmoInv => AmoOnItsWay
  BY OneTransfer DEF AmoInv
<1> QED
  BY <1>1, InvariantHolds, AmoInvariant, PTL

(* Where no store meets an AMO, or memory performs writes before the reads   *)
(* sent after them, AMOs are atomic.                                         *)
THEOREM AmosAtomic ==
  ASSUME StoresApart("AMO")
  PROVE  Spec => []AmoAtomic
<1>1. Init => WordKept
  BY AmoInit
<1>2. IInv /\ AmoInv /\ WordKept /\ [Next]_vars => WordKept'
  <2>1. IInv => build \in Builds
    BY Types DEF IInv, OtherTypes
  <2>2. IInv => PromptWrites \/ Apart(build, "AMO")
    BY <2>1 DEF StoresApart, PromptWrites
  <2> QED
    BY <2>2, WordKeptStep DEF IInv
<1>3. WordKept => AmoAtomic
  BY DEF WordKept, AmoAtomic
<1> QED
  BY <1>1, <1>2, <1>3, InvariantHolds, AmoInvariant, PTL DEF Spec

(* Where no store meets an LR, or memory performs writes before the reads    *)
(* sent after them, an SC stores only to a word that an LR has read and no   *)
(* store or SC of any processor has written to since.                        *)
THEOREM ScsFollowTheirRead ==
  ASSUME StoresApart("LR")
  PROVE  Spec => []ScUnderLink
<1>1. Init => Linked
  BY AmoInit
<1>2. IInv /\ AmoInv /\ Linked /\ [Next]_vars => Linked'
  <2>1. IInv => build \in Builds
    BY Types DEF IInv, OtherTypes
  <2>2. IInv => PromptWrites \/ Apart(build, "LR")
    BY <2>1 DEF StoresApart, PromptWrites
  <2> QED
    BY <2>2, LinkedStep DEF IInv
<1>3. Linked => ScUnderLink
  BY DEF Linked, ScUnderLink
<1> QED
  BY <1>1, <1>2, <1>3, InvariantHolds, AmoInvariant, PTL DEF Spec
=============================================================================
