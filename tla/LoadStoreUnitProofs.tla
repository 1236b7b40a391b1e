------------------------ MODULE LoadStoreUnitProofs -------------------------
(***************************************************************************)
(* Proofs about the load/store unit, for any program, any number of        *)
(* instructions and redirects, any addresses, and any depth of the store   *)
(* buffer of two or more.                                                  *)
(*                                                                         *)
(* The invariant goes from the pipeline to memory.  What is in the unit    *)
(* gives its results in program order (Ordered); what has an effect is the *)
(* oldest instruction or has left (EffectsAtHead); so the writes that are  *)
(* performed come in program order, those in the buffer being the youngest *)
(* to their word (Buffered) and memory holding, lane by lane, the youngest *)
(* of the others (MemHas).  A load without forwarded data has no store to  *)
(* its word in the buffer until it is answered (Alone).  Hence what memory *)
(* or the buffer answers is what the performed writes before the load have *)
(* left (Data), although the load may be ahead of commit.                  *)
(*                                                                         *)
(* The proofs about the store buffer are used through a second instance of *)
(* its module, with the same parameters.                                   *)
(***************************************************************************)
EXTENDS LoadStoreUnit, SequenceTheorems, TLAPS

SBP == INSTANCE StoreBufferProofs

(* A store buffer of one row, and a word at address zero, are taken for an  *)
(* empty buffer and for no store; memory begins at BASE_DMEM.               *)
Memory == STORE_BUF_DEPTH > 1 /\ 0 \notin Addr

U == SB!Unconfirmed

(* What the module of the store buffer's proofs assumes. *)
LEMMA BufferParameters ==
  ASSUME Memory
  PROVE  SBP!DepthAssumption /\ SBP!StoreAssumption /\ SBP!DepthTwo
BY BufferAssumption DEF Memory, SB!DepthAssumption, SB!StoreAssumption,
   SBP!DepthAssumption, SBP!StoreAssumption, SBP!DepthTwo

(* The definitions of the two instances of the store buffer are the same. *)
Same ==
  /\ SB!TypeOK <=> SBP!TypeOK
  /\ SB!MemWr = SBP!MemWr
  /\ SB!Waiting = SBP!Waiting
  /\ SB!Unconfirmed = SBP!Unconfirmed
  /\ \A T : SB!Maybe(T) = SBP!Maybe(T)
  /\ \A a : SB!forward(a) = SBP!forward(a)

LEMMA SameBuffer == Same
<1>1. \A x, y : SB!truncate_idx(x, y) = SBP!truncate_idx(x, y)
  BY DEF SB!truncate_idx, SBP!truncate_idx
<1>2. SB!flush_full <=> SBP!flush_full
  BY DEF SB!flush_full, SBP!flush_full
<1>3. SB!amount = SBP!amount
  BY DEF SB!amount, SBP!amount
<1>4. SB!Waiting = SBP!Waiting
  BY <1>1, <1>3 DEF SB!Waiting, SBP!Waiting
<1>5. SB!Unconfirmed = SBP!Unconfirmed
  BY <1>4 DEF SB!Unconfirmed, SBP!Unconfirmed
<1>6. SB!MemWr = SBP!MemWr
  BY DEF SB!MemWr, SBP!MemWr
<1>7. \A T : SB!Maybe(T) = SBP!Maybe(T)
  BY DEF SB!Maybe, SBP!Maybe
<1>8. SB!TypeOK <=> SBP!TypeOK
  BY <1>6, <1>7 DEF SB!TypeOK, SBP!TypeOK, SB!Idx, SBP!Idx
<1>9. \A a : SB!forward(a) = SBP!forward(a)
  <2> TAKE a
  <2>1. \A k : SB!Searched(k) <=> SBP!Searched(k)
    BY <1>1, <1>2 DEF SB!Searched, SBP!Searched
  <2>2. SB!Hits(a) = SBP!Hits(a)
    BY <1>1, <2>1 DEF SB!Hits, SBP!Hits, SB!Idx, SBP!Idx
  <2>3. SB!internal_forward(a) = SBP!internal_forward(a)
    BY <1>1, <2>2 DEF SB!internal_forward, SBP!internal_forward
  <2> QED
    BY <2>3 DEF SB!forward, SBP!forward, SB!pending_store, SBP!pending_store
<1> QED
  BY <1>4, <1>5, <1>6, <1>7, <1>8, <1>9 DEF Same

LEMMA SameClock ==
  ASSUME NEW put, NEW get, NEW response
  PROVE  SB!Clock(put, get, response) <=> SBP!Clock(put, get, response)
<1>1. \A x, y : SB!truncate_idx(x, y) = SBP!truncate_idx(x, y)
  BY DEF SB!truncate_idx, SBP!truncate_idx
<1>2. SB!enq(put) <=> SBP!enq(put)
  BY <1>1 DEF SB!enq, SBP!enq, SB!flush_full, SBP!flush_full
<1>3. SB!deq(get, response) <=> SBP!deq(get, response)
  BY <1>1 DEF SB!deq, SBP!deq, SB!internal_empty, SBP!internal_empty
<1> QED
  BY <1>2, <1>3 DEF SB!Clock, SBP!Clock

(* The stores that wait and the one on the bus. *)
LEMMA BufferSeq ==
  ASSUME Memory, SB!TypeOK
  PROVE  /\ SB!Waiting \in Seq(SB!MemWr)
         /\ U \in Seq(SB!MemWr)
         /\ \/ pending_buf = <<>> /\ U = SB!Waiting
            \/ /\ pending_buf # <<>> /\ pending_buf[1] \in SB!MemWr
               /\ U # <<>> /\ U[1] = pending_buf[1] /\ Tail(U) = SB!Waiting
<1>1. SB!Waiting \in Seq(SB!MemWr)
  BY BufferParameters, SameBuffer, SBP!WaitingIsSeq DEF Same
<1>2. pending_buf \in SBP!Maybe(SB!MemWr)
  BY SameBuffer DEF SB!TypeOK, Same
<1>3. /\ pending_buf \in Seq(SB!MemWr)
      /\ \/ pending_buf = <<>> /\ Len(pending_buf) = 0
         \/ /\ pending_buf # <<>> /\ Len(pending_buf) = 1
            /\ pending_buf[1] \in SB!MemWr /\ pending_buf = <<pending_buf[1]>>
  BY BufferParameters, <1>2, SBP!MaybeCases
<1>4. CASE pending_buf = <<>>
  BY <1>1, <1>4, ConcatEmptySeq DEF U, SB!Unconfirmed
<1>5. CASE pending_buf # <<>>
  <2> DEFINE p == pending_buf
             W == SB!Waiting
  <2>1. p \in Seq(SB!MemWr) /\ Len(p) = 1 /\ p[1] \in SB!MemWr /\ p = <<p[1]>> /\ U = p \o W
    BY <1>3, <1>5 DEF U, SB!Unconfirmed
  <2>2. /\ U \in Seq(SB!MemWr) /\ Len(U) = 1 + Len(W)
        /\ \A i \in 1 .. 1 + Len(W) : U[i] = IF i <= 1 THEN p[i] ELSE W[i - 1]
    <3>1. p \in Seq(SB!MemWr) /\ W \in Seq(SB!MemWr)
      BY <1>1, <2>1
    <3>2. /\ p \o W \in Seq(SB!MemWr) /\ Len(p \o W) = Len(p) + Len(W)
          /\ \A i \in 1 .. Len(p) + Len(W) : (p \o W)[i] = IF i <= Len(p) THEN p[i] ELSE W[i - Len(p)]
      BY <3>1, ConcatProperties
    <3> HIDE DEF p, W
    <3> QED
      BY <2>1, <3>2
  <2>3. U # <<>> /\ U[1] = p[1]
    BY <1>1, <2>2, EmptySeq, LenProperties
  <2>4. Tail(U) \in Seq(SB!MemWr) /\ Len(Tail(U)) = Len(W) /\ \A i \in 1 .. Len(W) : Tail(U)[i] = W[i]
    BY <1>1, <2>2, <2>3, HeadTailProperties, LenProperties
  <2>5. Tail(U) = W
    BY <1>1, <2>4, SeqEqual
  <2> QED
    BY <2>1, <2>2, <2>3, <2>5
<1> QED
  BY <1>1, <1>4, <1>5

(* What a cycle of the buffer does to the stores that memory has not        *)
(* confirmed: a store joins at the end; the oldest leaves; nothing changes. *)
BufferCycle(put, get, response) ==
  /\ SB!TypeOK
  /\ put = <<>> \/ \E s \in SB!MemWr : put = <<s>>
  /\ get \in BOOLEAN /\ response \in BOOLEAN
  /\ SB!Clock(put, get, response)

LEMMA BufferStep ==
  ASSUME Memory, NEW put, NEW get, NEW response, BufferCycle(put, get, response)
  PROVE  /\ SB!TypeOK'
         /\ SB!Waiting' = (IF get THEN Tail(SB!Waiting) ELSE SB!Waiting) \o put
         /\ get => SB!Waiting # <<>> /\ pending_buf' = <<Head(SB!Waiting)>>
         /\ (~get /\ ~response) => pending_buf' = pending_buf
         /\ (~get /\ response) => pending_buf' = <<>>
         /\ response => pending_buf # <<>>
         /\ get => pending_buf = <<>> \/ response
<1>1. SBP!CycleStep(put, get, response)
  BY SameBuffer, SameClock DEF BufferCycle, SBP!CycleStep, SBP!Maybe, Same
<1>2. Same /\ Same'
  BY SameBuffer, PTL
<1>3. SBP!TypeOK'
  BY <1>1, BufferParameters, SBP!TypeStep
<1>4. /\ SBP!Waiting' = (IF get THEN Tail(SBP!Waiting) ELSE SBP!Waiting) \o put
      /\ get => SBP!Waiting # <<>> /\ pending_buf' = <<Head(SBP!Waiting)>>
  BY <1>1, BufferParameters, SBP!WaitingStep
<1>5. SB!deq(get, response)
  BY DEF BufferCycle, SB!Clock
<1> QED
  BY <1>2, <1>3, <1>4, <1>5 DEF SB!deq, Same

LEMMA PutStep ==
  ASSUME Memory, NEW s \in SB!MemWr, BufferCycle(<<s>>, FALSE, FALSE)
  PROVE  /\ SB!TypeOK' /\ pending_buf' = pending_buf
         /\ Len(U') = Len(U) + 1 /\ U'[Len(U) + 1] = s
         /\ \A k \in 1 .. Len(U) : U'[k] = U[k]
<1> DEFINE W == SB!Waiting
           p == pending_buf
<1>1. SB!TypeOK' /\ pending_buf' = pending_buf /\ W' = W \o <<s>>
  BY BufferStep
<1>2. W \in Seq(SB!MemWr) /\ p \in Seq(SB!MemWr)
  BY BufferSeq, BufferParameters, SameBuffer, SBP!MaybeCases DEF BufferCycle, Same, SB!TypeOK
<1>3. U = p \o W /\ U' = p \o (W \o <<s>>)
  BY <1>1 DEF U, SB!Unconfirmed
<1>4. /\ Len(W \o <<s>>) = Len(W) + 1 /\ W \o <<s>> \in Seq(SB!MemWr)
      /\ (W \o <<s>>)[Len(W) + 1] = s
      /\ \A k \in 1 .. Len(W) : (W \o <<s>>)[k] = W[k]
  BY <1>2
<1> QED
  BY <1>1, <1>2, <1>3, <1>4, ConcatProperties, LenProperties

LEMMA AnsweredStep ==
  ASSUME Memory, BufferCycle(<<>>, FALSE, TRUE)
  PROVE  /\ SB!TypeOK' /\ pending_buf # <<>> /\ pending_buf' = <<>>
         /\ Len(U) \in Nat \ {0} /\ Len(U') = Len(U) - 1
         /\ \A k \in 1 .. Len(U) - 1 : U'[k] = U[k + 1]
<1> DEFINE W == SB!Waiting
<1>1. SB!TypeOK' /\ pending_buf # <<>> /\ pending_buf' = <<>> /\ W' = W \o <<>>
  BY BufferStep
<1>2. W \in Seq(SB!MemWr) /\ U \in Seq(SB!MemWr) /\ U # <<>> /\ Tail(U) = W
  BY <1>1, BufferSeq DEF BufferCycle
<1>3. U' = W
  BY <1>1, <1>2, ConcatEmptySeq DEF U, SB!Unconfirmed
<1> QED
  BY <1>1, <1>2, <1>3, HeadTailProperties, EmptySeq, LenProperties

LEMMA SentStep ==
  ASSUME Memory, BufferCycle(<<>>, TRUE, FALSE)
  PROVE  SB!TypeOK' /\ pending_buf = <<>> /\ pending_buf' # <<>> /\ U' = U
<1> DEFINE W == SB!Waiting
<1>1. /\ SB!TypeOK' /\ pending_buf = <<>> /\ W # <<>> /\ pending_buf' = <<Head(W)>>
      /\ W' = Tail(W) \o <<>>
  BY BufferStep
<1>2. W \in Seq(SB!MemWr) /\ U = W
  BY <1>1, BufferSeq DEF BufferCycle
<1>3. U' = <<Head(W)>> \o Tail(W)
  BY <1>1, <1>2, HeadTailProperties, ConcatEmptySeq DEF U, SB!Unconfirmed
<1>4. <<Head(W)>> \o Tail(W) = W
  <2>1. Head(W) \in SB!MemWr /\ Tail(W) \in Seq(SB!MemWr) /\ Len(Tail(W)) = Len(W) - 1
        /\ Head(W) = W[1] /\ \A i \in 1 .. Len(Tail(W)) : Tail(W)[i] = W[i + 1]
    BY <1>1, <1>2, HeadTailProperties
  <2>2. <<Head(W)>> \in Seq(SB!MemWr) /\ Len(<<Head(W)>>) = 1 /\ <<Head(W)>>[1] = W[1]
    BY <2>1
  <2>3. /\ <<Head(W)>> \o Tail(W) \in Seq(SB!MemWr)
        /\ Len(<<Head(W)>> \o Tail(W)) = 1 + Len(Tail(W))
        /\ \A i \in 1 .. 1 + Len(Tail(W)) : (<<Head(W)>> \o Tail(W))[i] =
             IF i <= 1 THEN <<Head(W)>>[i] ELSE Tail(W)[i - 1]
    BY <2>1, <2>2, ConcatProperties
  <2>4. Len(W) \in Nat
    BY <1>2, LenProperties
  <2>5. \A i \in 1 .. Len(W) : (<<Head(W)>> \o Tail(W))[i] = W[i]
    BY <2>1, <2>2, <2>3, <2>4
  <2> QED
    BY <1>2, <2>1, <2>3, <2>4, <2>5, SeqEqual
<1> QED
  BY <1>1, <1>2, <1>3, <1>4

LEMMA IdleStep ==
  ASSUME Memory, BufferCycle(<<>>, FALSE, FALSE)
  PROVE  SB!TypeOK' /\ pending_buf' = pending_buf /\ U' = U
<1>1. SB!TypeOK' /\ pending_buf' = pending_buf /\ SB!Waiting' = SB!Waiting \o <<>>
  BY BufferStep
<1>2. SB!Waiting \in Seq(SB!MemWr)
  BY BufferSeq DEF BufferCycle
<1> QED
  BY <1>1, <1>2, ConcatEmptySeq DEF U, SB!Unconfirmed

LEMMA BufferUnchanged ==
  ASSUME SB!TypeOK, UNCHANGED sb
  PROVE  SB!TypeOK' /\ pending_buf' = pending_buf /\ U' = U
BY DEF sb, SB!TypeOK, U, SB!Unconfirmed, SB!Waiting, SB!amount, SB!truncate_idx

(* An empty buffer holds no store.                                          *)
LEMMA EmptyHoldsNothing ==
  ASSUME Memory, SB!TypeOK, SB!empty(FALSE)
  PROVE  U = <<>>
<1>1. pending_buf = <<>> /\ SB!amount = 0
  BY DEF SB!empty, SB!internal_empty, SB!amount
<1>2. U = SB!Waiting /\ SB!Waiting \in Seq(SB!MemWr)
  BY <1>1, BufferSeq
<1>3. Len(SB!Waiting) = 0
  BY <1>1 DEF SB!Waiting
<1> QED
  BY <1>2, <1>3, EmptySeq

(* What a load gets from the buffer is the youngest store to its word; it   *)
(* gets nothing only if there is none.                                      *)
LEMMA ForwardIs ==
  ASSUME Memory, SB!TypeOK, NEW a \in Addr
  PROVE  /\ \A k \in 1 .. Len(U) :
              U[k].mem_addr = a => SB!forward(a) # {}
         /\ SB!forward(a) # {} =>
              \E k \in 1 .. Len(U) :
                /\ SB!forward(a) = {U[k]} /\ U[k].mem_addr = a
                /\ \A g \in k + 1 .. Len(U) : U[g].mem_addr # a
<1> DEFINE S == {h \in 1 .. Len(U) : U[h].mem_addr = a}
           Y == {h \in 1 .. Len(U) : U[h].mem_addr = a /\ \A g \in h + 1 .. Len(U) : U[g].mem_addr # a}
<1>1. SB!forward(a) = {U[k] : k \in Y}
  <2>1. SBP!TypeOK /\ a \in Addr \ {0}
    BY SameBuffer DEF Same, Memory
  <2>2. SBP!forward(a) = {SBP!Unconfirmed[k] : k \in
          {h \in 1 .. Len(SBP!Unconfirmed) :
             /\ SBP!Unconfirmed[h].mem_addr = a
             /\ \A g \in h + 1 .. Len(SBP!Unconfirmed) : SBP!Unconfirmed[g].mem_addr # a}}
    BY <2>1, BufferParameters, SBP!YoungestAnswers
  <2>3. SBP!forward(a) = SB!forward(a) /\ SBP!Unconfirmed = U
    BY SameBuffer DEF Same, U
  <2> QED
    BY <2>2, <2>3
<1>2. Len(U) \in Nat
  BY BufferSeq, LenProperties
<1>3. ASSUME S # {} PROVE Y # {}
  <2>0. S \subseteq 0 .. Len(U)
    BY <1>2
  <2>1. PICK k \in S : \A g \in S : g <= k
    <3> HIDE DEF S
    <3> QED
      BY <1>2, <1>3, <2>0, BufferParameters, SBP!LastOf
  <2> QED
    BY <1>2, <2>1
<1>4. \A h, k \in Y : h = k
  BY <1>2
<1> QED
  <2>1. \A k \in 1 .. Len(U) : U[k].mem_addr = a => SB!forward(a) # {}
    BY <1>1, <1>3
  <2>2. ASSUME SB!forward(a) # {}
        PROVE \E k \in 1 .. Len(U) :
                /\ SB!forward(a) = {U[k]} /\ U[k].mem_addr = a
                /\ \A g \in k + 1 .. Len(U) : U[g].mem_addr # a
    BY <1>1, <1>4, <2>2
  <2> QED
    BY <2>1, <2>2

-----------------------------------------------------------------------------
(* Types.                                                                   *)
LEMMA StageCases ==
  ASSUME NEW stage \in Stage
  PROVE  \/ stage = <<>>
         \/ /\ stage # <<>> /\ Len(stage) = 1 /\ stage = <<stage[1]>>
            /\ stage[1].op \in Op /\ stage[1].mispredicted \in BOOLEAN
            /\ \/ stage[1].fwd = {}
               \/ \E s \in SB!MemWr : stage[1].fwd = {s}
BY DEF Stage, LoadPipe

LEMMA StageIs ==
  ASSUME NEW i \in Op, NEW m \in BOOLEAN, NEW f, f = {} \/ \E s \in SB!MemWr : f = {s}
  PROVE  <<LoadPipe(i, m, f)>> \in Stage
BY DEF Stage

LEMMA MaybeIs ==
  ASSUME NEW T
  PROVE  /\ <<>> \in SB!Maybe(T)
         /\ \A x \in T : <<x>> \in SB!Maybe(T)
         /\ \A m \in SB!Maybe(T) : m # <<>> => Len(m) = 1 /\ m[1] \in T /\ m = <<m[1]>>
BY DEF SB!Maybe

(* What the fields of an instruction can be. *)
LEMMA OpTyped ==
  ASSUME TypeOK, NEW i \in 1 .. Len(ops)
  PROVE  /\ i \in Op /\ ops[i] \in OpSet /\ ops[i].kind \in {"LOAD", "STORE", "AMO"}
         /\ ops[i].addr \in Addr /\ ops[i].mask \in SUBSET Lane /\ ops[i].misaligned \in BOOLEAN
         /\ ops[i].kind = "AMO" => ops[i].mask = Lane
<1>1. ops[i] \in OpSet /\ i \in Op
  BY BoundAssumption DEF TypeOK, Op
<1> QED
  BY <1>1, OpAssumption DEF OpType

(* The part of an instruction's type that an answer needs. *)
LEMMA WordIs ==
  ASSUME NEW i \in Op
  PROVE  /\ NoWord \in Word
         /\ [l \in Lane |-> i] \in Word
         /\ \A w \in Word : Taken(i, w) \in Word
BY BoundAssumption DEF NoWord, Word, Op, Taken

TypeCpu ==
  /\ ops \in Seq(OpSet) /\ Len(ops) <= MaxOps
  /\ op_epoch \in Seq(Nat) /\ Len(op_epoch) = Len(ops)
  /\ \A i \in 1 .. Len(ops) : op_epoch[i] <= epoch
  /\ retired \in 0 .. Len(ops) /\ at_head \in BOOLEAN /\ committed \subseteq 1 .. retired
  /\ redirects \in 0 .. MaxRedirects /\ epoch \in Nat

TypePipe ==
  /\ result \in [Op -> SB!Maybe(Word)]
  /\ in \in SB!Maybe(1 .. Len(ops))
  /\ stage1 \in Stage /\ stage2 \in Stage /\ stage3 \in Stage /\ aq_r \in BOOLEAN

TypeBus ==
  /\ mem \in [Addr -> Word] /\ written \in BOOLEAN
  /\ read_rq \in SB!Maybe(Op) /\ read_rs \in SB!Maybe(Word)
  /\ effects \subseteq 1 .. Len(ops)

LEMMA TypeParts == TypeOK <=> TypeCpu /\ TypePipe /\ TypeBus /\ SB!TypeOK
BY DEF TypeOK, TypeCpu, TypePipe, TypeBus

(* Only a new instruction and the arrival of results change the program.    *)
LEMMA CpuStep ==
  ASSUME TypeOK, Next
  PROVE  /\ TypeCpu'
         /\ \/ cpu' = cpu
            \/ Arrive \/ HeadReached \/ Retire \/ Redirect
         /\ Len(ops) <= Len(ops') /\ Len(ops) \in Nat
         /\ \A i \in 1 .. Len(ops) : ops'[i] = ops[i] /\ op_epoch'[i] = op_epoch[i]
         /\ Arrive \/ ops' = ops
<1>1. Len(ops) \in Nat /\ TypeCpu
  BY LenProperties, TypeParts DEF TypeCpu
<1>2. CASE cpu' = cpu
  BY <1>1, <1>2 DEF TypeCpu, cpu
<1>3. CASE Arrive
  <2>1. PICK o \in OpSet, e \in 0 .. epoch :
          /\ ops' = Append(ops, o) /\ op_epoch' = Append(op_epoch, e)
    BY <1>3 DEF Arrive
  <2>2. /\ Len(ops') = Len(ops) + 1 /\ ops' \in Seq(OpSet)
        /\ Len(op_epoch') = Len(ops) + 1 /\ op_epoch' \in Seq(Nat)
        /\ \A i \in 1 .. Len(ops) : ops'[i] = ops[i] /\ op_epoch'[i] = op_epoch[i]
        /\ op_epoch'[Len(ops) + 1] = e
    BY <1>1, <2>1 DEF TypeCpu
  <2>3. /\ Len(ops) < MaxOps
        /\ UNCHANGED <<epoch, retired, at_head, committed, redirects>>
    BY <1>3 DEF Arrive
  <2> QED
    BY <1>1, <1>3, <2>1, <2>2, <2>3, BoundAssumption DEF TypeCpu
<1>4. CASE HeadReached
  BY <1>1, <1>4 DEF HeadReached, TypeCpu
<1>5. CASE Retire
  <2>1. /\ UNCHANGED <<ops, op_epoch, redirects>> /\ at_head' = FALSE
        /\ retired' = retired + 1 /\ retired < Len(ops)
        /\ epoch' = epoch + 1 \/ epoch' = epoch
        /\ committed' \subseteq committed \cup {retired + 1}
    BY <1>5 DEF Retire
  <2>2. retired' \in 0 .. Len(ops) /\ committed' \subseteq 1 .. retired' /\ epoch' \in Nat /\ epoch <= epoch'
    BY <1>1, <2>1 DEF TypeCpu
  <2>4. \A i \in 1 .. Len(ops) : op_epoch[i] \in Nat /\ op_epoch[i] <= epoch /\ epoch \in Nat
    BY <1>1, ElementOfSeq DEF TypeCpu
  <2>5. \A i \in 1 .. Len(ops') : op_epoch'[i] <= epoch'
    BY <2>1, <2>2, <2>4
  <2>3. TypeCpu'
    BY <1>1, <2>1, <2>2, <2>5 DEF TypeCpu
  <2> QED
    BY <1>1, <1>5, <2>1, <2>3
<1>6. CASE Redirect
  BY <1>1, <1>6, BoundAssumption DEF Redirect, TypeCpu
<1>7. cpu' = cpu \/ Arrive \/ HeadReached \/ Retire \/ Redirect
  BY DEF Next, Unit, calculate_store, calculate_store_flush, calc_addr_load, flush_invalid_loads,
     check_fwd_path_resp, flush_invalid_fwds, request_axi_if_needed, flush_invalid_axi_rq,
     collect_result_read_bypass, collect_result_read, collect_result_mispredict,
     StoreSent, StoreAnswered, FullFlushed, MemoryWrites, MemoryReads
<1> QED
  BY <1>2, <1>3, <1>4, <1>5, <1>6, <1>7

(* The store an instruction puts into the buffer. *)
StoreOf(i) == [mem_addr |-> ops[i].addr, payload |-> [data |-> i, mask |-> ops[i].mask]]

(* The three ways in which a step can change the buffer and its stores.     *)
StoreEnters ==
  /\ calculate_store /\ ~ops[in[1]].misaligned
  /\ pending_buf' = pending_buf
  /\ Len(U') = Len(U) + 1 /\ U'[Len(U) + 1] = StoreOf(in[1])
  /\ \A k \in 1 .. Len(U) : U'[k] = U[k]
StoreLeaves ==
  /\ StoreAnswered
  /\ pending_buf # <<>> /\ pending_buf' = <<>>
  /\ Len(U) \in Nat \ {0} /\ Len(U') = Len(U) - 1
  /\ \A k \in 1 .. Len(U) - 1 : U'[k] = U[k + 1]
StoresStay ==
  /\ U' = U /\ (pending_buf' = pending_buf \/ (pending_buf = <<>> /\ pending_buf' # <<>>))
  /\ calculate_store => ops[in[1]].misaligned
  /\ ~StoreAnswered

LEMMA BufferOfStep ==
  ASSUME Memory, TypeOK, Next
  PROVE  SB!TypeOK' /\ (StoreEnters \/ StoreLeaves \/ StoresStay)
<1>0. SB!TypeOK /\ Memory
  BY TypeParts
<1>1. CASE calculate_store /\ ~ops[in[1]].misaligned
  <2>1. in # <<>> /\ in[1] \in 1 .. Len(ops)
    BY <1>1, MaybeIs, TypeParts DEF calculate_store, TypePipe
  <2>2. StoreOf(in[1]) \in SB!MemWr
    BY <2>1, OpTyped DEF StoreOf, SB!MemWr, Payload
  <2>3. SB!Clock(<<StoreOf(in[1])>>, FALSE, FALSE)
    BY <1>1 DEF calculate_store, StoreOf
  <2>4. BufferCycle(<<StoreOf(in[1])>>, FALSE, FALSE)
    BY <1>0, <2>2, <2>3 DEF BufferCycle
  <2> QED
    BY <1>0, <1>1, <2>2, <2>4, PutStep DEF StoreEnters
<1>2. CASE StoreAnswered
  <2>1. BufferCycle(<<>>, FALSE, TRUE)
    BY <1>0, <1>2 DEF BufferCycle, StoreAnswered
  <2> QED
    BY <1>0, <1>2, <2>1, AnsweredStep DEF StoreLeaves
<1>3. CASE StoreSent
  <2>1. BufferCycle(<<>>, TRUE, FALSE)
    BY <1>0, <1>3 DEF BufferCycle, StoreSent
  <2>2. SB!TypeOK' /\ pending_buf = <<>> /\ pending_buf' # <<>> /\ U' = U
    BY <1>0, <2>1, SentStep
  <2>3. in' = in /\ written' = written
    BY <1>3 DEF StoreSent, pipe, bus
  <2>4. ~calculate_store
    BY <2>3 DEF calculate_store
  <2>5. ~StoreAnswered
    BY <2>3 DEF StoreAnswered
  <2> QED
    BY <2>2, <2>4, <2>5 DEF StoresStay
<1>4. CASE FullFlushed
  <2>1. BufferCycle(<<>>, FALSE, FALSE)
    BY <1>0, <1>4 DEF BufferCycle, FullFlushed
  <2>2. SB!TypeOK' /\ pending_buf' = pending_buf /\ U' = U
    BY <1>0, <2>1, IdleStep
  <2>3. in' = in /\ written' = written
    BY <1>4 DEF FullFlushed, pipe, bus
  <2>4. ~calculate_store
    BY <2>3 DEF calculate_store
  <2>5. ~StoreAnswered
    BY <2>3 DEF StoreAnswered
  <2> QED
    BY <2>2, <2>4, <2>5 DEF StoresStay
<1>5. CASE UNCHANGED sb /\ (calculate_store => ops[in[1]].misaligned)
  <2>1. SB!TypeOK' /\ pending_buf' = pending_buf /\ U' = U
    BY <1>0, <1>5, BufferUnchanged
  <2>2. ASSUME StoreAnswered PROVE FALSE
    <3>1. BufferCycle(<<>>, FALSE, TRUE)
      BY <1>0, <2>2 DEF BufferCycle, StoreAnswered
    <3>2. pending_buf # <<>> /\ pending_buf' = <<>>
      BY <1>0, <3>1, AnsweredStep
    <3> QED
      BY <2>1, <3>2
  <2> QED
    BY <1>5, <2>1, <2>2 DEF StoresStay
<1>6. CASE Unit /\ ~calculate_store
  <2>1. UNCHANGED sb
    BY <1>6 DEF Unit, calculate_store_flush, calc_addr_load, flush_invalid_loads,
       check_fwd_path_resp, flush_invalid_fwds, request_axi_if_needed, flush_invalid_axi_rq,
       collect_result_read_bypass, collect_result_read, collect_result_mispredict
  <2> QED
    BY <1>5, <1>6, <2>1
<1>7. CASE calculate_store /\ ops[in[1]].misaligned
  <2>1. UNCHANGED sb
    BY <1>7 DEF calculate_store
  <2> QED
    BY <1>5, <1>7, <2>1
<1>8. CASE MemoryWrites \/ MemoryReads \/ Arrive \/ HeadReached \/ Retire \/ Redirect
  <2>1. UNCHANGED sb
    BY <1>8 DEF MemoryWrites, MemoryReads, Arrive, HeadReached, Retire, Redirect
  <2>2. in' = in \/ in = <<>>
    BY <1>8 DEF MemoryWrites, MemoryReads, Arrive, HeadReached, Retire, Redirect, pipe
  <2>3. ~calculate_store
    BY <2>2 DEF calculate_store
  <2> QED
    BY <1>5, <2>1, <2>3
<1> QED
  BY <1>1, <1>2, <1>3, <1>4, <1>6, <1>7, <1>8 DEF Next

Holds(stage, i) == stage # <<>> /\ stage[1].op = i
Good(stage)     == stage # <<>> /\ ~stage[1].mispredicted
InPipe(i)       == Holds(stage1, i) \/ Holds(stage2, i) \/ Holds(stage3, i)

(* Instructions are in the pipeline, and give their results, in the order   *)
(* in which they have arrived; what has left the reorder buffer has one.    *)
Ordered ==
  /\ in # <<>> => in[1] = Len(ops) /\ result[in[1]] = <<>>
  /\ \A i \in Op : InPipe(i) =>
       /\ i <= Len(ops) /\ ops[i].kind # "STORE"
       /\ in # <<>> => i < in[1]
       /\ \A j \in i .. Len(ops) : ops[j].kind # "STORE" => result[j] = <<>>
  /\ \A i, j \in Op :
       /\ Holds(stage2, i) /\ Holds(stage1, j) => i < j
       /\ Holds(stage3, i) /\ Holds(stage1, j) => i < j
       /\ Holds(stage3, i) /\ Holds(stage2, j) => i < j
  /\ \A j \in Op : j > Len(ops) => result[j] = <<>>
  /\ \A j \in 1 .. retired : result[j] # <<>>

(* Each rule moves instructions of the unit by at most one stage.           *)
LEMMA TypeStep ==
  ASSUME Memory, TypeOK, Ordered, OneReadOnItsWay, Next
  PROVE  TypeOK'
<1>1. TypeCpu /\ TypePipe /\ TypeBus /\ SB!TypeOK /\ TypeCpu' /\ SB!TypeOK'
  BY TypeParts, CpuStep, BufferOfStep
<1>2. Len(ops) \in Nat /\ Len(ops') \in Nat /\ Len(ops) <= Len(ops')
  BY <1>1, CpuStep, LenProperties DEF TypeCpu
<1>3. 1 .. Len(ops) \subseteq Op /\ 1 .. Len(ops) \subseteq 1 .. Len(ops')
  BY <1>1, <1>2, BoundAssumption DEF TypeCpu, Op
<1>4. ASSUME NEW i \in Op, NEW w \in Word
      PROVE  [result EXCEPT ![i] = <<w>>] \in [Op -> SB!Maybe(Word)]
  BY <1>1, MaybeIs DEF TypePipe
<1>5. in \in SB!Maybe(1 .. Len(ops')) /\ (in # <<>> => in[1] \in 1 .. Len(ops) /\ in[1] \in Op)
  BY <1>1, <1>3, MaybeIs DEF TypePipe, SB!Maybe
<1>6. \A st \in Stage : st # <<>> => st[1].op \in Op /\ st[1].mispredicted \in BOOLEAN
                                      /\ (st[1].fwd = {} \/ \E s \in SB!MemWr : st[1].fwd = {s})
  BY StageCases
<1>8. ASSUME NEW st \in {stage1, stage2, stage3}, st # <<>>
      PROVE  st[1].op \in 1 .. Len(ops) /\ ops[st[1].op].addr \in Addr
  <2>1. st[1].op \in Op
    BY <1>1, <1>6, <1>8 DEF TypePipe
  <2>2. InPipe(st[1].op)
    BY <1>8 DEF InPipe, Holds
  <2>3. st[1].op \in 1 .. Len(ops)
    BY <1>2, <2>1, <2>2, BoundAssumption DEF Ordered, Op
  <2> QED
    BY <2>3, OpTyped
<1>9. <<>> \in Stage
  BY DEF Stage
<1>7. TypePipe'
  <2>1. CASE calculate_store
    BY <1>1, <1>4, <1>5, <2>1, MaybeIs, WordIs DEF calculate_store, answer, TypePipe
  <2>2. CASE calculate_store_flush
    BY <1>1, <1>4, <1>5, <2>2, MaybeIs, WordIs DEF calculate_store_flush, answer, TypePipe
  <2>3. CASE calc_addr_load
    BY <1>1, <1>5, <2>3, MaybeIs, StageIs DEF calc_addr_load, set_aq, TypePipe
  <2>4. CASE flush_invalid_loads
    BY <1>1, <1>5, <2>4, MaybeIs, StageIs DEF flush_invalid_loads, TypePipe
  <2>5. CASE check_fwd_path_resp
    <3> DEFINE i == stage1[1].op
    <3>1. stage1 # <<>> /\ stage2' = <<LoadPipe(i, FALSE, probe(i))>>
      BY <2>5 DEF check_fwd_path_resp, live
    <3>2. i \in Op /\ ops[i].addr \in Addr
      BY <1>3, <1>8, <3>1
    <3>3. U \in Seq(SB!MemWr)
      BY <1>1, BufferSeq
    <3>4. probe(i) = {} \/ \E s \in SB!MemWr : probe(i) = {s}
      BY <1>1, <3>2, <3>3, ForwardIs, ElementOfSeq DEF probe
    <3>5. stage2' \in Stage
      BY <3>1, <3>2, <3>4, StageIs
    <3> QED
      BY <1>1, <1>5, <1>9, <2>5, <3>5 DEF check_fwd_path_resp, TypePipe
  <2>6. CASE flush_invalid_fwds
    <3>1. stage1 # <<>> /\ stage2' = <<LoadPipe(stage1[1].op, TRUE, {})>> /\ stage1' = <<>>
          /\ UNCHANGED <<result, in, stage3>> /\ aq_r' \in {FALSE, aq_r} /\ ops' = ops
      BY <2>6 DEF flush_invalid_fwds, dead, clear_aq, cpu
    <3> QED
      BY <1>1, <1>5, <1>6, <1>9, <3>1, StageIs DEF TypePipe
  <2>7. CASE request_axi_if_needed
    BY <1>1, <1>5, <1>9, <2>7 DEF request_axi_if_needed, TypePipe
  <2>8. CASE flush_invalid_axi_rq
    <3>1. stage2 # <<>> /\ stage3' = <<LoadPipe(stage2[1].op, TRUE, {})>> /\ stage2' = <<>>
          /\ UNCHANGED <<result, in, stage1>> /\ aq_r' \in {FALSE, aq_r}
      BY <2>8 DEF flush_invalid_axi_rq, dead, clear_aq
    <3> QED
      BY <1>1, <1>5, <1>6, <1>9, <3>1, StageIs DEF TypePipe
  <2>9. CASE collect_result_read_bypass
    <3>1. PICK s \in stage3[1].fwd :
            answer(stage3[1].op, Taken(stage3[1].op, [l \in Lane |-> s.payload.data]))
      BY <2>9 DEF collect_result_read_bypass
    <3>2. stage3 # <<>> /\ stage3[1].op \in Op /\ s \in SB!MemWr
      BY <1>1, <1>6, <2>9, <3>1 DEF collect_result_read_bypass, TypePipe
    <3>3. s.payload.data \in Op
      BY <3>2 DEF SB!MemWr, Payload
    <3>4. Taken(stage3[1].op, [l \in Lane |-> s.payload.data]) \in Word
      BY <3>2, <3>3, WordIs
    <3>5. result' \in [Op -> SB!Maybe(Word)]
      BY <1>4, <3>1, <3>2, <3>4 DEF answer
    <3> QED
      BY <1>1, <1>5, <1>9, <2>9, <3>5 DEF collect_result_read_bypass, TypePipe
  <2>10. CASE collect_result_read
    <3>1. stage3 # <<>> /\ stage3[1].op \in Op /\ read_rs[1] \in Word
      BY <1>1, <1>6, <2>10, MaybeIs DEF collect_result_read, TypePipe, TypeBus
    <3>2. Taken(stage3[1].op, read_rs[1]) \in Word
      BY <3>1, WordIs
    <3>3. result' \in [Op -> SB!Maybe(Word)]
      BY <1>4, <2>10, <3>1, <3>2 DEF collect_result_read, answer
    <3>4. stage3' = <<>> /\ UNCHANGED <<in, stage1, stage2>> /\ aq_r' \in {FALSE, aq_r}
      BY <2>10 DEF collect_result_read, clear_aq
    <3> QED
      BY <1>1, <1>5, <1>9, <3>3, <3>4 DEF TypePipe
  <2>11. CASE collect_result_mispredict
    <3>1. stage3 # <<>> /\ stage3[1].op \in Op
      BY <1>1, <1>6, <2>11 DEF collect_result_mispredict, TypePipe
    <3>2. result' \in [Op -> SB!Maybe(Word)]
      BY <1>4, <2>11, <3>1, WordIs DEF collect_result_mispredict, answer
    <3>3. stage3' = <<>> /\ UNCHANGED <<in, stage1, stage2>> /\ aq_r' \in {FALSE, aq_r}
      BY <2>11 DEF collect_result_mispredict, clear_aq
    <3> QED
      BY <1>1, <1>5, <1>9, <3>2, <3>3 DEF TypePipe
  <2>12. CASE StoreSent \/ StoreAnswered \/ FullFlushed \/ MemoryWrites \/ MemoryReads
    BY <1>1, <1>5, <2>12
       DEF StoreSent, StoreAnswered, FullFlushed, MemoryWrites, MemoryReads, pipe, TypePipe
  <2>13. CASE Arrive
    <3>1. in' = <<Len(ops) + 1>> /\ Len(ops') = Len(ops) + 1
          /\ UNCHANGED <<result, stage1, stage2, stage3, aq_r>>
      BY <1>1, <2>13 DEF Arrive, TypeCpu
    <3>2. in' \in SB!Maybe(1 .. Len(ops'))
      BY <1>2, <3>1, MaybeIs
    <3> QED
      BY <1>1, <3>1, <3>2 DEF TypePipe
  <2>14. CASE HeadReached \/ Retire \/ Redirect
    BY <1>1, <1>5, <2>14 DEF HeadReached, Retire, Redirect, pipe, TypePipe
  <2> QED
    BY <2>1, <2>2, <2>3, <2>4, <2>5, <2>6, <2>7, <2>8, <2>9, <2>10, <2>11, <2>12, <2>13, <2>14
       DEF Next, Unit
<1>10. TypeBus'
  <2>1. effects \subseteq 1 .. Len(ops')
    BY <1>1, <1>3 DEF TypeBus
  <2>2. CASE calculate_store
    BY <1>1, <1>3, <1>5, <2>1, <2>2 DEF calculate_store, TypeBus, bus
  <2>3. CASE request_axi_if_needed
    <3>1. stage2 # <<>> /\ stage2[1].op \in Op /\ stage2[1].op \in 1 .. Len(ops')
      BY <1>3, <1>8, <2>3 DEF request_axi_if_needed, live
    <3>2. read_rq' = read_rq \/ read_rq' = <<stage2[1].op>>
      BY <2>3 DEF request_axi_if_needed
    <3>3. effects' \subseteq effects \cup {stage2[1].op}
      BY <2>3 DEF request_axi_if_needed
    <3>4. UNCHANGED <<mem, written, read_rs>>
      BY <2>3 DEF request_axi_if_needed
    <3> QED
      BY <1>1, <2>1, <3>1, <3>2, <3>3, <3>4, MaybeIs DEF TypeBus
  <2>4. CASE collect_result_read
    BY <1>1, <2>1, <2>4, MaybeIs DEF collect_result_read, TypeBus
  <2>5. CASE MemoryWrites
    <3> DEFINE s == pending_buf[1]
               w == [l \in Lane |-> IF l \in s.payload.mask THEN s.payload.data ELSE mem[s.mem_addr][l]]
    <3>1. s \in SB!MemWr
      BY <1>1, <2>5, BufferSeq DEF MemoryWrites
    <3>2. s.payload.data \in Op /\ s.mem_addr \in Addr
      BY <3>1 DEF SB!MemWr, Payload
    <3>3. mem' = [mem EXCEPT ![s.mem_addr] = w]
      BY <2>5 DEF MemoryWrites
    <3>4. mem[s.mem_addr] \in Word
      BY <1>1, <3>2 DEF TypeBus
    <3>5. w \in Word
      BY <3>2, <3>4, BoundAssumption DEF Word, Op
    <3>6. mem' \in [Addr -> Word]
      <4> HIDE DEF w, s
      <4> QED
        BY <1>1, <3>2, <3>3, <3>5 DEF TypeBus
    <3> QED
      BY <1>1, <2>1, <2>5, <3>6 DEF MemoryWrites, TypeBus
  <2>6. CASE MemoryReads
    <3> DEFINE i == read_rq[1]
    <3>1. i \in Op /\ read_rq # <<>>
      BY <1>1, <2>6, MaybeIs DEF MemoryReads, TypeBus
    <3>2. stage3 # <<>> /\ i = stage3[1].op
      <4>1. Len(read_rq) = 1
        BY <1>1, <3>1, MaybeIs DEF TypeBus
      <4>2. Len(read_rs) \in Nat
        BY <1>1, MaybeIs DEF TypeBus, SB!Maybe
      <4> QED
        BY <3>1, <4>1, <4>2 DEF OneReadOnItsWay
    <3>3. ops[i].addr \in Addr
      BY <1>8, <3>2
    <3>4. mem[ops[i].addr] \in Word /\ [l \in Lane |-> i] \in Word
      BY <1>1, <3>1, <3>3, WordIs DEF TypeBus
    <3>5. /\ read_rs' = <<mem[ops[i].addr]>> /\ read_rq' = <<>>
          /\ mem' = mem \/ mem' = [mem EXCEPT ![ops[i].addr] = [l \in Lane |-> i]]
          /\ UNCHANGED <<written, effects>>
      BY <2>6 DEF MemoryReads
    <3>6. mem' \in [Addr -> Word]
      <4> HIDE DEF i
      <4> QED
        BY <1>1, <3>3, <3>4, <3>5 DEF TypeBus
    <3> QED
      BY <1>1, <2>1, <3>4, <3>5, <3>6, MaybeIs DEF TypeBus
  <2>7. CASE StoreAnswered
    BY <1>1, <2>1, <2>7 DEF StoreAnswered, TypeBus
  <2>8. CASE UNCHANGED <<bus, effects>>
    BY <1>1, <2>1, <2>8 DEF TypeBus, bus
  <2>9. UNCHANGED <<bus, effects>> \/ calculate_store \/ request_axi_if_needed \/ collect_result_read
        \/ MemoryWrites \/ MemoryReads \/ StoreAnswered
    BY DEF Next, Unit, calculate_store_flush, calc_addr_load, flush_invalid_loads,
       check_fwd_path_resp, flush_invalid_fwds, flush_invalid_axi_rq,
       collect_result_read_bypass, collect_result_mispredict,
       StoreSent, FullFlushed, Arrive, HeadReached, Retire, Redirect
  <2> QED
    BY <2>2, <2>3, <2>4, <2>5, <2>6, <2>7, <2>8, <2>9
<1> QED
  BY <1>1, <1>7, <1>10, TypeParts, PTL

-----------------------------------------------------------------------------
(* How the instructions move: a store leaves the unit; an instruction       *)
(* enters the pipeline, is probed, requested, answered; or nothing moves.   *)
StoreMoves ==
  /\ in # <<>> /\ ops[in[1]].kind = "STORE" /\ in' = <<>>
  /\ answer(in[1], NoWord)
  /\ calculate_store \/ ~current_epoch(in[1])
  /\ UNCHANGED <<cpu, stage1, stage2, stage3, bus>>
  /\ effects' = effects \/ (calculate_store /\ ~ops[in[1]].misaligned)

Enters ==
  /\ in # <<>> /\ ops[in[1]].kind # "STORE" /\ in' = <<>>
  /\ stage1 = <<>>
  /\ \E m \in BOOLEAN : /\ stage1' = <<LoadPipe(in[1], m, {})>>
                        /\ m => ~current_epoch(in[1])
  /\ UNCHANGED <<cpu, result, stage2, stage3, sb, bus, effects>>

IsProbed ==
  /\ stage1 # <<>> /\ stage1' = <<>> /\ stage2 = <<>>
  /\ \/ /\ stage2' = <<LoadPipe(stage1[1].op, FALSE, probe(stage1[1].op))>>
        /\ will_do(stage1[1].op, probe(stage1[1].op)) /\ ~stage1[1].mispredicted
     \/ stage2' = <<LoadPipe(stage1[1].op, TRUE, {})>> /\ dead(stage1)
  /\ UNCHANGED <<cpu, result, in, stage3, sb, bus, effects>>

IsRequested ==
  /\ stage2 # <<>> /\ stage2' = <<>> /\ stage3 = <<>>
  /\ \/ request_axi_if_needed
     \/ /\ stage3' = <<LoadPipe(stage2[1].op, TRUE, {})>> /\ dead(stage2)
        /\ UNCHANGED <<bus, effects>>
  /\ UNCHANGED <<cpu, result, in, stage1, sb, mem, written, read_rs>>

IsAnswered ==
  /\ stage3 # <<>> /\ stage3' = <<>>
  /\ collect_result_read_bypass \/ collect_result_read \/ collect_result_mispredict
  /\ \E w : answer(stage3[1].op, w)
  /\ UNCHANGED <<cpu, in, stage1, stage2, sb, mem, written, read_rq, effects>>

Stays ==
  /\ UNCHANGED <<in, stage1, stage2, stage3, result, effects>>
  /\ \/ UNCHANGED <<cpu, read_rq, read_rs>>
     \/ MemoryReads
     \/ (HeadReached \/ Retire \/ Redirect) /\ UNCHANGED <<ops, op_epoch, sb, bus>>

(* What a step does to the pipeline: a store leaves it, an instruction enters *)
(* it, is probed, requested or answered, stays, or arrives.                 *)
LEMMA MoveOfStep ==
  ASSUME Next
  PROVE  StoreMoves \/ Enters \/ IsProbed \/ IsRequested \/ IsAnswered \/ Stays \/ Arrive
<1>1. calculate_store \/ calculate_store_flush => StoreMoves
  BY DEF calculate_store, calculate_store_flush, StoreMoves
<1>2. calc_addr_load \/ flush_invalid_loads => Enters
  BY DEF calc_addr_load, flush_invalid_loads, Enters
<1>3. check_fwd_path_resp \/ flush_invalid_fwds => IsProbed
  BY DEF check_fwd_path_resp, flush_invalid_fwds, IsProbed, live, dead
<1>4. request_axi_if_needed \/ flush_invalid_axi_rq => IsRequested
  BY DEF request_axi_if_needed, flush_invalid_axi_rq, IsRequested, live, dead, bus
<1>5. collect_result_read_bypass \/ collect_result_read \/ collect_result_mispredict => IsAnswered
  BY DEF collect_result_read_bypass, collect_result_read, collect_result_mispredict, IsAnswered, answer, bus
<1>6. StoreSent \/ StoreAnswered \/ FullFlushed \/ MemoryWrites \/ MemoryReads
      \/ HeadReached \/ Retire \/ Redirect => Stays
  BY DEF StoreSent, StoreAnswered, FullFlushed, MemoryWrites, MemoryReads, HeadReached, Retire,
     Redirect, Stays, pipe, bus
<1> QED
  BY <1>1, <1>2, <1>3, <1>4, <1>5, <1>6 DEF Next, Unit

LEMMA StageOps ==
  ASSUME TypeOK, Ordered
  PROVE  /\ \A st \in {stage1, stage2, stage3} : st # <<>> => st[1].op \in 1 .. Len(ops) /\ st[1].op \in Op
         /\ in # <<>> => in[1] \in 1 .. Len(ops) /\ in[1] \in Op
         /\ Len(ops) \in Nat /\ 1 .. Len(ops) \subseteq Op
<1>1. TypeCpu /\ TypePipe
  BY TypeParts
<1>2. Len(ops) \in Nat /\ 1 .. Len(ops) \subseteq Op
  BY <1>1, LenProperties, BoundAssumption DEF TypeCpu, Op
<1>3. ASSUME NEW st \in {stage1, stage2, stage3}, st # <<>>
      PROVE  st[1].op \in 1 .. Len(ops) /\ st[1].op \in Op
  <2>1. st[1].op \in Op
    BY <1>1, <1>3, StageCases DEF TypePipe
  <2>2. InPipe(st[1].op)
    BY <1>3 DEF InPipe, Holds
  <2> QED
    BY <1>2, <2>1, <2>2, BoundAssumption DEF Ordered, Op
<1>4. in # <<>> => in[1] \in 1 .. Len(ops)
  BY <1>1, MaybeIs DEF TypePipe
<1> QED
  BY <1>2, <1>3, <1>4

(* An instruction moves to a stage that is empty, and arrives behind all others. *)
LEMMA OrderedStep ==
  ASSUME TypeOK, Ordered, Next
  PROVE  Ordered'
<1>1. /\ \A st \in {stage1, stage2, stage3} : st # <<>> => st[1].op \in 1 .. Len(ops) /\ st[1].op \in Op
      /\ in # <<>> => in[1] \in 1 .. Len(ops) /\ in[1] \in Op
      /\ Len(ops) \in Nat /\ 1 .. Len(ops) \subseteq Op
  BY StageOps
<1>2. result \in [Op -> SB!Maybe(Word)] /\ retired \in 0 .. Len(ops)
  BY TypeParts DEF TypeCpu, TypePipe
<1>3. ASSUME NEW i \in Op, NEW w, answer(i, w)
      PROVE  result'[i] # <<>> /\ \A j \in Op : j # i => result'[j] = result[j]
  BY <1>2, <1>3 DEF answer
<1>4. CASE StoreMoves
  <2>1. /\ in[1] \in Op /\ result'[in[1]] # <<>> /\ in' = <<>>
        /\ in[1] = Len(ops) /\ ops[in[1]].kind = "STORE"
        /\ \A j \in Op : j # in[1] => result'[j] = result[j]
    BY <1>1, <1>3, <1>4 DEF StoreMoves, Ordered
  <2>2. UNCHANGED <<ops, retired, stage1, stage2, stage3>>
    BY <1>4 DEF StoreMoves, cpu
  <2> QED
    BY <1>1, <1>2, <2>1, <2>2 DEF Ordered, InPipe, Holds
<1>5. CASE Enters
  <2>1. /\ UNCHANGED <<ops, retired, result, stage2, stage3>> /\ in' = <<>>
        /\ stage1' # <<>> /\ stage1'[1].op = in[1] /\ in[1] = Len(ops) /\ stage1 = <<>>
        /\ ops[in[1]].kind # "STORE" /\ result[in[1]] = <<>> /\ in # <<>>
    BY <1>5 DEF Enters, LoadPipe, cpu, Ordered
  <2> QED
    BY <1>1, <1>2, <2>1 DEF Ordered, InPipe, Holds
<1>6. CASE IsProbed
  <2>1. /\ UNCHANGED <<ops, retired, result, in, stage3>> /\ stage1' = <<>>
        /\ stage2' # <<>> /\ stage2'[1].op = stage1[1].op /\ stage1 # <<>> /\ stage2 = <<>>
    BY <1>6 DEF IsProbed, LoadPipe, cpu
  <2> QED
    BY <1>1, <1>2, <2>1 DEF Ordered, InPipe, Holds
<1>7. CASE IsRequested
  <2>1. /\ UNCHANGED <<ops, retired, result, in, stage1>> /\ stage2' = <<>>
        /\ stage3' # <<>> /\ stage3'[1].op = stage2[1].op /\ stage2 # <<>> /\ stage3 = <<>>
    BY <1>7 DEF IsRequested, LoadPipe, cpu, request_axi_if_needed
  <2> QED
    BY <1>1, <1>2, <2>1 DEF Ordered, InPipe, Holds
<1>8. CASE IsAnswered
  <2>1. /\ UNCHANGED <<ops, retired, in, stage1, stage2>> /\ stage3' = <<>> /\ stage3 # <<>>
        /\ stage3[1].op \in Op /\ result'[stage3[1].op] # <<>>
        /\ \A j \in Op : j # stage3[1].op => result'[j] = result[j]
    BY <1>1, <1>3, <1>8 DEF IsAnswered, cpu
  <2> QED
    BY <1>1, <1>2, <2>1 DEF Ordered, InPipe, Holds
<1>9. CASE Stays
  <2>1. UNCHANGED <<ops, in, stage1, stage2, stage3, result>>
    BY <1>9 DEF Stays, cpu, MemoryReads
  <2>2. \A j \in 1 .. retired' : result[j] # <<>>
    BY <1>2, <1>9 DEF Stays, Ordered, HeadReached, Retire, Redirect, MemoryReads, cpu
  <2> QED
    BY <2>1, <2>2 DEF Ordered, InPipe, Holds
<1>10. CASE Arrive
  <2>1. /\ in = <<>> /\ in' = <<Len(ops) + 1>> /\ Len(ops') = Len(ops) + 1 /\ Len(ops) + 1 \in Op
        /\ UNCHANGED <<retired, result, stage1, stage2, stage3>>
        /\ \A i \in 1 .. Len(ops) : ops'[i] = ops[i]
    BY <1>1, <1>10, CpuStep, BoundAssumption, TypeParts DEF Arrive, TypeCpu, Op
  <2>2. in' # <<>> => in'[1] = Len(ops') /\ result'[in'[1]] = <<>>
    BY <1>1, <2>1 DEF Ordered
  <2>3. ASSUME NEW i \in Op, InPipe(i)'
        PROVE  /\ i <= Len(ops') /\ ops'[i].kind # "STORE" /\ i < in'[1]
               /\ \A j \in i .. Len(ops') : ops'[j].kind # "STORE" => result'[j] = <<>>
    <3>1. InPipe(i) /\ i <= Len(ops) /\ ops[i].kind # "STORE"
          /\ \A j \in i .. Len(ops) : ops[j].kind # "STORE" => result[j] = <<>>
      BY <2>1, <2>3 DEF Ordered, InPipe, Holds
    <3>2. result[Len(ops) + 1] = <<>> /\ i \in 1 .. Len(ops)
      BY <1>1, <2>1, <3>1 DEF Ordered, Op
    <3>3. \A j \in i .. Len(ops') : j \in i .. Len(ops) \/ j = Len(ops) + 1
      BY <1>1, <2>1, <3>2
    <3> QED
      BY <1>1, <2>1, <3>1, <3>2, <3>3
  <2>4. \A j \in Op : j > Len(ops') => result'[j] = <<>>
    BY <1>1, <2>1 DEF Ordered, Op
  <2> QED
    BY <1>1, <1>2, <2>1, <2>2, <2>3, <2>4 DEF Ordered, Holds
<1> QED
  BY <1>4, <1>5, <1>6, <1>7, <1>8, <1>9, <1>10, MoveOfStep

(* What is in the pipeline has not left the reorder buffer; nothing is left *)
(* in it when a store at the head leaves the unit.                          *)
LEMMA NotRetired ==
  ASSUME TypeOK, Ordered, NEW i \in Op, InPipe(i)
  PROVE  i > retired
<1>1. i \in 1 .. Len(ops) /\ Len(ops) \in Nat /\ retired \in 0 .. Len(ops)
  BY StageOps, TypeParts DEF InPipe, Holds, TypeCpu
<1>2. result[i] = <<>>
  <2>1. i \in i .. Len(ops) /\ ops[i].kind # "STORE"
    BY <1>1 DEF Ordered
  <2> QED
    BY <2>1 DEF Ordered
<1> QED
  BY <1>1, <1>2 DEF Ordered

(* A store at the head of the reorder buffer is alone in the unit.          *)
LEMMA PipeEmpty ==
  ASSUME TypeOK, Ordered, calculate_store
  PROVE  stage1 = <<>> /\ stage2 = <<>> /\ stage3 = <<>>
<1>1. in # <<>> /\ in[1] = retired + 1
  BY DEF calculate_store, rob_head
<1>2. \A i \in Op : InPipe(i) => i < in[1]
  BY <1>1 DEF Ordered
<1>3. retired \in Nat
  BY TypeParts, StageOps DEF TypeCpu
<1>4. \A i \in Op : ~InPipe(i)
  BY <1>1, <1>2, <1>3, NotRetired DEF Op
<1> QED
  BY <1>4, StageOps DEF InPipe, Holds

(* An epoch that is over does not come back. *)
LEMMA EpochStep ==
  ASSUME TypeOK, Next, NEW i \in 1 .. Len(ops)
  PROVE  /\ current_epoch(i)' => current_epoch(i)
         /\ cpu' = cpu => (current_epoch(i)' <=> current_epoch(i))
<1>1. op_epoch'[i] = op_epoch[i] /\ op_epoch[i] \in Nat /\ epoch \in Nat /\ op_epoch[i] <= epoch
  BY CpuStep, TypeParts, ElementOfSeq DEF TypeCpu
<1>2. epoch' = epoch \/ epoch' = epoch + 1
  BY CpuStep DEF cpu, Arrive, HeadReached, Retire, Redirect
<1>3. op_epoch'[i] = epoch' => op_epoch[i] = epoch
  BY <1>1, <1>2
<1>4. cpu' = cpu => epoch' = epoch
  BY DEF cpu
<1> QED
  BY <1>1, <1>3, <1>4 DEF current_epoch

(* What is marked as mispredicted is of an older epoch.                     *)
MarkedIn(stage) == \A i \in Op : Holds(stage, i) /\ stage[1].mispredicted => ~current_epoch(i)
Marked == MarkedIn(stage1) /\ MarkedIn(stage2) /\ MarkedIn(stage3)

(* Only what runs with an old epoch is marked.                              *)
LEMMA MarkedStep ==
  ASSUME TypeOK, Ordered, Marked, Next
  PROVE  Marked'
<1>1. /\ \A st \in {stage1, stage2, stage3} : st # <<>> => st[1].op \in 1 .. Len(ops) /\ st[1].op \in Op
      /\ in # <<>> => in[1] \in 1 .. Len(ops) /\ in[1] \in Op
  BY StageOps
<1>2. \A i \in 1 .. Len(ops) : ~current_epoch(i) => ~current_epoch(i)'
  BY EpochStep
<1>3. ASSUME NEW st \in {stage1, stage2, stage3}, MarkedIn(st), NEW i \in Op,
             Holds(st, i), st[1].mispredicted
      PROVE  ~current_epoch(i)'
  BY <1>1, <1>2, <1>3 DEF MarkedIn, Holds
<1>4. /\ \A i \in Op : Holds(stage1, i) /\ stage1[1].mispredicted => ~current_epoch(i)'
      /\ \A i \in Op : Holds(stage2, i) /\ stage2[1].mispredicted => ~current_epoch(i)'
      /\ \A i \in Op : Holds(stage3, i) /\ stage3[1].mispredicted => ~current_epoch(i)'
  BY <1>3 DEF Marked
<1>5. ASSUME NEW st \in {stage1, stage2, stage3}, MarkedIn(st), dead(st)
      PROVE  ~current_epoch(st[1].op)'
  BY <1>1, <1>2, <1>5 DEF MarkedIn, Holds, dead, live
<1>6. CASE StoreMoves \/ Stays \/ Arrive \/ IsAnswered
  <2>1. /\ stage1' = stage1 /\ stage2' = stage2
        /\ stage3' = stage3 \/ stage3' = <<>>
    BY <1>6 DEF StoreMoves, Stays, Arrive, IsAnswered
  <2> QED
    BY <1>4, <2>1 DEF Marked, MarkedIn, Holds
<1>7. CASE Enters
  <2>1. /\ stage2' = stage2 /\ stage3' = stage3 /\ in # <<>>
        /\ \E m \in BOOLEAN : /\ stage1' = <<LoadPipe(in[1], m, {})>>
                              /\ m => ~current_epoch(in[1])
    BY <1>7 DEF Enters
  <2> QED
    BY <1>1, <1>2, <1>4, <2>1 DEF Marked, MarkedIn, Holds, LoadPipe
<1>8. CASE IsProbed
  <2>1. /\ stage1' = <<>> /\ stage3' = stage3 /\ stage1 # <<>>
        /\ \/ stage2' = <<LoadPipe(stage1[1].op, FALSE, probe(stage1[1].op))>>
           \/ stage2' = <<LoadPipe(stage1[1].op, TRUE, {})>> /\ dead(stage1)
    BY <1>8 DEF IsProbed
  <2> QED
    BY <1>4, <1>5, <2>1 DEF Marked, MarkedIn, Holds, LoadPipe
<1>9. CASE IsRequested
  <2>1. /\ stage2' = <<>> /\ stage1' = stage1 /\ stage2 # <<>>
        /\ \/ stage3' = stage2
           \/ stage3' = <<LoadPipe(stage2[1].op, TRUE, {})>> /\ dead(stage2)
    BY <1>9 DEF IsRequested, request_axi_if_needed
  <2> QED
    BY <1>4, <1>5, <2>1 DEF Marked, MarkedIn, Holds, LoadPipe
<1> QED
  BY <1>6, <1>7, <1>8, <1>9, MoveOfStep

(* What has an effect is the oldest instruction or has left already; it has *)
(* no effect before it has passed the stage that gives it one.              *)
EffectsAtHead ==
  /\ \A i \in effects : i <= retired \/ rob_head(i)
  /\ in # <<>> => in[1] \notin effects
  /\ \A i \in Op : Holds(stage1, i) \/ Holds(stage2, i) => i \notin effects

(* How the instructions with an effect change. *)
LEMMA EffectsOfStep ==
  ASSUME TypeOK, Ordered, Next
  PROVE  \/ effects' = effects
         \/ /\ calculate_store /\ ~ops[in[1]].misaligned /\ rob_head(in[1]) /\ current_epoch(in[1])
            /\ effects' = effects \cup {in[1]} /\ in # <<>> /\ cpu' = cpu
         \/ /\ request_axi_if_needed /\ rob_head(stage2[1].op) /\ current_epoch(stage2[1].op)
            /\ effects' = effects \cup {stage2[1].op} /\ stage2 # <<>> /\ cpu' = cpu
            /\ ops[stage2[1].op].kind = "AMO" \/ ops[stage2[1].op].addr \notin DmemAddr
<1>1. CASE StoreMoves
  BY <1>1 DEF StoreMoves, calculate_store
<1>2. CASE IsRequested /\ effects' # effects
  <2> DEFINE i == stage2[1].op
  <2>1. /\ request_axi_if_needed /\ stage2 # <<>> /\ current_epoch(i) /\ cpu' = cpu
        /\ MayRequest(i, stage2[1].fwd) /\ effects' = effects \cup {i}
        /\ ops[i].kind = "AMO" \/ ops[i].addr \notin DmemAddr
    BY <1>2 DEF IsRequested, request_axi_if_needed, live, is_speculative_region
  <2>2. rob_head(i)
    BY <2>1 DEF MayRequest, is_speculative_region
  <2> QED
    BY <2>1, <2>2
<1>3. CASE Enters \/ IsProbed \/ IsAnswered \/ Stays \/ Arrive
  BY <1>3 DEF Enters, IsProbed, IsAnswered, Stays, Arrive, MemoryReads
<1> QED
  BY <1>1, <1>2, <1>3, MoveOfStep DEF IsRequested

(* The guards that name rob_head give an effect to the oldest instruction only. *)
LEMMA EffectsAtHeadStep ==
  ASSUME TypeOK, Ordered, EffectsAtHead, Next
  PROVE  EffectsAtHead'
<1>1. /\ \A st \in {stage1, stage2, stage3} : st # <<>> => st[1].op \in 1 .. Len(ops) /\ st[1].op \in Op
      /\ in # <<>> => in[1] \in 1 .. Len(ops) /\ in[1] \in Op
      /\ Len(ops) \in Nat /\ 1 .. Len(ops) \subseteq Op
  BY StageOps
<1>2. effects \subseteq 1 .. Len(ops) /\ retired \in 0 .. Len(ops) /\ at_head \in BOOLEAN
  BY TypeParts DEF TypeBus, TypeCpu
<1>3. \A i \in effects' : i <= retired' \/ rob_head(i)'
  <2>1. CASE cpu' = cpu
    BY <2>1, EffectsOfStep DEF EffectsAtHead, rob_head, cpu
  <2>2. CASE HeadReached \/ Retire \/ Redirect \/ Arrive
    <3>1. effects' = effects
      BY <2>2 DEF HeadReached, Retire, Redirect, Arrive
    <3> QED
      BY <1>2, <2>2, <3>1 DEF EffectsAtHead, rob_head, HeadReached, Retire, Redirect, Arrive
  <2> QED
    BY <2>1, <2>2, CpuStep
<1>4. /\ in' # <<>> => in'[1] \notin effects'
      /\ \A i \in Op : Holds(stage1', i) \/ Holds(stage2', i) => i \notin effects'
  <2>1. CASE StoreMoves
    <3>1. /\ in' = <<>> /\ stage1' = stage1 /\ stage2' = stage2
          /\ effects' = effects \/ (calculate_store /\ effects' = effects \cup {in[1]})
      BY <2>1 DEF StoreMoves, calculate_store
    <3>2. calculate_store => stage1 = <<>> /\ stage2 = <<>>
      BY PipeEmpty
    <3> QED
      BY <3>1, <3>2 DEF EffectsAtHead, Holds
  <2>2. CASE Enters
    BY <2>2 DEF Enters, EffectsAtHead, Holds, LoadPipe
  <2>3. CASE IsProbed
    BY <2>3 DEF IsProbed, EffectsAtHead, Holds, LoadPipe
  <2>4. CASE IsRequested
    <3>1. /\ in' = in /\ stage1' = stage1 /\ stage2' = <<>> /\ stage2 # <<>>
          /\ effects' \subseteq effects \cup {stage2[1].op}
      BY <2>4 DEF IsRequested, request_axi_if_needed
    <3>2. /\ in # <<>> => stage2[1].op < in[1]
          /\ \A i \in Op : Holds(stage1, i) => stage2[1].op < i
      BY <1>1, <3>1 DEF Ordered, InPipe, Holds
    <3> QED
      BY <1>1, <3>1, <3>2 DEF EffectsAtHead, Holds, Op
  <2>5. CASE IsAnswered \/ Stays
    BY <2>5 DEF IsAnswered, Stays, EffectsAtHead, MemoryReads
  <2>6. CASE Arrive
    <3>1. in' = <<Len(ops) + 1>> /\ UNCHANGED <<stage1, stage2, effects>>
      BY <2>6 DEF Arrive
    <3> QED
      BY <1>1, <1>2, <3>1 DEF EffectsAtHead
  <2> QED
    BY <2>1, <2>2, <2>3, <2>4, <2>5, <2>6, MoveOfStep
<1> QED
  BY <1>3, <1>4 DEF EffectsAtHead, Holds

(* Only loads are answered from the store buffer; an AMO that waits for     *)
(* memory has its effect.                                                   *)
ForwardsLoad(stage) == Good(stage) /\ stage[1].fwd # {} => ops[stage[1].op].kind = "LOAD"
Requested ==
  /\ ForwardsLoad(stage2) /\ ForwardsLoad(stage3)
  /\ Good(stage3) /\ ops[stage3[1].op].kind = "AMO" => stage3[1].op \in effects

(* AMOs are never forwarded data, since they wait for an answer that is empty. *)
LEMMA RequestedStep ==
  ASSUME TypeOK, Ordered, Requested, Next
  PROVE  Requested'
<1>1. \A st \in {stage1, stage2, stage3} : st # <<>> => st[1].op \in 1 .. Len(ops) /\ st[1].op \in Op
  BY StageOps
<1>2. \A i \in 1 .. Len(ops) : ops'[i] = ops[i]
  BY CpuStep
<1>3. effects \subseteq effects'
  BY EffectsOfStep
<1>4. ASSUME stage2' = stage2 PROVE ForwardsLoad(stage2)'
  BY <1>1, <1>2, <1>4 DEF Requested, ForwardsLoad, Good
<1>5. ASSUME stage3' = stage3
      PROVE  /\ ForwardsLoad(stage3)'
             /\ (Good(stage3) /\ ops[stage3[1].op].kind = "AMO" => stage3[1].op \in effects)'
  BY <1>1, <1>2, <1>3, <1>5 DEF Requested, ForwardsLoad, Good
<1>6. CASE StoreMoves \/ Enters \/ Stays \/ Arrive
  BY <1>4, <1>5, <1>6 DEF StoreMoves, Enters, Stays, Arrive, Requested
<1>7. CASE IsProbed
  <2>1. stage3' = stage3 /\ stage1 # <<>> /\ ops' = ops
    BY <1>7 DEF IsProbed, cpu
  <2>2. ForwardsLoad(stage2)'
    BY <1>7, <2>1 DEF IsProbed, ForwardsLoad, Good, LoadPipe, will_do
  <2> QED
    BY <1>5, <2>1, <2>2 DEF Requested
<1>8. CASE IsRequested
  <2>1. stage2' = <<>> /\ ops' = ops /\ stage2 # <<>>
    BY <1>8 DEF IsRequested, cpu
  <2>2. CASE request_axi_if_needed
    <3>1. stage3' = stage2 /\ ops[stage2[1].op].kind = "AMO" => stage2[1].op \in effects'
      BY <2>2 DEF request_axi_if_needed, Requested, ForwardsLoad, live, Good
    <3>2. stage3' = stage2
      BY <2>2 DEF request_axi_if_needed
    <3> QED
      BY <2>1, <3>1, <3>2 DEF Requested, ForwardsLoad, Good
  <2>3. CASE stage3' = <<LoadPipe(stage2[1].op, TRUE, {})>>
    BY <2>1, <2>3 DEF Requested, ForwardsLoad, Good, LoadPipe
  <2> QED
    BY <1>8, <2>2, <2>3 DEF IsRequested
<1>9. CASE IsAnswered
  <2>1. stage3' = <<>> /\ stage2' = stage2
    BY <1>9 DEF IsAnswered
  <2> QED
    BY <1>4, <2>1 DEF Requested, ForwardsLoad, Good
<1> QED
  BY <1>6, <1>7, <1>8, <1>9, MoveOfStep

(* The last stage waits for an answer of memory. *)
Waits == stage3 # <<>> /\ ~stage3[1].mispredicted /\ stage3[1].fwd = {}

LEMMA OneReadIs ==
  ASSUME TypeOK
  PROVE  OneReadOnItsWay <=>
           \/ ~Waits /\ read_rq = <<>> /\ read_rs = <<>>
           \/ Waits /\ read_rq = <<stage3[1].op>> /\ read_rs = <<>>
           \/ Waits /\ read_rq = <<>> /\ read_rs # <<>>
<1>1. /\ \/ read_rq = <<>> /\ Len(read_rq) = 0
         \/ read_rq # <<>> /\ Len(read_rq) = 1 /\ read_rq = <<read_rq[1]>>
      /\ \/ read_rs = <<>> /\ Len(read_rs) = 0
         \/ read_rs # <<>> /\ Len(read_rs) = 1
  BY MaybeIs, TypeParts DEF TypeBus
<1>2. \A x : <<stage3[1].op>> # <<>> /\ (<<x>> = <<stage3[1].op>> => x = stage3[1].op)
  OBVIOUS
<1>3. CASE Waits
  <2>1. OneReadOnItsWay <=> /\ Len(read_rq) + Len(read_rs) = 1
                            /\ read_rq # <<>> => read_rq[1] = stage3[1].op
    BY <1>3 DEF OneReadOnItsWay, Waits
  <2>2. read_rq # <<>> => (read_rq[1] = stage3[1].op <=> read_rq = <<stage3[1].op>>)
    BY <1>1, <1>2
  <2>3. Len(read_rq) + Len(read_rs) = 1 <=>
          (read_rq = <<>> /\ read_rs # <<>>) \/ (read_rq # <<>> /\ read_rs = <<>>)
    <3> DEFINE m == Len(read_rq)
               n == Len(read_rs)
    <3>1. (m = 0 \/ m = 1) /\ (n = 0 \/ n = 1) /\ (read_rq = <<>> <=> m = 0) /\ (read_rs = <<>> <=> n = 0)
      BY <1>1
    <3> HIDE DEF m, n
    <3>2. m + n = 1 <=> (m = 0 /\ n # 0) \/ (m # 0 /\ n = 0)
      BY <3>1
    <3> QED
      BY <3>1, <3>2 DEF m, n
  <2> QED
    BY <1>2, <1>3, <2>1, <2>2, <2>3
<1>4. CASE ~Waits
  <2>1. OneReadOnItsWay <=> Len(read_rq) + Len(read_rs) = 0
    BY <1>4 DEF OneReadOnItsWay, Waits
  <2> QED
    BY <1>1, <1>4, <2>1
<1> QED
  BY <1>3, <1>4

(* A request is sent when the last stage is taken, an answer taken when it is left. *)
LEMMA OneReadStep ==
  ASSUME TypeOK, TypeOK', Requested, OneReadOnItsWay, Next
  PROVE  OneReadOnItsWay'
<1> DEFINE Is == \/ ~Waits /\ read_rq = <<>> /\ read_rs = <<>>
                 \/ Waits /\ read_rq = <<stage3[1].op>> /\ read_rs = <<>>
                 \/ Waits /\ read_rq = <<>> /\ read_rs # <<>>
<1>1. Is /\ (Is' => OneReadOnItsWay')
  BY OneReadIs, PTL
<1>2. CASE UNCHANGED <<stage3, read_rq, read_rs>>
  BY <1>1, <1>2 DEF Waits
<1>3. CASE StoreMoves \/ Enters \/ IsProbed
  BY <1>2, <1>3 DEF StoreMoves, Enters, IsProbed, bus
<1>4. CASE Stays \/ Arrive
  <2>1. CASE MemoryReads
    <3>1. /\ read_rq # <<>> /\ read_rq' = <<>> /\ read_rs' # <<>> /\ stage3' = stage3
      BY <2>1 DEF MemoryReads, pipe
    <3> QED
      BY <1>1, <3>1 DEF Waits
  <2>2. CASE ~MemoryReads
    BY <1>2, <1>4, <2>2 DEF Stays, Arrive, bus
  <2> QED
    BY <2>1, <2>2
<1>5. CASE IsRequested
  <2>1. stage3 = <<>> /\ stage2 # <<>> /\ read_rq = <<>> /\ read_rs = <<>>
    BY <1>1, <1>5 DEF IsRequested, Waits
  <2>2. read_rs' = read_rs
    BY <1>5 DEF IsRequested
  <2>3. CASE request_axi_if_needed
    <3>1. stage3' = stage2 /\ ~stage2[1].mispredicted
      BY <2>3 DEF request_axi_if_needed, live
    <3>2. \/ stage2[1].fwd # {} /\ read_rq' = read_rq
          \/ stage2[1].fwd = {} /\ read_rq' = <<stage2[1].op>>
      BY <2>1, <2>3, <3>1 DEF request_axi_if_needed, MayRequest, Requested, ForwardsLoad, Good
    <3> QED
      BY <1>1, <2>1, <2>2, <3>1, <3>2 DEF Waits
  <2>4. CASE stage3' = <<LoadPipe(stage2[1].op, TRUE, {})>> /\ UNCHANGED <<bus, effects>>
    BY <1>1, <2>1, <2>2, <2>4 DEF Waits, LoadPipe, bus
  <2> QED
    BY <1>5, <2>3, <2>4 DEF IsRequested
<1>6. CASE IsAnswered
  <2>1. stage3' = <<>> /\ read_rq' = read_rq
    BY <1>6 DEF IsAnswered
  <2>2. CASE collect_result_read
    BY <1>1, <2>1, <2>2 DEF collect_result_read, Waits
  <2>3. CASE collect_result_read_bypass \/ collect_result_mispredict
    BY <1>1, <2>1, <2>3 DEF collect_result_read_bypass, collect_result_mispredict, Waits, bus
  <2> QED
    BY <1>6, <2>2, <2>3 DEF IsAnswered
<1> QED
  BY <1>3, <1>4, <1>5, <1>6, MoveOfStep

(* No store can enter the buffer while an AMO, which is older, is on its way. *)
LEMMA ReleaseStep ==
  ASSUME Memory, TypeOK, Ordered, OneReadOnItsWay, ReleaseIsLast, Next
  PROVE  ReleaseIsLast'
<1> SUFFICES ASSUME NEW i \in Op, read_rq' = <<i>>, ops'[i].kind = "AMO", ops'[i].rl
             PROVE  U' = <<>>
  BY DEF ReleaseIsLast, U
<1>1. U \in Seq(SB!MemWr) /\ SB!TypeOK
  BY BufferSeq, TypeParts
<1>2. CASE read_rq = <<i>>
  <2>1. stage3 # <<>> /\ stage3[1].op = i
    <3>1. read_rq # <<>> /\ read_rq = <<stage3[1].op>> /\ stage3 # <<>>
      BY <1>2, OneReadIs DEF Waits
    <3>2. <<stage3[1].op>> = <<i>> => stage3[1].op = i
      OBVIOUS
    <3> QED
      BY <1>2, <3>1, <3>2
  <2>2. i \in 1 .. Len(ops)
    BY <2>1, StageOps
  <2>3. ops'[i] = ops[i]
    BY <2>2, CpuStep
  <2>4. U = <<>>
    BY <1>2, <2>3 DEF ReleaseIsLast, U
  <2>5. Len(U) = 0
    BY <2>4
  <2>6. ~StoreLeaves
    BY <2>5 DEF StoreLeaves
  <2>7. ~StoreEnters
    BY <2>1, PipeEmpty DEF StoreEnters
  <2> QED
    BY <2>4, <2>6, <2>7, BufferOfStep DEF StoresStay
<1>3. CASE read_rq # <<i>>
  <2>1. read_rq' # read_rq /\ read_rq' # <<>>
    BY <1>3
  <2>2. ~Stays
    BY <2>1 DEF Stays, MemoryReads, bus
  <2>3. IsRequested /\ request_axi_if_needed
    BY <2>1, <2>2, MoveOfStep DEF StoreMoves, Enters, IsProbed, IsRequested, IsAnswered, Arrive, bus
  <2>4. read_rq' = <<stage2[1].op>> /\ MayRequest(stage2[1].op, stage2[1].fwd) /\ UNCHANGED <<sb, ops>>
    BY <2>1, <2>3 DEF request_axi_if_needed, cpu
  <2>5. stage2[1].op = i
    <3>1. <<stage2[1].op>> = <<i>> => stage2[1].op = i
      OBVIOUS
    <3> QED
      BY <2>4, <3>1
  <2>6. SB!empty(FALSE)
    BY <2>4, <2>5 DEF MayRequest
  <2> QED
    BY <1>1, <2>4, <2>6, EmptyHoldsNothing, BufferUnchanged
<1> QED
  BY <1>2, <1>3

-----------------------------------------------------------------------------
(* The instructions whose write can be seen by the core: stores in the      *)
(* buffer or in memory, and AMOs that memory has performed.                 *)
Performed   == {j \in effects : ops[j].kind # "LOAD" /\ read_rq # <<j>>}
At(j, a, l) == ops[j].addr = a /\ l \in ops[j].mask

AmoIsPerformed == MemoryReads /\ ops[read_rq[1]].kind = "AMO"

Base == TypeOK /\ Ordered /\ Marked /\ EffectsAtHead /\ Requested /\ OneReadOnItsWay

(* What has been performed is older than what is in the unit.               *)
LEMMA PerformedIs ==
  ASSUME Base
  PROVE  /\ Performed \subseteq 1 .. Len(ops) /\ Performed \subseteq Op /\ Performed \subseteq effects
         /\ \A j \in Performed, i \in Op : InPipe(i) => j <= i
         /\ \A j \in Performed : in # <<>> => j < in[1]
         /\ \A j \in Performed : ops[j].kind # "LOAD"
<1>1. effects \subseteq 1 .. Len(ops) /\ 1 .. Len(ops) \subseteq Op /\ retired \in 0 .. Len(ops)
      /\ Len(ops) \in Nat
  BY StageOps, TypeParts DEF Base, TypeBus, TypeCpu
<1>2. ASSUME NEW j \in Performed, NEW i \in Op, InPipe(i)
      PROVE  j <= i
  <2>1. i > retired
    BY <1>2, NotRetired DEF Base
  <2>2. j <= retired \/ j = retired + 1
    BY DEF Performed, Base, EffectsAtHead, rob_head
  <2> QED
    BY <1>1, <2>1, <2>2 DEF Op, Performed
<1>3. ASSUME NEW j \in Performed, in # <<>>
      PROVE  j < in[1]
  <2>1. in[1] = Len(ops) /\ j # in[1]
    BY <1>3 DEF Base, Ordered, EffectsAtHead, Performed
  <2> QED
    BY <1>1, <2>1 DEF Performed
<1> QED
  BY <1>1, <1>2, <1>3 DEF Performed

(* The AMO that memory performs is the one the last stage waits for; it is  *)
(* the youngest that has been performed.                                    *)
LEMMA AmoIs ==
  ASSUME Base, AmoIsPerformed
  PROVE  \E i \in 1 .. Len(ops) :
           /\ i = stage3[1].op /\ Waits /\ read_rq = <<i>> /\ read_rs = <<>> /\ i \in effects
           /\ ops[i].kind = "AMO" /\ ops[i].mask = Lane /\ ops[i].addr \in Addr
           /\ mem' = [mem EXCEPT ![ops[i].addr] = [l \in Lane |-> i]]
           /\ i \notin Performed /\ \A j \in Performed : j < i
<1> DEFINE i == stage3[1].op
<1>1. read_rq # <<>>
  BY DEF AmoIsPerformed, MemoryReads
<1>2. Waits /\ read_rq = <<i>> /\ read_rs = <<>>
  BY <1>1, OneReadIs DEF Base
<1>3. i \in 1 .. Len(ops) /\ InPipe(i) /\ i \in Op
  BY <1>2, StageOps DEF Base, Waits, InPipe, Holds
<1>4. read_rq[1] = i
  BY <1>2
<1>5. ops[i].kind = "AMO" /\ mem' = [mem EXCEPT ![ops[i].addr] = [l \in Lane |-> i]]
  BY <1>4 DEF AmoIsPerformed, MemoryReads
<1>6. ops[i].mask = Lane /\ ops[i].addr \in Addr
  BY <1>3, <1>5, OpTyped DEF Base
<1>7. i \in effects
  BY <1>2, <1>5 DEF Base, Requested, Waits, Good
<1>8. i \notin Performed
  BY <1>2 DEF Performed
<1>9. \A j \in Performed : j < i
  BY <1>3, <1>8, PerformedIs DEF Op
<1> HIDE DEF i
<1> QED
  BY <1>2, <1>3, <1>5, <1>6, <1>7, <1>8, <1>9 DEF i

(* Writes are performed one by one, a store or an AMO, in program order.    *)
LEMMA PerformedStep ==
  ASSUME Memory, Base, Next
  PROVE  \/ /\ StoreEnters /\ Performed' = Performed \cup {in[1]} /\ UNCHANGED <<cpu, mem, written>>
            /\ in # <<>> /\ in[1] \in 1 .. Len(ops) /\ ops[in[1]].kind = "STORE"
            /\ ~AmoIsPerformed /\ \A j \in Performed : j < in[1]
         \/ /\ AmoIsPerformed /\ Performed' = Performed \cup {read_rq[1]} /\ UNCHANGED <<cpu, written>>
            /\ ~StoreEnters
         \/ ~StoreEnters /\ ~AmoIsPerformed /\ Performed' = Performed
<1>1. effects \subseteq 1 .. Len(ops) /\ \A i \in 1 .. Len(ops) : ops'[i] = ops[i]
  BY CpuStep, TypeParts DEF Base, TypeBus
<1>2. CASE StoreEnters
  <2>1. calculate_store /\ ~ops[in[1]].misaligned
    BY <1>2 DEF StoreEnters
  <2>2. stage3 = <<>>
    BY <2>1, PipeEmpty DEF Base
  <2>3. read_rq = <<>> /\ read_rq' = <<>>
    BY <2>1, <2>2, OneReadIs DEF Base, Waits, calculate_store, bus
  <2>4. effects' = effects \cup {in[1]} /\ in # <<>> /\ ops[in[1]].kind = "STORE" /\ UNCHANGED <<cpu, mem, written>>
    BY <2>1 DEF calculate_store, bus
  <2>5. ops' = ops
    BY <2>4 DEF cpu
  <2>6. Performed' = Performed \cup {in[1]}
    BY <2>3, <2>4, <2>5 DEF Performed
  <2>7. in[1] \in 1 .. Len(ops)
    BY <2>4, StageOps DEF Base
  <2>8. ~AmoIsPerformed
    BY <2>3 DEF AmoIsPerformed, MemoryReads
  <2> QED
    BY <1>2, <2>4, <2>6, <2>7, <2>8, PerformedIs
<1>3. CASE AmoIsPerformed
  <2>1. PICK i \in 1 .. Len(ops) : read_rq = <<i>> /\ i \in effects /\ ops[i].kind = "AMO"
    BY <1>3, AmoIs
  <2>2. read_rq[1] = i /\ \A j : read_rq = <<j>> => j = i
    BY <2>1
  <2>3. read_rq' = <<>> /\ effects' = effects /\ UNCHANGED <<cpu, written, in>>
    BY <1>3 DEF AmoIsPerformed, MemoryReads, pipe
  <2>4. ops' = ops
    BY <2>3 DEF cpu
  <2>5. Performed' = Performed \cup {i}
    BY <2>1, <2>2, <2>3, <2>4 DEF Performed
  <2>6. ~StoreEnters
    BY <2>3 DEF StoreEnters, calculate_store
  <2> QED
    BY <1>3, <2>2, <2>3, <2>5, <2>6
<1>4. CASE ~StoreEnters /\ ~AmoIsPerformed
  <2> SUFFICES Performed' = Performed
    BY <1>4
  <2>1. ASSUME effects' = effects, \A j \in effects : ops[j].kind # "LOAD" => (read_rq' = <<j>> <=> read_rq = <<j>>)
        PROVE  Performed' = Performed
    BY <1>1, <2>1 DEF Performed
  <2>2. CASE StoreMoves
    <3>1. ~calculate_store \/ ops[in[1]].misaligned
      <4>1. in # <<>> /\ in' = <<>>
        BY <2>2 DEF StoreMoves
      <4>2. ~StoreAnswered
        BY <4>1 DEF StoreAnswered, pipe
      <4> QED
        BY <1>4, <4>2, BufferOfStep DEF StoreLeaves, StoresStay, Base
    <3> QED
      BY <2>1, <2>2, <3>1 DEF StoreMoves, bus
  <2>3. CASE Enters \/ IsProbed \/ IsAnswered \/ Arrive
    BY <2>1, <2>3 DEF Enters, IsProbed, IsAnswered, Arrive, bus
  <2>4. CASE Stays
    <3>1. CASE MemoryReads
      <4>1. read_rq' = <<>> /\ effects' = effects /\ read_rq # <<>>
        BY <3>1 DEF MemoryReads
      <4>2. ASSUME NEW j \in effects, ops[j].kind # "LOAD" PROVE read_rq # <<j>>
        <5>1. SUFFICES ASSUME read_rq = <<j>> PROVE FALSE
          OBVIOUS
        <5>2. read_rq[1] = j
          BY <5>1
        <5>3. stage3 # <<>> /\ read_rq = <<stage3[1].op>>
          BY <4>1, OneReadIs DEF Base, Waits
        <5>4. <<stage3[1].op>> = <<j>> => stage3[1].op = j
          OBVIOUS
        <5>5. stage3[1].op = j
          BY <5>1, <5>3, <5>4
        <5>6. InPipe(j) /\ j \in 1 .. Len(ops)
          BY <1>1, <5>3, <5>5 DEF InPipe, Holds
        <5>7. ops[j].kind # "STORE" /\ ops[j].kind \in {"LOAD", "STORE", "AMO"}
          BY <5>6, StageOps, OpTyped DEF Base, Ordered
        <5> QED
          BY <1>4, <3>1, <4>2, <5>2, <5>7 DEF AmoIsPerformed
      <4> QED
        BY <2>1, <4>1, <4>2
    <3>2. CASE ~MemoryReads
      BY <2>1, <2>4, <3>2 DEF Stays, bus
    <3> QED
      BY <3>1, <3>2
  <2>5. CASE IsRequested
    <3> DEFINE i == stage2[1].op
    <3>1. stage2 # <<>> /\ stage3 = <<>> /\ UNCHANGED cpu
      BY <2>5 DEF IsRequested
    <3>2. read_rq = <<>>
      BY <3>1, OneReadIs DEF Base, Waits
    <3>3. i \in 1 .. Len(ops) /\ i \notin effects /\ \A j : <<j>> = <<i>> => j = i
      BY <3>1, StageOps DEF Base, EffectsAtHead, Holds
    <3>4. CASE request_axi_if_needed
      <4>1. effects' = effects \cup {i} => read_rq' = <<i>> \/ ops[i].kind = "LOAD"
        BY <3>3, <3>4 DEF request_axi_if_needed
      <4>2. effects' = effects \/ effects' = effects \cup {i}
        BY <3>4 DEF request_axi_if_needed
      <4>3. read_rq' = <<>> \/ read_rq' = <<i>>
        BY <3>2, <3>4 DEF request_axi_if_needed
      <4> HIDE DEF i
      <4>4. ops' = ops
        BY <3>1 DEF cpu
      <4>5. \A j \in effects : read_rq' # <<j>> /\ read_rq # <<j>>
        BY <3>2, <3>3, <4>3
      <4>6. i \in effects' /\ ops[i].kind # "LOAD" => read_rq' = <<i>>
        BY <3>3, <4>1, <4>2
      <4> QED
        BY <4>2, <4>4, <4>5, <4>6 DEF Performed
    <3>5. CASE UNCHANGED <<bus, effects>>
      BY <2>1, <3>5 DEF bus
    <3> QED
      BY <2>5, <3>4, <3>5 DEF IsRequested
  <2> QED
    BY <1>4, <2>2, <2>3, <2>4, <2>5, MoveOfStep
<1> QED
  BY <1>2, <1>3, <1>4

(* The buffer holds stores that have been performed, in program order, and  *)
(* what else has been performed at their addresses is older.                *)
Who(k)     == U[k].payload.data
InBuffer(j) == \E k \in 1 .. Len(U) : Who(k) = j
Buffered ==
  /\ written => pending_buf # <<>>
  /\ \A k \in 1 .. Len(U) :
       Who(k) \in Performed /\ ops[Who(k)].kind = "STORE" /\ U[k] = StoreOf(Who(k))
  /\ \A k, m \in 1 .. Len(U) : k < m => Who(k) < Who(m)
  /\ \A k \in 1 .. Len(U), j \in Performed :
       ops[j].addr = U[k].mem_addr => j < Who(k) \/ InBuffer(j)

NoStoreAt(a) == \A k \in 1 .. Len(U) : U[k].mem_addr # a

(* What the last two stages hold without forwarded data has no store to its *)
(* word in the buffer; nothing is forwarded past an AMO to the same word.   *)
AloneIn(stage) == Good(stage) /\ stage[1].fwd = {} => NoStoreAt(ops[stage[1].op].addr)
Alone ==
  /\ AloneIn(stage2) /\ AloneIn(stage3)
  /\ Good(stage3) /\ ops[stage3[1].op].kind = "AMO" /\ Good(stage2) /\ stage2[1].fwd # {} =>
       ops[stage3[1].op].addr # ops[stage2[1].op].addr

(* A store enters as the youngest that is performed; an AMO is performed only *)
(* when no store to its word is in the buffer.                              *)
LEMMA BufferedStep ==
  ASSUME Memory, Base, Buffered, Alone, Next
  PROVE  Buffered'
<1>0. U \in Seq(SB!MemWr) /\ Len(U) \in Nat
  BY BufferSeq, TypeParts, LenProperties DEF Base
<1>1. /\ Performed \subseteq 1 .. Len(ops)
      /\ \A j \in 1 .. Len(ops) : ops'[j] = ops[j]
      /\ \A k \in 1 .. Len(U) : Who(k) \in 1 .. Len(ops)
  BY PerformedIs, CpuStep DEF Base, Buffered
<1>2. (written => pending_buf # <<>>)'
  <2>1. CASE StoreAnswered
    BY <2>1 DEF StoreAnswered
  <2>2. CASE MemoryWrites
    BY <2>2 DEF MemoryWrites, sb
  <2>3. CASE ~StoreAnswered /\ ~MemoryWrites
    <3>1. written' = written
      BY <2>3 DEF Next, Unit, calculate_store, calculate_store_flush, calc_addr_load, flush_invalid_loads,
       check_fwd_path_resp, flush_invalid_fwds, request_axi_if_needed, flush_invalid_axi_rq,
       collect_result_read_bypass, collect_result_read, collect_result_mispredict,
       StoreSent, FullFlushed, MemoryReads, Arrive, HeadReached, Retire, Redirect, bus
    <3>2. pending_buf # <<>> => pending_buf' = pending_buf
      BY <2>3, BufferOfStep DEF Base, StoreEnters, StoreLeaves, StoresStay
    <3> QED
      BY <3>1, <3>2 DEF Buffered
  <2> QED
    BY <2>1, <2>2, <2>3
<1>3. CASE StoreEnters
  <2>0. PICK i, n : i = in[1] /\ n = Len(U) + 1
    OBVIOUS
  <2>1. /\ Performed' = Performed \cup {i} /\ i \in 1 .. Len(ops) /\ ops' = ops
        /\ ops[i].kind = "STORE" /\ \A j \in Performed : j < i
    BY <1>3, <2>0, PerformedStep DEF cpu
  <2>2. /\ Len(U') = n /\ U'[n] = StoreOf(i) /\ \A k \in 1 .. Len(U) : U'[k] = U[k]
    BY <1>3, <2>0 DEF StoreEnters
  <2>3. /\ \A j : StoreOf(j)' = StoreOf(j)
        /\ \A j : StoreOf(j).payload.data = j /\ StoreOf(j).mem_addr = ops[j].addr
    BY <2>1 DEF StoreOf
  <2>4. Who(n)' = i /\ \A k \in 1 .. Len(U) : Who(k)' = Who(k)
    BY <2>2, <2>3 DEF Who
  <2>5. \A k \in 1 .. Len(U') : k \in 1 .. Len(U) \/ k = n
    BY <1>0, <2>0, <2>2
  <2>6. \A k \in 1 .. Len(U') :
          (Who(k) \in Performed /\ ops[Who(k)].kind = "STORE" /\ U[k] = StoreOf(Who(k)))'
    BY <2>1, <2>2, <2>3, <2>4, <2>5 DEF Buffered
  <2>7. \A k, m \in 1 .. Len(U') : k < m => Who(k)' < Who(m)'
    BY <1>0, <2>1, <2>4, <2>5, <2>0 DEF Buffered
  <2>8. \A j : InBuffer(j) => InBuffer(j)'
    BY <1>0, <2>2, <2>4, <2>0 DEF InBuffer
  <2>9. InBuffer(i)'
    BY <1>0, <2>2, <2>4, <2>0 DEF InBuffer
  <2>10. ASSUME NEW k \in 1 .. Len(U'), NEW j \in Performed', ops[j].addr = U'[k].mem_addr
         PROVE  j < Who(k)' \/ InBuffer(j)'
    <3>1. CASE j = i
      BY <2>9, <3>1
    <3>2. CASE j \in Performed /\ k = n
      BY <2>1, <2>4, <3>2
    <3>3. CASE j \in Performed /\ k \in 1 .. Len(U)
      BY <2>2, <2>4, <2>8, <2>10, <3>3 DEF Buffered
    <3> QED
      BY <2>1, <2>5, <3>1, <3>2, <3>3
  <2> QED
    BY <1>2, <2>1, <2>6, <2>7, <2>10 DEF Buffered
<1>4. CASE StoreLeaves
  <2>1. /\ Len(U) \in Nat \ {0} /\ Len(U') = Len(U) - 1 /\ ops' = ops
        /\ \A k \in 1 .. Len(U) - 1 : U'[k] = U[k + 1]
    BY <1>4 DEF StoreLeaves, StoreAnswered, cpu
  <2>2. ~StoreEnters /\ ~AmoIsPerformed
    BY <1>4 DEF StoreLeaves, StoreEnters, StoreAnswered, AmoIsPerformed, calculate_store, pipe, MemoryReads
  <2>3. Performed' = Performed
    BY <2>2, PerformedStep
  <2>4. \A k \in 1 .. Len(U') : Who(k)' = Who(k + 1) /\ k + 1 \in 1 .. Len(U)
    BY <2>1 DEF Who
  <2>5. \A j : StoreOf(j)' = StoreOf(j)
    BY <2>1 DEF StoreOf
  <2>6. \A k \in 1 .. Len(U') :
          (Who(k) \in Performed /\ ops[Who(k)].kind = "STORE" /\ U[k] = StoreOf(Who(k)))'
    BY <2>1, <2>3, <2>4, <2>5 DEF Buffered
  <2>7. \A k, m \in 1 .. Len(U') : k < m => Who(k)' < Who(m)'
    BY <2>1, <2>4 DEF Buffered
  <2>8. ASSUME NEW k \in 1 .. Len(U'), NEW j \in Performed', ops[j].addr = U'[k].mem_addr
        PROVE  j < Who(k)' \/ InBuffer(j)'
    <3>1. j < Who(k + 1) \/ InBuffer(j)
      BY <2>1, <2>3, <2>4, <2>8 DEF Buffered
    <3>2. CASE InBuffer(j)
      <4>1. PICK m \in 1 .. Len(U) : Who(m) = j
        BY <3>2 DEF InBuffer
      <4>2. CASE m = 1
        BY <2>1, <2>4, <4>1, <4>2 DEF Buffered
      <4>3. CASE m # 1
        <5>1. m - 1 \in 1 .. Len(U') /\ m = m - 1 + 1
          BY <2>1, <4>3
        <5>2. Who(m - 1)' = j
          BY <2>4, <4>1, <5>1
        <5> QED
          BY <5>1, <5>2 DEF InBuffer
      <4> QED
        BY <4>2, <4>3
    <3> QED
      BY <2>4, <3>1, <3>2
  <2> QED
    BY <1>2, <2>1, <2>6, <2>7, <2>8 DEF Buffered
<1>5. CASE StoresStay
  <2>1. U' = U /\ \A k : Who(k)' = Who(k) /\ \A j : InBuffer(j)' = InBuffer(j)
    BY <1>5 DEF StoresStay, Who, InBuffer
  <2>2. ~StoreEnters
    BY <1>5 DEF StoresStay, StoreEnters
  <2>3. \A j \in 1 .. Len(ops) : StoreOf(j)' = StoreOf(j)
    BY <1>1 DEF StoreOf
  <2>4. CASE AmoIsPerformed
    <3>1. PICK i \in 1 .. Len(ops) : i = stage3[1].op /\ Waits /\ read_rq = <<i>>
      BY <2>4, AmoIs
    <3>2. Performed' = Performed \cup {i}
      BY <2>2, <2>4, <3>1, PerformedStep
    <3>3. NoStoreAt(ops[i].addr)
      BY <3>1 DEF Alone, AloneIn, Waits, Good
    <3>4. \A k \in 1 .. Len(U) : U[k].mem_addr # ops[i].addr
      BY <3>3 DEF NoStoreAt
    <3> QED
      BY <1>1, <1>2, <2>1, <2>3, <3>2, <3>4 DEF Buffered
  <2>5. CASE ~AmoIsPerformed
    <3>1. Performed' = Performed
      BY <2>2, <2>5, PerformedStep
    <3> QED
      BY <1>1, <1>2, <2>1, <2>3, <3>1 DEF Buffered
  <2> QED
    BY <2>4, <2>5
<1> QED
  BY <1>3, <1>4, <1>5, BufferOfStep DEF Base

(* Memory holds, lane by lane, the youngest of what has been performed,     *)
(* the stores it has not taken from the buffer left out.                    *)
IsLast(v, S) == IF S = {} THEN v = 0 ELSE v \in S /\ \A k \in S : k <= v
ToWrite(k)   == written => k # 1
Unwritten(j) == \E k \in 1 .. Len(U) : ToWrite(k) /\ Who(k) = j
InMem(a, l)  == {j \in Performed : At(j, a, l) /\ ~Unwritten(j)}
MemHas       == \A a \in Addr, l \in Lane : IsLast(mem[a][l], InMem(a, l))

LEMMA MemoryOfStep ==
  ASSUME Next
  PROVE  UNCHANGED <<mem, written>> \/ MemoryWrites \/ StoreAnswered \/ AmoIsPerformed
<1>1. MemoryReads => UNCHANGED <<mem, written>> \/ AmoIsPerformed
  BY DEF MemoryReads, AmoIsPerformed
<1> QED
  BY <1>1 DEF Next, Unit, calculate_store, calculate_store_flush, calc_addr_load, flush_invalid_loads,
     check_fwd_path_resp, flush_invalid_fwds, request_axi_if_needed, flush_invalid_axi_rq,
     collect_result_read_bypass, collect_result_read, collect_result_mispredict,
     StoreSent, FullFlushed, Arrive, HeadReached, Retire, Redirect, bus

(* Memory takes the oldest store of the buffer, which is younger than what memory *)
(* has of its word, or an AMO, which is younger than all.                   *)
LEMMA MemHasStep ==
  ASSUME Memory, Base, Buffered, Alone, MemHas, Next
  PROVE  MemHas'
<1>0. U \in Seq(SB!MemWr) /\ Len(U) \in Nat
  BY BufferSeq, TypeParts, LenProperties DEF Base
<1>1. /\ Performed \subseteq 1 .. Len(ops)
      /\ \A j \in 1 .. Len(ops) : ops'[j] = ops[j]
      /\ \A k \in 1 .. Len(U) : Who(k) \in 1 .. Len(ops)
  BY PerformedIs, CpuStep DEF Base, Buffered
<1>2. \A j \in 1 .. Len(ops) : \A a, l : At(j, a, l)' <=> At(j, a, l)
  BY <1>1 DEF At
<1>3. pending_buf # <<>> => Len(U) >= 1 /\ U[1] = pending_buf[1]
  BY <1>0, BufferSeq, TypeParts, EmptySeq DEF Base
<1>4. CASE StoreEnters
  <2>0. PICK i, n : i = in[1] /\ n = Len(U) + 1
    OBVIOUS
  <2>1. /\ Performed' = Performed \cup {i} /\ i \in 1 .. Len(ops) /\ UNCHANGED <<mem, written>>
        /\ \A j \in Performed : j < i
    BY <1>4, <2>0, PerformedStep
  <2>2. /\ Len(U') = n /\ U'[n] = StoreOf(i) /\ \A k \in 1 .. Len(U) : U'[k] = U[k]
    BY <1>4, <2>0 DEF StoreEnters
  <2>3. Who(n)' = i /\ \A k \in 1 .. Len(U) : Who(k)' = Who(k)
    BY <2>2 DEF Who, StoreOf
  <2>4. \A k : ToWrite(k)' <=> ToWrite(k)
    BY <2>1 DEF ToWrite
  <2>5. ToWrite(n)
    BY <1>0, <1>3, <2>0 DEF ToWrite, Buffered
  <2>6. Unwritten(i)'
    BY <1>0, <2>0, <2>2, <2>3, <2>4, <2>5 DEF Unwritten
  <2>7. \A j : j # i => (Unwritten(j)' <=> Unwritten(j))
    BY <1>0, <2>0, <2>2, <2>3, <2>4 DEF Unwritten
  <2>8. \A j \in Performed : j # i
    BY <1>1, <2>1
  <2>9. \A a, l : InMem(a, l)' = InMem(a, l)
    BY <1>1, <1>2, <2>1, <2>6, <2>7, <2>8 DEF InMem
  <2> QED
    BY <2>1, <2>9 DEF MemHas
<1>5. CASE AmoIsPerformed
  <2>1. PICK i \in 1 .. Len(ops) :
           /\ read_rq = <<i>> /\ ops[i].kind = "AMO" /\ ops[i].mask = Lane /\ ops[i].addr \in Addr
           /\ mem' = [mem EXCEPT ![ops[i].addr] = [l \in Lane |-> i]]
           /\ i \notin Performed /\ \A j \in Performed : j < i
    BY <1>5, AmoIs
  <2>2. Performed' = Performed \cup {i} /\ written' = written /\ ~StoreEnters
    BY <1>5, <2>1, PerformedStep DEF AmoIsPerformed, MemoryReads, StoreEnters, calculate_store, pipe
  <2>3. ~StoreLeaves
    BY <1>5 DEF StoreLeaves, StoreAnswered, AmoIsPerformed, MemoryReads
  <2>4. U' = U
    BY <2>2, <2>3, BufferOfStep DEF Base, StoresStay
  <2>5. \A j : Unwritten(j)' <=> Unwritten(j)
    BY <2>2, <2>4 DEF Unwritten, ToWrite, Who
  <2>6. ~Unwritten(i)
    BY <2>1 DEF Unwritten, Buffered
  <2>7. ASSUME NEW a \in Addr, NEW l \in Lane PROVE IsLast(mem'[a][l], InMem(a, l)')
    <3>1. CASE a = ops[i].addr
      <4>1. At(i, a, l)
        BY <2>1, <3>1 DEF At
      <4>4. InMem(a, l)' = {j \in Performed \cup {i} : At(j, a, l)' /\ ~Unwritten(j)'}
        BY <2>2 DEF InMem
      <4>5. At(i, a, l)' /\ ~Unwritten(i)'
        BY <1>2, <2>5, <2>6, <4>1
      <4>2. i \in InMem(a, l)' /\ \A j \in InMem(a, l)' : j <= i
        <5>1. i \in Int /\ \A j \in Performed : j \in Int /\ j < i
          BY <1>1, <2>1
        <5>2. \A j \in Performed \cup {i} : j <= i
          BY <5>1
        <5> QED
          BY <4>4, <4>5, <5>2
      <4>3. mem'[a][l] = i
        BY <2>1, <3>1, TypeParts DEF Base, TypeBus
      <4> QED
        BY <4>2, <4>3 DEF IsLast
    <3>2. CASE a # ops[i].addr
      <4>1. ~At(i, a, l)
        BY <3>2 DEF At
      <4>2. InMem(a, l)' = InMem(a, l)
        BY <1>1, <1>2, <2>2, <2>5, <4>1 DEF InMem
      <4>3. mem'[a] = mem[a]
        BY <2>1, <3>2, TypeParts DEF Base, TypeBus
      <4> QED
        BY <4>2, <4>3 DEF MemHas
    <3> QED
      BY <3>1, <3>2
  <2> QED
    BY <2>7 DEF MemHas
<1>6. CASE StoreAnswered
  <2>1. StoreLeaves
    <3>1. ~StoreEnters
      BY <1>6 DEF StoreAnswered, StoreEnters, calculate_store, pipe
    <3>2. ~StoresStay
      BY <1>6 DEF StoresStay
    <3> QED
      BY <3>1, <3>2, BufferOfStep DEF Base
  <2>2. /\ Len(U) \in Nat \ {0} /\ Len(U') = Len(U) - 1
        /\ \A k \in 1 .. Len(U) - 1 : U'[k] = U[k + 1]
        /\ written /\ ~written' /\ mem' = mem
    BY <1>6, <2>1 DEF StoreLeaves, StoreAnswered
  <2>3. Performed' = Performed
    BY <1>6, PerformedStep DEF StoreAnswered, StoreEnters, calculate_store, pipe, AmoIsPerformed, MemoryReads
  <2>4. \A k \in 1 .. Len(U') : Who(k)' = Who(k + 1)
    BY <2>2 DEF Who
  <2>5. \A j : Unwritten(j)' <=> \E k \in 1 .. Len(U) - 1 : Who(k + 1) = j
    BY <2>2, <2>4 DEF Unwritten, ToWrite
  <2>6. \A j : Unwritten(j) <=> \E k \in 2 .. Len(U) : Who(k) = j
    BY <2>2 DEF Unwritten, ToWrite
  <2>7. ASSUME NEW j PROVE (\E k \in 1 .. Len(U) - 1 : Who(k + 1) = j) <=> \E k \in 2 .. Len(U) : Who(k) = j
    <3>1. \A k \in 2 .. Len(U) : k - 1 \in 1 .. Len(U) - 1 /\ (k - 1) + 1 = k
      BY <2>2
    <3>2. \A k \in 1 .. Len(U) - 1 : k + 1 \in 2 .. Len(U)
      BY <2>2
    <3> QED
      BY <3>1, <3>2
  <2>8. \A a, l : InMem(a, l)' = InMem(a, l)
    BY <1>1, <1>2, <2>3, <2>5, <2>6, <2>7 DEF InMem
  <2> QED
    BY <2>2, <2>8 DEF MemHas
<1>7. CASE MemoryWrites
  <2>0. PICK d, s : s = U[1] /\ d = Who(1)
    OBVIOUS
  <2>1. /\ Len(U) >= 1 /\ ~written /\ written' /\ UNCHANGED <<in, read_rq, sb>>
        /\ mem' = [mem EXCEPT ![s.mem_addr] = [l \in Lane |->
                     IF l \in s.payload.mask THEN s.payload.data ELSE mem[s.mem_addr][l]]]
    BY <1>3, <1>7, <2>0 DEF MemoryWrites, pipe
  <2>2. /\ d \in Performed /\ d = s.payload.data /\ s.mem_addr = ops[d].addr /\ s.payload.mask = ops[d].mask
        /\ s.mem_addr \in Addr
    <3>1. d \in Performed /\ s = StoreOf(d) /\ d = s.payload.data
      BY <1>0, <2>0, <2>1 DEF Buffered, Who
    <3>2. s \in SB!MemWr
      BY <1>0, <2>0, <2>1, ElementOfSeq
    <3> QED
      BY <3>1, <3>2 DEF StoreOf, SB!MemWr
  <2>3. U' = U
    BY <2>1, BufferUnchanged, TypeParts DEF Base
  <2>4. Performed' = Performed
    BY <1>7, <2>1, PerformedStep DEF MemoryWrites, StoreEnters, calculate_store, AmoIsPerformed, MemoryReads
  <2>5. \A j : Unwritten(j)' <=> Unwritten(j) /\ j # d
    <3>1. \A j : Unwritten(j)' <=> \E k \in 1 .. Len(U) : k # 1 /\ Who(k) = j
      BY <2>1, <2>3 DEF Unwritten, ToWrite, Who
    <3>2. \A j : Unwritten(j) <=> \E k \in 1 .. Len(U) : Who(k) = j
      BY <2>1 DEF Unwritten, ToWrite
    <3>3. \A k \in 1 .. Len(U) : k # 1 => Who(k) # d
      BY <1>0, <1>1, <2>0 DEF Buffered
    <3> QED
      BY <2>0, <3>1, <3>2, <3>3
  <2>6. \A j \in Performed : ops[j].addr = ops[d].addr /\ ~Unwritten(j) => j < d
    <3>1. \A j : InBuffer(j) => Unwritten(j)
      BY <2>1 DEF InBuffer, Unwritten, ToWrite
    <3> QED
      BY <1>0, <2>0, <2>1, <2>2, <3>1 DEF Buffered
  <2>7. Unwritten(d)
    BY <1>0, <2>0, <2>1 DEF Unwritten, ToWrite
  <2>8. ASSUME NEW a \in Addr, NEW l \in Lane PROVE IsLast(mem'[a][l], InMem(a, l)')
    <3>1. CASE At(d, a, l)
      <4>1. InMem(a, l)' = InMem(a, l) \cup {d}
        BY <1>1, <1>2, <2>2, <2>4, <2>5, <3>1 DEF InMem
      <4>2. \A j \in InMem(a, l) : j < d
        BY <2>6, <3>1 DEF InMem, At
      <4>3. mem'[a][l] = d
        BY <2>1, <2>2, <3>1, TypeParts DEF Base, TypeBus, At
      <4> QED
        BY <1>1, <2>2, <4>1, <4>2, <4>3 DEF IsLast, InMem
    <3>2. CASE ~At(d, a, l)
      <4>1. InMem(a, l)' = InMem(a, l)
        BY <1>1, <1>2, <2>2, <2>4, <2>5, <3>2 DEF InMem
      <4>2. mem'[a][l] = mem[a][l]
        BY <2>1, <2>2, <3>2, TypeParts DEF Base, TypeBus, At
      <4> QED
        BY <4>1, <4>2 DEF MemHas
    <3> QED
      BY <3>1, <3>2
  <2> QED
    BY <2>8 DEF MemHas
<1>8. CASE ~StoreEnters /\ ~AmoIsPerformed /\ ~StoreAnswered /\ ~MemoryWrites
  <2>1. UNCHANGED <<mem, written>> /\ Performed' = Performed
    BY <1>8, MemoryOfStep, PerformedStep
  <2>2. U' = U
    BY <1>8, BufferOfStep DEF Base, StoreLeaves, StoresStay
  <2>3. \A j : Unwritten(j)' <=> Unwritten(j)
    BY <2>1, <2>2 DEF Unwritten, ToWrite, Who
  <2>4. \A a, l : InMem(a, l)' = InMem(a, l)
    BY <1>1, <1>2, <2>1, <2>3 DEF InMem
  <2> QED
    BY <2>1, <2>4 DEF MemHas
<1> QED
  BY <1>4, <1>5, <1>6, <1>7, <1>8

(* While a load that was not answered waits in the last two stages, no store can *)
(* enter the buffer; an AMO there holds back what it could be forwarded past. *)
LEMMA AloneStep ==
  ASSUME Memory, Base, Buffered, Alone, Next
  PROVE  Alone'
<1>0. SB!TypeOK /\ Len(U) \in Nat
  BY BufferSeq, TypeParts, LenProperties DEF Base
<1>1. /\ \A st \in {stage1, stage2, stage3} : st # <<>> => st[1].op \in 1 .. Len(ops) /\ st[1].op \in Op
      /\ \A i \in 1 .. Len(ops) : ops'[i] = ops[i]
  BY StageOps, CpuStep DEF Base
<1>2. CASE StoreEnters
  <2>1. stage2 = <<>> /\ stage3 = <<>> /\ stage2' = stage2 /\ stage3' = stage3
    BY <1>2, PipeEmpty DEF Base, StoreEnters, calculate_store
  <2> QED
    BY <2>1 DEF Alone, AloneIn, Good
<1>3. CASE ~StoreEnters
  <2> DEFINE Free(a) == \A k \in 1 .. Len(U') : U'[k].mem_addr # a
  <2>1. \A a : NoStoreAt(a) => Free(a)
    <3>1. CASE StoreLeaves
      <4>1. /\ Len(U') = Len(U) - 1
            /\ \A k \in 1 .. Len(U) - 1 : U'[k] = U[k + 1] /\ k + 1 \in 1 .. Len(U)
        BY <1>0, <3>1 DEF StoreLeaves
      <4> QED
        BY <4>1 DEF NoStoreAt
    <3>2. CASE StoresStay
      BY <3>2 DEF StoresStay, NoStoreAt
    <3> QED
      BY <1>3, <3>1, <3>2, BufferOfStep DEF Base
  <2>2. ASSUME NEW st \in {stage2, stage3}, AloneIn(st)
        PROVE  Good(st) /\ st[1].fwd = {} => Free(ops'[st[1].op].addr)
    <3>1. SUFFICES ASSUME Good(st), st[1].fwd = {} PROVE Free(ops'[st[1].op].addr)
      OBVIOUS
    <3>2. ops'[st[1].op] = ops[st[1].op] /\ NoStoreAt(ops[st[1].op].addr)
      BY <1>1, <2>2, <3>1 DEF AloneIn, Good
    <3> HIDE DEF Free
    <3> QED
      BY <2>1, <3>2
  <2>3. /\ Good(stage2) /\ stage2[1].fwd = {} => Free(ops'[stage2[1].op].addr)
        /\ Good(stage3) /\ stage3[1].fwd = {} => Free(ops'[stage3[1].op].addr)
    BY <2>2 DEF Alone
  <2>4. CASE StoreMoves \/ Enters \/ Stays \/ Arrive
    <3>1. stage2' = stage2 /\ stage3' = stage3
      BY <2>4 DEF StoreMoves, Enters, Stays, Arrive
    <3>2. AloneIn(stage2)' /\ AloneIn(stage3)'
      BY <2>3, <3>1 DEF AloneIn, Good, NoStoreAt
    <3> QED
      BY <1>1, <3>1, <3>2 DEF Alone, Good
  <2>5. CASE IsAnswered
    <3>1. stage2' = stage2 /\ stage3' = <<>>
      BY <2>5 DEF IsAnswered
    <3> QED
      BY <2>3, <3>1 DEF Alone, AloneIn, Good, NoStoreAt
  <2>6. CASE IsRequested
    <3>1. /\ stage2' = <<>> /\ stage2 # <<>>
          /\ stage3' = stage2 \/ stage3' = <<LoadPipe(stage2[1].op, TRUE, {})>>
      BY <2>6 DEF IsRequested, request_axi_if_needed
    <3> QED
      BY <2>3, <3>1 DEF Alone, AloneIn, Good, LoadPipe, NoStoreAt
  <2>7. CASE IsProbed
    <3>0. PICK i, a, f : i = stage1[1].op /\ a = ops[i].addr /\ f = probe(i)
      OBVIOUS
    <3>1. stage1 # <<>> /\ stage3' = stage3 /\ ops' = ops /\ U' = U
      BY <1>0, <2>7, BufferUnchanged DEF IsProbed, cpu
    <3>2. i \in 1 .. Len(ops) /\ a \in Addr
      BY <1>1, <3>0, <3>1, OpTyped DEF Base
    <3>3. f = {} => NoStoreAt(a)
      BY <1>0, <3>0, <3>2, ForwardIs DEF probe, NoStoreAt
    <3>4. f # {} => ~NoStoreAt(a)
      BY <1>0, <3>0, <3>2, ForwardIs DEF probe, NoStoreAt
    <3>5. Good(stage2') => stage2'[1].op = i /\ stage2'[1].fwd = f
      BY <2>7, <3>0 DEF IsProbed, Good, LoadPipe
    <3>6. AloneIn(stage2)'
      BY <3>0, <3>1, <3>3, <3>5 DEF AloneIn, Good, NoStoreAt
    <3>7. AloneIn(stage3)'
      BY <2>3, <3>1 DEF AloneIn, Good, NoStoreAt
    <3>8. ASSUME Good(stage3), ops[stage3[1].op].kind = "AMO", f # {}
          PROVE  ops[stage3[1].op].addr # a
      <4>1. stage3[1].fwd = {}
        BY <3>8 DEF Base, Requested, ForwardsLoad
      <4> QED
        BY <3>4, <3>8, <4>1 DEF Alone, AloneIn
    <3> QED
      BY <3>0, <3>1, <3>5, <3>6, <3>7, <3>8 DEF Alone, Good
  <2> QED
    BY <2>4, <2>5, <2>6, <2>7, MoveOfStep
<1> QED
  BY <1>2, <1>3

-----------------------------------------------------------------------------
(* What a load or AMO has to return: lane by lane the youngest of what has  *)
(* been performed before it in program order.                               *)
Before(i, l) == {j \in Performed : j < i /\ At(j, ops[i].addr, l)}
Right(i, w)  == \A l \in ops[i].mask : IsLast(w[l], Before(i, l))

(* The instructions whose result the core may use. *)
counts(i) == i \in committed \/ current_epoch(i)

ResultsRight ==
  \A i \in 1 .. Len(ops) : ops[i].kind # "STORE" /\ result[i] # <<>> /\ counts(i) =>
     \E w \in Word : result[i] = <<Taken(i, w)>> /\ Right(i, w)
AnswerRight == stage3 # <<>> /\ read_rs # <<>> => Right(stage3[1].op, read_rs[1])
ForwardRight(stage) ==
  Good(stage) => \A s \in stage[1].fwd : Right(stage[1].op, [l \in Lane |-> s.payload.data])
WritesDone ==
  \A i \in 1 .. Len(ops) :
    ops[i].kind # "LOAD" /\ ~ops[i].misaligned /\ result[i] # <<>> /\ counts(i) => i \in Performed

State == Base /\ Buffered /\ Alone /\ MemHas
Data  == ResultsRight /\ AnswerRight /\ ForwardRight(stage2) /\ ForwardRight(stage3) /\ WritesDone

(* What is of no account stays so.                                          *)
LEMMA CountsStep ==
  ASSUME TypeOK, Next, NEW i \in 1 .. Len(ops)
  PROVE  /\ counts(i)' => counts(i)
         /\ cpu' = cpu /\ i > retired => (counts(i)' => current_epoch(i))
<1>1. committed' = committed \/ (committed' = committed \cup {retired + 1} /\ current_epoch(retired + 1))
  BY CpuStep DEF cpu, Arrive, HeadReached, Retire, Redirect
<1>2. current_epoch(i)' => current_epoch(i)
  BY EpochStep
<1>3. ASSUME cpu' = cpu, i > retired PROVE i \notin committed'
  BY <1>3, TypeParts DEF cpu, TypeCpu
<1> QED
  BY <1>1, <1>2, <1>3 DEF counts

(* An answer that is right stays right, unless an older AMO to the same     *)
(* word is performed.                                                       *)
LEMMA RightStep ==
  ASSUME Memory, State, Next, NEW i \in 1 .. Len(ops), NEW w, Right(i, w),
         AmoIsPerformed => i <= read_rq[1] \/ ops[read_rq[1]].addr # ops[i].addr
  PROVE  Right(i, w)'
<1>1. /\ Performed \subseteq 1 .. Len(ops) /\ Len(ops) \in Nat
      /\ \A j \in 1 .. Len(ops) : ops'[j] = ops[j]
  BY PerformedIs, CpuStep DEF State, Base
<1>3. ASSUME NEW l PROVE Before(i, l)' = Before(i, l)
  <2>4. \A j \in 1 .. Len(ops) : At(j, ops[i].addr, l)' <=> At(j, ops[i].addr, l)
    BY <1>1 DEF At
  <2>5. Before(i, l)' = {j \in Performed' : j < i /\ At(j, ops[i].addr, l)'}
    BY DEF Before
  <2>1. CASE StoreEnters
    <3>1. Performed' = Performed \cup {in[1]} /\ in # <<>>
      BY <2>1, PerformedStep DEF State, AmoIsPerformed, StoreEnters
    <3>2. i <= in[1] /\ in[1] \in 1 .. Len(ops)
      BY <1>1, <3>1 DEF State, Base, Ordered
    <3>3. PICK n : n = in[1]
      OBVIOUS
    <3>4. n \in 1 .. Len(ops) /\ ~(n < i) /\ Performed' = Performed \cup {n}
      BY <1>1, <3>1, <3>2, <3>3
    <3> QED
      BY <1>1, <2>4, <2>5, <3>4 DEF Before
  <2>2. CASE AmoIsPerformed
    <3>1. PICK j : j = read_rq[1]
      OBVIOUS
    <3>2. Performed' = Performed \cup {j} /\ j \in 1 .. Len(ops)
      <4>1. PICK m \in 1 .. Len(ops) : read_rq = <<m>>
        BY <2>2, AmoIs DEF State
      <4>2. j = m
        BY <3>1, <4>1
      <4> QED
        BY <2>2, <3>1, <4>2, PerformedStep DEF State
    <3>3. ~(j < i /\ At(j, ops[i].addr, l))
      BY <1>1, <2>2, <3>1, <3>2 DEF At
    <3> QED
      BY <1>1, <2>4, <2>5, <3>2, <3>3 DEF Before
  <2>3. CASE ~StoreEnters /\ ~AmoIsPerformed
    <3>1. Performed' = Performed
      BY <2>3, PerformedStep DEF State
    <3> QED
      BY <1>1, <2>4, <2>5, <3>1 DEF Before
  <2> QED
    BY <2>1, <2>2, <2>3
<1> QED
  BY <1>1, <1>3 DEF Right

LEMMA WhoIs ==
  ASSUME Buffered, NEW k \in 1 .. Len(U)
  PROVE  /\ Who(k) \in Performed /\ U[k].payload.data = Who(k)
         /\ U[k].mem_addr = ops[Who(k)].addr /\ U[k].payload.mask = ops[Who(k)].mask
<1>1. Who(k) \in Performed /\ U[k] = StoreOf(Who(k))
  BY DEF Buffered
<1> QED
  BY <1>1 DEF StoreOf, Who

LEMMA IsRequestedFacts ==
  ASSUME Base, IsRequested
  PROVE  /\ read_rq = <<>> /\ read_rs = <<>> /\ read_rs' = <<>> /\ stage2' = <<>> /\ stage2 # <<>>
         /\ stage3 = <<>> /\ ~AmoIsPerformed /\ result' = result
         /\ stage3' = stage2 \/ stage3' = <<LoadPipe(stage2[1].op, TRUE, {})>>
<1>1. /\ stage3 = <<>> /\ stage2 # <<>> /\ stage2' = <<>> /\ read_rs' = read_rs /\ result' = result
      /\ stage3' = stage2 \/ stage3' = <<LoadPipe(stage2[1].op, TRUE, {})>>
  BY DEF IsRequested, request_axi_if_needed
<1>2. read_rq = <<>> /\ read_rs = <<>>
  BY <1>1, OneReadIs DEF Base, Waits
<1> QED
  BY <1>1, <1>2 DEF AmoIsPerformed, MemoryReads

(* Memory reads for the last stage, whose word has no store in the buffer: what it *)
(* finds is the youngest performed, and what is performed later is younger still. *)
LEMMA AnswerStep ==
  ASSUME Memory, State, Data, Next
  PROVE  AnswerRight'
<1> SUFFICES ASSUME stage3' # <<>>, read_rs' # <<>>,
                    NEW i, NEW w, i = stage3'[1].op, w = read_rs'[1]
             PROVE  Right(i, w)'
  BY DEF AnswerRight, Right, Before, At
<1>1. ~IsRequested /\ ~IsAnswered
  BY IsRequestedFacts DEF State, IsAnswered
<1>2. stage3' = stage3
  BY <1>1, MoveOfStep DEF StoreMoves, Enters, IsProbed, Stays, Arrive
<1>3. stage3[1].op \in 1 .. Len(ops) /\ stage3[1].op \in Op
  BY <1>2, StageOps DEF State, Base
<1>4. CASE MemoryReads
  <2>1. PICK a : i = stage3[1].op /\ a = ops[i].addr
    BY <1>2
  <2>2. read_rq # <<>> /\ read_rq' = <<>> /\ UNCHANGED <<ops, effects, sb>>
    BY <1>4 DEF MemoryReads, cpu
  <2>3. Waits /\ read_rq = <<i>> /\ i \in 1 .. Len(ops) /\ InPipe(i) /\ i \in Op
    BY <1>3, <2>1, <2>2, OneReadIs DEF State, Base, InPipe, Holds, Waits
  <2>4. read_rq[1] = i
    BY <2>3
  <2>5. w = mem[a]
    BY <1>4, <2>1, <2>4 DEF MemoryReads
  <2>6. NoStoreAt(a) /\ a \in Addr /\ ops[i].mask \in SUBSET Lane
    BY <2>1, <2>3, OpTyped DEF State, Base, Alone, AloneIn, Waits, Good
  <2>7. \A j \in Performed : j < i
    <3>1. i \notin Performed
      BY <2>3 DEF Performed
    <3> QED
      BY <2>3, <3>1, PerformedIs DEF State, Op
  <2>8. Performed' = Performed \/ Performed' = Performed \cup {i}
    BY <1>4, <2>4, PerformedStep DEF State, StoreEnters, calculate_store, MemoryReads, pipe
  <2>9. \A j \in Performed : ops[j].addr = a => ~Unwritten(j)
    BY <2>6, WhoIs DEF NoStoreAt, Unwritten, State
  <2>10. ASSUME NEW l PROVE Before(i, l)' = InMem(a, l)
    <3>1. \A j : At(j, ops[i].addr, l)' <=> At(j, a, l)
      BY <2>1, <2>2 DEF At
    <3>2. Before(i, l)' = {j \in Performed' : j < i /\ At(j, ops[i].addr, l)'}
      BY DEF Before
    <3>3. \A j \in Performed : At(j, a, l) => ~Unwritten(j)
      BY <2>9 DEF At
    <3> QED
      BY <2>3, <2>7, <2>8, <3>1, <3>2, <3>3 DEF InMem, Op
  <2>11. \A l \in ops[i].mask : IsLast(w[l], InMem(a, l))
    BY <2>1, <2>5, <2>6 DEF State, MemHas
  <2> QED
    BY <2>2, <2>10, <2>11 DEF Right
<1>5. CASE ~MemoryReads
  <2>1. read_rs' = read_rs
    BY <1>1, <1>5, MoveOfStep DEF StoreMoves, Enters, IsProbed, Stays, Arrive, bus
  <2>2. Right(i, w) /\ i \in 1 .. Len(ops)
    BY <1>2, <1>3, <2>1 DEF Data, AnswerRight
  <2> QED
    BY <1>5, <2>2, RightStep DEF AmoIsPerformed
<1> QED
  BY <1>4, <1>5

(* What the search of the buffer finds is right for a load that comes by.   *)
LEMMA ProbeRight ==
  ASSUME Memory, State, IsProbed, NEW i, i = stage1[1].op, NEW s \in probe(i)
  PROVE  Right(i, [l \in Lane |-> s.payload.data]) \/ stage2'[1].mispredicted
<1>1. SUFFICES ASSUME ~stage2'[1].mispredicted PROVE Right(i, [l \in Lane |-> s.payload.data])
  OBVIOUS
<1>2. stage1 # <<>> /\ will_do(i, probe(i))
  BY <1>1 DEF IsProbed, LoadPipe
<1>3. /\ i \in 1 .. Len(ops) /\ i \in Op /\ InPipe(i)
      /\ ops[i].addr \in Addr /\ ops[i].mask \in SUBSET Lane
  BY <1>2, StageOps, OpTyped DEF State, Base, InPipe, Holds
<1>4. Len(U) \in Nat /\ SB!TypeOK
  BY BufferSeq, TypeParts, LenProperties DEF State, Base
<1>5. PICK k \in 1 .. Len(U) :
        /\ SB!forward(ops[i].addr) = {U[k]} /\ U[k].mem_addr = ops[i].addr
        /\ \A g \in k + 1 .. Len(U) : U[g].mem_addr # ops[i].addr
  BY <1>3, <1>4, ForwardIs DEF probe
<1>6. s = U[k] /\ ops[i].kind = "LOAD" /\ ops[i].mask \subseteq s.payload.mask
  <2>1. probe(i) = {U[k]}
    BY <1>5 DEF probe
  <2> QED
    BY <1>2, <2>1 DEF will_do
<1>7. PICK d : d = Who(k)
  OBVIOUS
<1>8. /\ d \in Performed /\ s.payload.data = d
      /\ ops[d].addr = ops[i].addr /\ ops[d].mask = s.payload.mask
  BY <1>5, <1>6, <1>7, WhoIs DEF State
<1>9. d < i /\ d \in Op
  <2>1. d <= i /\ d # i /\ d \in Op
    BY <1>3, <1>6, <1>8, PerformedIs DEF State
  <2> QED
    BY <1>3, <2>1 DEF Op
<1>10. ASSUME NEW j \in Performed, ops[j].addr = ops[i].addr
       PROVE  j <= d
  <2>1. j < d \/ InBuffer(j)
    BY <1>5, <1>7, <1>10 DEF State, Buffered
  <2>2. ASSUME NEW g \in 1 .. Len(U), Who(g) = j PROVE j <= d
    <3>1. U[g].mem_addr = ops[i].addr
      BY <1>10, <2>2, WhoIs DEF State
    <3>2. g <= k
      BY <1>4, <1>5, <3>1
    <3>3. g < k => Who(g) < Who(k)
      BY <1>5 DEF State, Buffered
    <3>4. j \in Op
      BY PerformedIs DEF State
    <3> QED
      BY <1>7, <1>9, <2>2, <3>2, <3>3, <3>4 DEF Op
  <2>3. j \in Op
    BY PerformedIs DEF State
  <2> QED
    BY <1>9, <2>1, <2>2, <2>3 DEF InBuffer, Op
<1>11. ASSUME NEW l \in ops[i].mask PROVE IsLast(d, Before(i, l))
  <2>1. d \in Before(i, l)
    BY <1>6, <1>8, <1>9, <1>11 DEF Before, At
  <2>2. \A j \in Before(i, l) : j <= d
    BY <1>10 DEF Before, At
  <2> QED
    BY <2>1, <2>2 DEF IsLast
<1> QED
  BY <1>3, <1>8, <1>11 DEF Right

(* Forwarded data stays right while the load waits for its turn.            *)
LEMMA ForwardStep ==
  ASSUME Memory, State, Data, Next
  PROVE  ForwardRight(stage2)' /\ ForwardRight(stage3)'
<1>1. \A st \in {stage1, stage2, stage3} : st # <<>> => st[1].op \in 1 .. Len(ops) /\ st[1].op \in Op
  BY StageOps DEF State, Base
<1> DEFINE Stays2 == Good(stage2) =>
             \A s \in stage2[1].fwd : \A i : i = stage2[1].op => Right(i, [l \in Lane |-> s.payload.data])'
           Stays3 == Good(stage3) =>
             \A s \in stage3[1].fwd : \A i : i = stage3[1].op => Right(i, [l \in Lane |-> s.payload.data])'
<1>2. Stays2
  <2> SUFFICES ASSUME Good(stage2), NEW s \in stage2[1].fwd, NEW i, i = stage2[1].op
               PROVE  Right(i, [l \in Lane |-> s.payload.data])'
    OBVIOUS
  <2>1. Right(i, [l \in Lane |-> s.payload.data]) /\ i \in 1 .. Len(ops)
    BY <1>1 DEF Data, ForwardRight, Good
  <2>2. ASSUME AmoIsPerformed PROVE ops[read_rq[1]].addr # ops[i].addr
    <3>1. PICK m \in 1 .. Len(ops) : m = stage3[1].op /\ Waits /\ read_rq = <<m>> /\ ops[m].kind = "AMO"
      BY <2>2, AmoIs DEF State
    <3>2. read_rq[1] = m
      BY <3>1
    <3> QED
      BY <3>1, <3>2 DEF State, Alone, Waits, Good
  <2> QED
    BY <2>1, <2>2, RightStep
<1>3. Stays3
  <2> SUFFICES ASSUME Good(stage3), NEW s \in stage3[1].fwd, NEW i, i = stage3[1].op
               PROVE  Right(i, [l \in Lane |-> s.payload.data])'
    OBVIOUS
  <2>1. Right(i, [l \in Lane |-> s.payload.data]) /\ i \in 1 .. Len(ops)
    BY <1>1 DEF Data, ForwardRight, Good
  <2>2. ~AmoIsPerformed
    BY AmoIs DEF State, Waits
  <2> QED
    BY <2>1, <2>2, RightStep
<1> HIDE DEF Stays2, Stays3
<1>4. ASSUME stage2' = stage2 PROVE ForwardRight(stage2)'
  BY <1>2, <1>4 DEF Stays2, ForwardRight, Good, Right, Before, At
<1>5. ASSUME stage3' = stage3 PROVE ForwardRight(stage3)'
  BY <1>3, <1>5 DEF Stays3, ForwardRight, Good, Right, Before, At
<1>6. CASE StoreMoves \/ Enters \/ Stays \/ Arrive
  BY <1>4, <1>5, <1>6 DEF StoreMoves, Enters, Stays, Arrive
<1>7. CASE IsAnswered
  <2>1. stage2' = stage2 /\ stage3' = <<>>
    BY <1>7 DEF IsAnswered
  <2> QED
    BY <1>4, <2>1 DEF ForwardRight, Good
<1>8. CASE IsRequested
  <2>1. stage2' = <<>> /\ (stage3' = stage2 \/ stage3' = <<LoadPipe(stage2[1].op, TRUE, {})>>)
    BY <1>8, IsRequestedFacts DEF State
  <2>2. CASE stage3' = stage2
    BY <1>2, <2>1, <2>2 DEF Stays2, ForwardRight, Good, Right, Before, At
  <2>3. CASE stage3' = <<LoadPipe(stage2[1].op, TRUE, {})>>
    BY <2>1, <2>3 DEF ForwardRight, Good, LoadPipe
  <2> QED
    BY <2>1, <2>2, <2>3
<1>9. CASE IsProbed
  <2>1. stage3' = stage3 /\ ~AmoIsPerformed /\ stage1 # <<>>
    BY <1>9 DEF IsProbed, AmoIsPerformed, MemoryReads, bus
  <2>2. PICK i, f : i = stage1[1].op /\ f = probe(i)
    OBVIOUS
  <2>3. Good(stage2') => stage2'[1].op = i /\ stage2'[1].fwd = f /\ ~stage2'[1].mispredicted
    BY <1>9, <2>2 DEF IsProbed, Good, LoadPipe
  <2>4. ASSUME Good(stage2'), NEW s \in f PROVE Right(i, [l \in Lane |-> s.payload.data])'
    <3>1. Right(i, [l \in Lane |-> s.payload.data])
      BY <1>9, <2>2, <2>3, <2>4, ProbeRight
    <3> QED
      BY <1>1, <2>1, <2>2, <3>1, RightStep
  <2>5. ForwardRight(stage2)'
    BY <2>3, <2>4 DEF ForwardRight, Good, Right, Before, At
  <2> QED
    BY <1>5, <2>1, <2>5
<1> QED
  BY <1>6, <1>7, <1>8, <1>9, MoveOfStep

(* Who gets a result in a step: a store that leaves the unit, or what the   *)
(* last stage holds.                                                        *)
LEMMA ResultOfStep ==
  ASSUME Base, Next, NEW i \in 1 .. Len(ops'), result'[i] # <<>>
  PROVE  /\ i \in 1 .. Len(ops)
         /\ \/ result[i] # <<>> /\ result'[i] = result[i]
            \/ result[i] = <<>> /\ i > retired /\ StoreMoves /\ in # <<>> /\ i = in[1]
            \/ result[i] = <<>> /\ i > retired /\ IsAnswered /\ stage3 # <<>> /\ i = stage3[1].op
<1>1. /\ \A st \in {stage1, stage2, stage3} : st # <<>> => st[1].op \in 1 .. Len(ops) /\ st[1].op \in Op
      /\ in # <<>> => in[1] \in 1 .. Len(ops) /\ in[1] \in Op
      /\ Len(ops) \in Nat /\ 1 .. Len(ops) \subseteq Op
  BY StageOps DEF Base
<1>2. result \in [Op -> SB!Maybe(Word)] /\ retired \in 0 .. Len(ops) /\ TypeCpu
  BY TypeParts DEF TypeCpu, TypePipe, Base
<1>3. CASE Arrive
  <2>1. result' = result /\ Len(ops') = Len(ops) + 1 /\ Len(ops) < MaxOps
    BY <1>2, <1>3 DEF Arrive, TypeCpu
  <2>2. i # Len(ops) + 1
    BY <1>1, <2>1, BoundAssumption DEF Base, Ordered, Op
  <2> QED
    BY <1>1, <2>1, <2>2
<1>4. CASE ~Arrive
  <2>1. i \in 1 .. Len(ops) /\ i \in Op
    BY <1>1, <1>4, CpuStep DEF Base
  <2>2. result[i] = <<>> => i > retired
    BY <1>2, <2>1 DEF Base, Ordered
  <2>3. CASE result' = result
    BY <2>1, <2>3
  <2>4. ASSUME NEW j \in Op, NEW w, answer(j, w)
        PROVE  \A k \in Op : k # j => result'[k] = result[k]
    BY <1>2, <2>4 DEF answer
  <2>5. CASE StoreMoves
    <3>1. in # <<>> /\ answer(in[1], NoWord) /\ result[in[1]] = <<>>
      BY <2>5 DEF StoreMoves, Base, Ordered
    <3> QED
      BY <1>1, <2>1, <2>2, <2>4, <2>5, <3>1
  <2>6. CASE IsAnswered
    <3>1. PICK w : answer(stage3[1].op, w) /\ stage3 # <<>>
      BY <2>6 DEF IsAnswered
    <3>2. result[stage3[1].op] = <<>>
      <4>1. InPipe(stage3[1].op) /\ stage3[1].op \in stage3[1].op .. Len(ops) /\ stage3[1].op \in Op
        BY <1>1, <3>1 DEF InPipe, Holds
      <4> QED
        BY <4>1 DEF Base, Ordered
    <3> QED
      BY <1>1, <2>1, <2>2, <2>4, <2>6, <3>1, <3>2
  <2>7. Enters \/ IsProbed \/ IsRequested \/ Stays => result' = result
    BY DEF Enters, IsProbed, IsRequested, Stays
  <2> QED
    BY <1>4, <2>3, <2>5, <2>6, <2>7, MoveOfStep
<1> QED
  BY <1>3, <1>4

(* A result is put out once, and no write older than its load is performed later. *)
LEMMA ResultsStep ==
  ASSUME Memory, State, Data, Next
  PROVE  ResultsRight'
<1> SUFFICES ASSUME NEW i \in 1 .. Len(ops'), ops'[i].kind # "STORE", result'[i] # <<>>, counts(i)'
             PROVE  \E w \in Word : result'[i] = <<Taken(i, w)>>' /\ Right(i, w)'
  BY DEF ResultsRight
<1>1. i \in 1 .. Len(ops) /\ ops'[i] = ops[i] /\ counts(i) /\ Len(ops) \in Nat /\ i \in Op
  BY ResultOfStep, CountsStep, CpuStep, StageOps DEF State, Base
<1>2. \A w : Taken(i, w)' = Taken(i, w)
  BY <1>1 DEF Taken
<1>3. CASE result[i] # <<>> /\ result'[i] = result[i]
  <2>1. PICK w \in Word : result[i] = <<Taken(i, w)>> /\ Right(i, w)
    BY <1>1, <1>3 DEF Data, ResultsRight
  <2>2. ASSUME AmoIsPerformed PROVE i <= read_rq[1]
    <3>1. PICK m \in 1 .. Len(ops) : m = stage3[1].op /\ Waits /\ read_rq = <<m>>
      BY <2>2, AmoIs DEF State
    <3>2. read_rq[1] = m /\ InPipe(m) /\ m \in Op
      BY <3>1, StageOps DEF InPipe, Holds, Waits, State, Base
    <3>3. ~(i \in m .. Len(ops))
      BY <1>1, <1>3, <3>2 DEF State, Base, Ordered
    <3> QED
      BY <1>1, <3>1, <3>2, <3>3
  <2>3. Right(i, w)'
    BY <1>1, <2>1, <2>2, RightStep
  <2> QED
    BY <1>2, <1>3, <2>1, <2>3
<1>4. CASE i > retired /\ IsAnswered /\ stage3 # <<>> /\ i = stage3[1].op
  <2>1. ~AmoIsPerformed /\ UNCHANGED cpu
    BY <1>4 DEF IsAnswered, AmoIsPerformed, MemoryReads
  <2>2. current_epoch(i)
    BY <1>1, <1>4, <2>1, CountsStep DEF State, Base
  <2>3. ~stage3[1].mispredicted
    BY <1>1, <1>4, <2>2 DEF State, Base, Marked, MarkedIn, Holds
  <2>4. \A w : answer(i, w) => result'[i] = <<w>>
    BY <1>1, TypeParts DEF answer, State, Base, TypePipe
  <2>5. CASE collect_result_read_bypass
    <3>1. PICK s \in stage3[1].fwd : answer(i, Taken(i, [l \in Lane |-> s.payload.data]))
      BY <1>4, <2>5 DEF collect_result_read_bypass
    <3>2. Right(i, [l \in Lane |-> s.payload.data])
      BY <1>4, <2>3 DEF Data, ForwardRight, Good
    <3>3. s \in SB!MemWr
      BY <1>4, StageCases, TypeParts DEF State, Base, TypePipe
    <3>4. [l \in Lane |-> s.payload.data] \in Word
      BY <3>3, WordIs DEF SB!MemWr, Payload
    <3>5. Right(i, [l \in Lane |-> s.payload.data])'
      BY <1>1, <2>1, <3>2, RightStep
    <3> QED
      BY <1>2, <2>4, <3>1, <3>4, <3>5
  <2>6. CASE collect_result_read
    <3>1. PICK w : w = read_rs[1]
      OBVIOUS
    <3>2. answer(i, Taken(i, w)) /\ read_rs # <<>>
      BY <1>4, <2>6, <3>1 DEF collect_result_read
    <3>3. w \in Word
      BY <3>1, <3>2, MaybeIs, TypeParts DEF State, Base, TypeBus
    <3>4. Right(i, w)
      BY <1>4, <3>1, <3>2 DEF Data, AnswerRight
    <3>5. Right(i, w)'
      BY <1>1, <2>1, <3>4, RightStep
    <3> QED
      BY <1>2, <2>4, <3>2, <3>3, <3>5
  <2>7. ~collect_result_mispredict
    BY <2>3 DEF collect_result_mispredict
  <2> QED
    BY <1>4, <2>5, <2>6, <2>7 DEF IsAnswered
<1>5. CASE StoreMoves /\ i = in[1]
  BY <1>1, <1>5 DEF StoreMoves
<1> QED
  BY <1>3, <1>4, <1>5, ResultOfStep DEF State

(* A store or an AMO that counts has its result when it is performed, not before. *)
LEMMA WritesStep ==
  ASSUME Memory, State, Data, Next
  PROVE  WritesDone'
<1> SUFFICES ASSUME NEW i \in 1 .. Len(ops'), ops'[i].kind # "LOAD", ~ops'[i].misaligned,
                    result'[i] # <<>>, counts(i)'
             PROVE  i \in Performed'
  BY DEF WritesDone
<1>1. i \in 1 .. Len(ops) /\ ops'[i] = ops[i] /\ counts(i) /\ i \in Op
  BY ResultOfStep, CountsStep, CpuStep, StageOps DEF State, Base
<1>2. Performed \subseteq Performed'
  BY PerformedStep DEF State
<1>3. CASE result[i] # <<>>
  BY <1>1, <1>2, <1>3 DEF Data, WritesDone
<1>4. CASE i > retired /\ StoreMoves /\ in # <<>> /\ i = in[1]
  <2>1. current_epoch(i)
    BY <1>1, <1>4, CountsStep DEF State, Base, StoreMoves
  <2>2. calculate_store /\ ~ops[in[1]].misaligned
    BY <1>1, <1>4, <2>1 DEF StoreMoves
  <2>3. StoreEnters
    <3>1. ~StoreAnswered
      BY <1>4 DEF StoreMoves, StoreAnswered, pipe
    <3> QED
      BY <2>2, <3>1, BufferOfStep DEF State, Base, StoreLeaves, StoresStay
  <2>4. Performed' = Performed \cup {in[1]}
    BY <2>3, PerformedStep DEF State
  <2> QED
    BY <1>4, <2>4
<1>5. CASE i > retired /\ IsAnswered /\ stage3 # <<>> /\ i = stage3[1].op
  <2>1. current_epoch(i)
    BY <1>1, <1>5, CountsStep DEF State, Base, IsAnswered
  <2>2. ~stage3[1].mispredicted
    BY <1>1, <1>5, <2>1 DEF State, Base, Marked, MarkedIn, Holds
  <2>3. ops[i].kind = "AMO"
    BY <1>1, <1>5, OpTyped DEF State, Base, Ordered, InPipe, Holds
  <2>4. collect_result_read
    BY <1>5, <2>2, <2>3 DEF IsAnswered, collect_result_mispredict, collect_result_read_bypass,
       State, Base, Requested, ForwardsLoad, Good
  <2>5. read_rs # <<>> /\ i \in effects
    BY <1>5, <2>2, <2>3, <2>4 DEF collect_result_read, State, Base, Requested, Good
  <2>6. read_rq = <<>>
    BY <2>5, OneReadIs DEF State, Base
  <2>7. i \in Performed
    BY <2>3, <2>5, <2>6 DEF Performed
  <2> QED
    BY <1>2, <2>7
<1> QED
  BY <1>3, <1>4, <1>5, ResultOfStep DEF State

-----------------------------------------------------------------------------
(* The inductive invariant, and what follows from it.                       *)
IInv == State /\ Data /\ ReleaseIsLast

(* The invariant holds when nothing has arrived.                            *)
LEMMA InvariantInit ==
  ASSUME Memory, Init
  PROVE  IInv
<1>1. /\ Len(ops) = 0 /\ in = <<>> /\ stage1 = <<>> /\ stage2 = <<>> /\ stage3 = <<>>
      /\ effects = {} /\ read_rq = <<>> /\ read_rs = <<>> /\ retired = 0 /\ committed = {} /\ ~written
      /\ result = [i \in Op |-> <<>>] /\ mem = [a \in Addr |-> NoWord] /\ pending_buf = <<>>
  BY DEF Init, SB!Init
<1>2. SB!TypeOK
  <2>1. SB!MemWr # {} /\ SB!Init
    <3>1. \E a \in Addr : TRUE
      BY BufferAssumption DEF SB!StoreAssumption
    <3>2. \E p \in Payload : TRUE
      BY BufferAssumption DEF SB!StoreAssumption
    <3>3. PICK a \in Addr, p \in Payload : TRUE
      BY <3>1, <3>2
    <3>4. [mem_addr |-> a, payload |-> p] \in SB!MemWr
      BY DEF SB!MemWr
    <3> QED
      BY <3>4 DEF Init
  <2>2. 0 \in SB!Idx
    BY BufferParameters DEF SB!Idx, SBP!DepthTwo
  <2> QED
    BY <2>1, <2>2 DEF SB!Init, SB!TypeOK, SB!Maybe
<1>3. U = <<>>
  BY <1>1, <1>2, EmptyHoldsNothing DEF SB!empty, SB!internal_empty, Init, SB!Init
<1>4. TypeOK
  <2>1. TypeCpu
    <3>1. /\ ops = <<>> /\ op_epoch = <<>> /\ epoch = 0 /\ retired = 0 /\ at_head = FALSE
          /\ committed = {} /\ redirects = 0
      BY DEF Init
    <3>2. ops \in Seq(OpSet) /\ op_epoch \in Seq(Nat) /\ Len(ops) = 0 /\ Len(op_epoch) = 0
      BY <3>1
    <3>3. 0 <= MaxOps /\ 0 \in 0 .. MaxRedirects
      BY BoundAssumption
    <3>4. Len(ops) <= MaxOps /\ retired \in 0 .. Len(ops) /\ \A i \in 1 .. Len(ops) : op_epoch[i] <= epoch
      BY <3>1, <3>2, <3>3
    <3>5. committed \subseteq 1 .. retired /\ epoch \in Nat /\ at_head \in BOOLEAN
      BY <3>1
    <3> QED
      BY <3>1, <3>2, <3>3, <3>4, <3>5 DEF TypeCpu
  <2>2. TypePipe
    <3>1. <<>> \in Stage
      BY DEF Stage
    <3>2. result \in [Op -> SB!Maybe(Word)]
      BY <1>1, MaybeIs
    <3>3. aq_r = FALSE
      BY DEF Init
    <3> QED
      BY <1>1, <3>1, <3>2, <3>3, MaybeIs DEF TypePipe
  <2>3. NoWord \in Word
    BY BoundAssumption DEF NoWord, Word
  <2>4. TypeBus
    <3>1. mem \in [Addr -> Word]
      BY <1>1, <2>3
    <3>2. written = FALSE
      BY DEF Init
    <3> QED
      BY <1>1, <3>1, <3>2, MaybeIs DEF TypeBus
  <2> QED
    BY <1>2, <2>1, <2>2, <2>4, TypeParts
<1>5. Base
  <2>1. Ordered
    BY <1>1 DEF Ordered, InPipe, Holds
  <2>2. Marked /\ EffectsAtHead /\ Requested
    BY <1>1 DEF Marked, MarkedIn, EffectsAtHead, Requested, ForwardsLoad, Good, Holds
  <2>3. OneReadOnItsWay
    BY <1>1, <1>4, OneReadIs DEF Waits
  <2> QED
    BY <1>4, <2>1, <2>2, <2>3 DEF Base
<1>6. Performed = {} /\ Len(U) = 0
  BY <1>1, <1>3 DEF Performed
<1>7. Buffered /\ Alone
  BY <1>1, <1>6 DEF Buffered, Alone, AloneIn, Good
<1>8. MemHas
  BY <1>1, <1>6 DEF MemHas, InMem, IsLast, NoWord
<1>9. Data
  BY <1>1 DEF Data, ResultsRight, AnswerRight, ForwardRight, WritesDone, Good
<1>10. ReleaseIsLast
  BY <1>1 DEF ReleaseIsLast
<1> QED
  BY <1>5, <1>7, <1>8, <1>9, <1>10 DEF IInv, State

(* Every step keeps the invariant.                                          *)
LEMMA InvariantStep ==
  ASSUME Memory, IInv, [Next]_vars
  PROVE  IInv'
<1>1. CASE Next
  <2>1. TypeOK'
    BY <1>1, TypeStep DEF IInv, State, Base
  <2>2. Ordered' /\ Marked' /\ EffectsAtHead' /\ Requested' /\ OneReadOnItsWay'
    BY <1>1, <2>1, OrderedStep, MarkedStep, EffectsAtHeadStep, RequestedStep, OneReadStep
       DEF IInv, State, Base
  <2>3. Buffered' /\ Alone' /\ MemHas'
    BY <1>1, BufferedStep, AloneStep, MemHasStep DEF IInv, State
  <2>4. ResultsRight' /\ AnswerRight' /\ ForwardRight(stage2)' /\ ForwardRight(stage3)' /\ WritesDone'
    BY <1>1, ResultsStep, AnswerStep, ForwardStep, WritesStep DEF IInv
  <2>5. ReleaseIsLast'
    BY <1>1, ReleaseStep DEF IInv, State, Base
  <2> QED
    BY <2>1, <2>2, <2>3, <2>4, <2>5 DEF IInv, State, Base, Data
<1>2. CASE UNCHANGED vars
  <2>1. UNCHANGED <<ops, op_epoch, epoch, retired, at_head, committed, redirects>>
    BY <1>2 DEF vars, cpu
  <2>2. UNCHANGED <<result, in, stage1, stage2, stage3, aq_r, mem, written, read_rq, read_rs, effects>>
    BY <1>2 DEF vars, pipe, bus
  <2>3. UNCHANGED <<storage, head_r, tail_r, full_r, pending_buf, accepted>>
    BY <1>2 DEF vars, sb
  <2>4. SB!TypeOK' /\ U' = U
    BY <2>3, BufferUnchanged DEF IInv, State, Base, sb, TypeOK
  <2>5. TypeOK'
    BY <2>1, <2>2, <2>4 DEF IInv, State, Base, TypeOK
  <2>6. Ordered' /\ Marked' /\ EffectsAtHead' /\ Requested' /\ OneReadOnItsWay'
    BY <2>1, <2>2 DEF IInv, State, Base, Ordered, Marked, EffectsAtHead, Requested, OneReadOnItsWay,
       InPipe, Holds, MarkedIn, current_epoch, rob_head, ForwardsLoad, Good
  <2>7. Performed' = Performed
    BY <2>1, <2>2 DEF Performed
  <2>8. Buffered' /\ Alone'
    BY <2>1, <2>2, <2>3, <2>4, <2>7 DEF IInv, State, Buffered, Alone, AloneIn, NoStoreAt, Who,
       InBuffer, StoreOf, Good
  <2>9. MemHas'
    <3>1. \A a, l : InMem(a, l)' = InMem(a, l)
      BY <2>1, <2>2, <2>4, <2>7 DEF InMem, At, Unwritten, ToWrite, Who
    <3>2. MemHas /\ mem' = mem
      BY <2>2 DEF IInv, State
    <3> QED
      BY <3>1, <3>2 DEF MemHas
  <2>12. (\A i, l : Before(i, l)' = Before(i, l)) /\ \A i : counts(i)' <=> counts(i)
    BY <2>1, <2>7 DEF Before, At, counts, current_epoch
  <2>13. (\A i, w : Right(i, w)' <=> Right(i, w)) /\ \A i, w : Taken(i, w)' = Taken(i, w)
    BY <2>1, <2>12 DEF Right, Taken
  <2>14. ResultsRight' /\ WritesDone'
    BY <2>1, <2>2, <2>7, <2>12, <2>13 DEF IInv, Data, ResultsRight, WritesDone
  <2>15. AnswerRight'
    BY <2>1, <2>2, <2>7 DEF IInv, Data, AnswerRight, Right, Before, At
  <2>16. ForwardRight(stage2)' /\ ForwardRight(stage3)'
    <3>3. ForwardRight(stage2)'
      <4> SUFFICES ASSUME Good(stage2'), NEW s \in stage2'[1].fwd, NEW i, NEW w,
                          i = stage2'[1].op, w = [l \in Lane |-> s.payload.data]
                   PROVE  Right(i, w)'
        BY DEF ForwardRight, Good, Right, Before, At
      <4>1. Right(i, w)
        BY <2>2 DEF IInv, Data, ForwardRight, Good
      <4> QED
        BY <2>13, <4>1
    <3>4. ForwardRight(stage3)'
      <4> SUFFICES ASSUME Good(stage3'), NEW s \in stage3'[1].fwd, NEW i, NEW w,
                          i = stage3'[1].op, w = [l \in Lane |-> s.payload.data]
                   PROVE  Right(i, w)'
        BY DEF ForwardRight, Good, Right, Before, At
      <4>1. Right(i, w)
        BY <2>2 DEF IInv, Data, ForwardRight, Good
      <4> QED
        BY <2>13, <4>1
    <3> QED
      BY <3>3, <3>4
  <2>10. Data'
    BY <2>14, <2>15, <2>16 DEF Data
  <2>11. ReleaseIsLast'
    BY <2>1, <2>2, <2>4 DEF IInv, ReleaseIsLast, U
  <2> QED
    BY <2>5, <2>6, <2>8, <2>9, <2>10, <2>11 DEF IInv, State, Base
<1> QED
  BY <1>1, <1>2

-----------------------------------------------------------------------------
(* The inductive invariant of the unit and of the memory behind it.         *)
LEMMA InvariantHolds ==
  ASSUME Memory
  PROVE  Spec => []IInv
<1>1. Init => IInv
  BY InvariantInit
<1>2. IInv /\ [Next]_vars => IInv'
  BY InvariantStep
<1> QED
  BY <1>1, <1>2, PTL DEF Spec

(* The unit, its store buffer and memory hold instructions that have arrived and *)
(* words they have written.                                                 *)
THEOREM TypeCorrect ==
  ASSUME Memory
  PROVE  Spec => []TypeOK
<1>1. IInv => TypeOK
  BY DEF IInv, State, Base
<1> QED
  BY <1>1, InvariantHolds, PTL

(* collect_result_read takes memory's answer for that of the instruction in the *)
(* last stage: there is an answer on the way exactly while it waits for one, and *)
(* it is its own, wrong-path loads and redirects notwithstanding.           *)
THEOREM ReadsMeetTheirLoads ==
  ASSUME Memory
  PROVE  Spec => []OneReadOnItsWay
<1>1. IInv => OneReadOnItsWay
  BY DEF IInv, State, Base
<1> QED
  BY <1>1, InvariantHolds, PTL

(* A releasing AMO is on its way to memory only when no older store is left in *)
(* the buffer or on the bus: the rl bit that request_axi_if_needed looks at. *)
THEOREM ReleasesWait ==
  ASSUME Memory
  PROVE  Spec => []ReleaseIsLast
<1>1. IInv => ReleaseIsLast
  BY DEF IInv
<1> QED
  BY <1>1, InvariantHolds, PTL

-----------------------------------------------------------------------------
(* The code looks at the alignment of a store before it is sent, at that of a load *)
(* or an AMO when its answer is there.  Instructions that then have had an effect *)
(* have to be aligned for what follows; that is a limit of the code.        *)
EffectsAligned ==
  \A op \in OpSet : op.misaligned =>
    op.kind = "STORE" \/ (op.kind = "LOAD" /\ is_speculative_region(op.addr))

Aligned ==
  /\ \A i \in committed : ~ops[i].misaligned
  /\ \A i \in effects : ~ops[i].misaligned

(* What commits, or has an effect, is aligned.                              *)
LEMMA AlignedStep ==
  ASSUME EffectsAligned, IInv, Aligned, Next
  PROVE  Aligned'
<1>1. /\ committed \subseteq 1 .. Len(ops) /\ effects \subseteq 1 .. Len(ops)
      /\ \A i \in 1 .. Len(ops) : ops'[i] = ops[i]
      /\ TypeOK /\ Ordered
  BY CpuStep, TypeParts DEF IInv, State, Base, TypeCpu, TypeBus
<1>2. \A i \in committed' : ~ops'[i].misaligned
  <2>1. \/ committed' = committed
        \/ /\ committed' = committed \cup {retired + 1} /\ ~ops[retired + 1].misaligned
           /\ retired + 1 \in 1 .. Len(ops)
    <3>1. CASE Retire
      <4>1. retired + 1 \in 1 .. Len(ops)
        BY <1>1, <3>1, StageOps, TypeParts DEF Retire, TypeCpu
      <4>2. committed' = IF current_epoch(retired + 1) /\ ~ops[retired + 1].misaligned
                         THEN committed \cup {retired + 1} ELSE committed
        BY <3>1 DEF Retire
      <4> QED
        BY <4>1, <4>2
    <3>2. CASE cpu' = cpu \/ Arrive \/ HeadReached \/ Redirect
      BY <3>2 DEF cpu, Arrive, HeadReached, Redirect
    <3> QED
      BY <1>1, <3>1, <3>2, CpuStep
  <2> QED
    BY <1>1, <2>1 DEF Aligned
<1>3. \A i \in effects' : ~ops'[i].misaligned
  <2>1. CASE effects' = effects
    BY <1>1, <2>1 DEF Aligned
  <2>2. CASE /\ effects' = effects \cup {in[1]} /\ ~ops[in[1]].misaligned /\ in # <<>>
    BY <1>1, <2>2, StageOps DEF Aligned
  <2>3. CASE /\ effects' = effects \cup {stage2[1].op} /\ stage2 # <<>>
             /\ ops[stage2[1].op].kind = "AMO" \/ ops[stage2[1].op].addr \notin DmemAddr
    <3>1. PICK i : i = stage2[1].op
      OBVIOUS
    <3>2. i \in 1 .. Len(ops) /\ i \in Op /\ InPipe(i)
      BY <1>1, <2>3, <3>1, StageOps DEF InPipe, Holds
    <3>3. ops[i].kind # "STORE" /\ ops[i] \in OpSet
      BY <1>1, <3>2, OpTyped DEF Ordered
    <3>4. ~ops[i].misaligned
      BY <2>3, <3>1, <3>3 DEF EffectsAligned, is_speculative_region
    <3> QED
      BY <1>1, <2>3, <3>1, <3>2, <3>4 DEF Aligned
  <2> QED
    BY <1>1, <2>1, <2>2, <2>3, EffectsOfStep
<1> QED
  BY <1>2, <1>3 DEF Aligned

(* No redirect comes between an effect and the commit of its instruction: commit *)
(* has nothing older to redirect at, and an interrupt is excluded.          *)
LEMMA EffectsCommitStep ==
  ASSUME ~Interrupts, IInv, Aligned, EffectsCommit, Next
  PROVE  EffectsCommit'
<1>1. /\ committed \subseteq 1 .. retired /\ effects \subseteq 1 .. Len(ops)
      /\ retired \in Nat /\ Len(ops) \in Nat
      /\ \A i \in 1 .. Len(ops) : op_epoch'[i] = op_epoch[i]
      /\ TypeOK /\ Ordered /\ EffectsAtHead
  BY CpuStep, TypeParts DEF IInv, State, Base, TypeCpu, TypeBus
<1>2. CASE cpu' = cpu
  <2>1. UNCHANGED <<op_epoch, epoch, retired, committed>>
    BY <1>2 DEF cpu
  <2>2. \A i \in effects' : i \in effects \/ (rob_head(i) /\ current_epoch(i))
    BY <1>1, EffectsOfStep
  <2>3. ASSUME NEW i \in effects'
        PROVE  i \in committed' \/ (i > retired' /\ current_epoch(i)')
    <3>1. CASE i \in effects
      BY <2>1, <3>1 DEF EffectsCommit, current_epoch
    <3>2. CASE rob_head(i) /\ current_epoch(i)
      <4>1. i > retired
        BY <1>1, <3>2 DEF rob_head
      <4> QED
        BY <2>1, <3>2, <4>1 DEF current_epoch
    <3> QED
      BY <2>2, <3>1, <3>2
  <2> QED
    BY <2>3 DEF EffectsCommit
<1>3. CASE Arrive \/ HeadReached
  <2>1. UNCHANGED <<epoch, retired, committed, effects>>
    BY <1>3 DEF Arrive, HeadReached
  <2> QED
    BY <1>1, <2>1 DEF EffectsCommit, current_epoch
<1>4. CASE Retire
  <2>1. effects' = effects /\ committed \subseteq committed'
        /\ (current_epoch(retired + 1) /\ ~ops[retired + 1].misaligned => retired + 1 \in committed')
    BY <1>4 DEF Retire
  <2>2. ASSUME NEW i \in effects, i \notin committed
        PROVE  i \in committed'
    <3>1. i > retired /\ current_epoch(i)
      BY <2>2 DEF EffectsCommit
    <3>2. i = retired + 1
      BY <1>1, <2>2, <3>1 DEF EffectsAtHead, rob_head
    <3> QED
      BY <2>1, <2>2, <3>1, <3>2 DEF Aligned
  <2> QED
    BY <2>1, <2>2 DEF EffectsCommit
<1>5. CASE Redirect
  <2>1. effects' = effects /\ committed' = committed /\ ~at_head
    BY <1>5 DEF Redirect
  <2>2. \A i \in effects : i <= retired
    BY <1>1, <2>1 DEF EffectsAtHead, rob_head
  <2>3. \A i \in effects : i \in committed
    BY <1>1, <2>2 DEF EffectsCommit
  <2> QED
    BY <2>1, <2>3 DEF EffectsCommit
<1> QED
  BY <1>1, <1>2, <1>3, <1>4, <1>5, CpuStep

Commits == IInv /\ Aligned /\ EffectsCommit

(* The invariant with commit in it.                                         *)
LEMMA CommitsHolds ==
  ASSUME Memory, ~Interrupts, EffectsAligned
  PROVE  Spec => []Commits
<1>1. Init => Commits
  BY InvariantInit DEF Init, Commits, Aligned, EffectsCommit
<1>2. Commits /\ [Next]_vars => Commits'
  <2> SUFFICES ASSUME Commits, [Next]_vars
               PROVE  Commits'
    OBVIOUS
  <2>1. IInv'
    BY InvariantStep DEF Commits
  <2>2. CASE Next
    BY <2>1, <2>2, AlignedStep, EffectsCommitStep DEF Commits
  <2>3. CASE UNCHANGED vars
    <3>1. UNCHANGED <<ops, op_epoch, epoch, retired, committed, effects>>
      BY <2>3 DEF vars, cpu
    <3> QED
      BY <2>1, <3>1 DEF Commits, Aligned, EffectsCommit, current_epoch
  <2> QED
    BY <2>2, <2>3
<1> QED
  BY <1>1, <1>2, PTL DEF Spec

(* "Real write occurs in storebuffer after successful commit": what periphery and *)
(* other processors can see is the doing of instructions that commit, unless an *)
(* interrupt comes between (which it may).                                  *)
THEOREM EffectsAreCommitted ==
  ASSUME Memory, ~Interrupts, EffectsAligned
  PROVE  Spec => []EffectsCommit
<1>1. Commits => EffectsCommit
  BY DEF Commits
<1> QED
  BY <1>1, CommitsHolds, PTL

(* For a committed load, the performed writes before it are the committed ones. *)
LEMMA WritersIs ==
  ASSUME Commits, NEW i \in committed, NEW l \in ops[i].mask
  PROVE  Before(i, l) = Writers(i, ops[i].addr, l)
<1>1. /\ committed \subseteq 1 .. retired /\ retired \in 0 .. Len(ops) /\ Len(ops) \in Nat
      /\ Performed \subseteq effects /\ effects \subseteq 1 .. Len(ops)
      /\ \A j \in Performed : ops[j].kind # "LOAD"
      /\ \A j \in 1 .. retired : result[j] # <<>>
  BY PerformedIs, StageOps, TypeParts DEF Commits, IInv, State, Base, TypeCpu, TypeBus, Ordered
<1>2. ASSUME NEW j \in Performed, j < i
      PROVE  j \in committed
  BY <1>1, <1>2 DEF Commits, EffectsCommit
<1>3. ASSUME NEW j \in committed, ops[j].kind # "LOAD"
      PROVE  j \in Performed
  <2>1. j \in 1 .. Len(ops) /\ result[j] # <<>> /\ counts(j)
    BY <1>1 DEF counts
  <2>2. ~ops[j].misaligned
    BY DEF Commits, Aligned
  <2>3. WritesDone
    BY DEF Commits, IInv, Data
  <2> QED
    BY <1>3, <2>1, <2>2, <2>3 DEF WritesDone
<1> QED
  BY <1>1, <1>2, <1>3 DEF Before, Writers, At

(* A committed load or AMO has returned, lane by lane, what the instructions *)
(* committed before it wrote: for every program, although loads run ahead of *)
(* commit, on wrong paths, and are answered by the buffer, memory or both.  *)
THEOREM LoadsInProgramOrder ==
  ASSUME Memory, ~Interrupts, EffectsAligned
  PROVE  Spec => []LoadsSeeProgramOrder
<1>1. ASSUME Commits, NEW i \in committed, ops[i].kind # "STORE"
      PROVE  result[i] = <<Taken(i, [l \in Lane |-> LastWriter(i, ops[i].addr, l)])>>
  <2>1. /\ i \in 1 .. Len(ops) /\ result[i] # <<>> /\ counts(i)
        /\ committed \subseteq Nat
    BY <1>1, StageOps, TypeParts DEF Commits, IInv, State, Base, TypeCpu, Ordered, counts
  <2>2. PICK w \in Word : result[i] = <<Taken(i, w)>> /\ Right(i, w)
    BY <1>1, <2>1 DEF Commits, IInv, Data, ResultsRight
  <2>3. ASSUME NEW l \in ops[i].mask
        PROVE  w[l] = LastWriter(i, ops[i].addr, l)
    <3> DEFINE S == Writers(i, ops[i].addr, l)
    <3>1. IsLast(w[l], S)
      BY <1>1, <2>2, <2>3, WritersIs DEF Right
    <3>2. S \subseteq Nat
      BY <2>1 DEF Writers
    <3>3. LastWriter(i, ops[i].addr, l) = IF S = {} THEN 0 ELSE CHOOSE j \in S : \A k \in S : k <= j
      BY DEF LastWriter
    <3> HIDE DEF S
    <3>4. ASSUME NEW x \in S, \A k \in S : k <= x, NEW y \in S, \A k \in S : k <= y
          PROVE  x = y
      BY <3>2, <3>4
    <3> QED
      BY <3>1, <3>3, <3>4 DEF IsLast
  <2>4. Taken(i, w) = Taken(i, [l \in Lane |-> LastWriter(i, ops[i].addr, l)])
    BY <2>3 DEF Taken
  <2> QED
    BY <2>2, <2>4
<1>2. Commits => LoadsSeeProgramOrder
  BY <1>1 DEF LoadsSeeProgramOrder
<1> QED
  BY <1>2, CommitsHolds, PTL
=============================================================================
