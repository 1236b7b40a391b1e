------------------------- MODULE StoreBufferProofs --------------------------
(***************************************************************************)
(* Proofs about the store buffer for every depth of at least two and any   *)
(* set of addresses and payloads.  A ring of depth one cannot tell full    *)
(* from empty: its pointers never differ, so the flag is never cleared.    *)
(***************************************************************************)
EXTENDS StoreBuffer, SequenceTheorems, WellFoundedInduction, TLAPS

DepthTwo == STORE_BUF_DEPTH \in Nat /\ STORE_BUF_DEPTH > 1

(* One clock cycle. *)
CycleStep(put, get, response) ==
  /\ TypeOK
  /\ put \in Maybe(MemWr)
  /\ get \in BOOLEAN
  /\ response \in BOOLEAN
  /\ Clock(put, get, response)

-----------------------------------------------------------------------------
LEMMA WrapInRing ==
  ASSUME DepthTwo, NEW a \in Idx, NEW b \in 0 .. STORE_BUF_DEPTH
  PROVE  truncate_idx(a, b) \in Idx
BY DEF DepthTwo, Idx, truncate_idx

LEMMA AmountRange ==
  ASSUME DepthTwo, TypeOK
  PROVE  amount \in 0 .. STORE_BUF_DEPTH
BY DEF DepthTwo, TypeOK, Idx, amount

LEMMA MaybeCases ==
  ASSUME NEW T, NEW m \in Maybe(T)
  PROVE  /\ m \in Seq(T)
         /\ \/ m = <<>> /\ Len(m) = 0
            \/ m # <<>> /\ Len(m) = 1 /\ m[1] \in T /\ m = <<m[1]>>
<1>1. CASE m = <<>>  BY <1>1
<1>2. CASE \E x \in T : m = <<x>>
  <2>1. PICK x \in T : m = <<x>>  BY <1>2
  <2>2. QED  BY <2>1
<1>3. QED  BY <1>1, <1>2 DEF Maybe

LEMMA PutLength ==
  ASSUME NEW T, NEW m \in Maybe(T)
  PROVE  Len(m) \in {0, 1} /\ (m = <<>> <=> Len(m) = 0)
BY MaybeCases

LEMMA TypeStep ==
  ASSUME DepthTwo, NEW put, NEW get, NEW response, CycleStep(put, get, response)
  PROVE  TypeOK'
<1> USE DEF CycleStep, Clock
<1>1. put = <<>> \/ (put # <<>> /\ put[1] \in MemWr)  BY MaybeCases
<1>2. head_r \in Idx /\ tail_r \in Idx  BY DEF TypeOK
<1>3. truncate_idx(head_r, 1) \in Idx /\ truncate_idx(tail_r, 1) \in Idx
  BY <1>2, WrapInRing DEF DepthTwo
<1>4. storage' \in [Idx -> MemWr]  BY <1>1, <1>2 DEF TypeOK, enq
<1>5. head_r' \in Idx /\ tail_r' \in Idx  BY <1>2, <1>3 DEF enq, deq
<1>6. full_r' \in BOOLEAN  BY DEF TypeOK, enq, flush_full
<1>7. pending_buf' \in Maybe(MemWr)  BY <1>2 DEF TypeOK, deq, Maybe
<1>8. accepted' \in Maybe(MemWr)  BY DEF enq
<1>9. QED  BY <1>4, <1>5, <1>6, <1>7, <1>8 DEF TypeOK

(* The flag is exact when it is read: what leaves was there, what enters has *)
(* room, and the amount follows.                                             *)
LEMMA AmountStep ==
  ASSUME DepthTwo, NEW put, NEW get, NEW response, CycleStep(put, get, response)
  PROVE  LET g == IF get THEN 1 ELSE 0
         IN  /\ g <= amount
             /\ amount + Len(put) <= STORE_BUF_DEPTH
             /\ amount' = amount - g + Len(put)
             /\ head_r = truncate_idx(tail_r, amount)
<1> DEFINE D == STORE_BUF_DEPTH
           h == head_r
           t == tail_r
           g == IF get THEN 1 ELSE 0
           u == Len(put)
<1>1. /\ D \in Nat /\ D > 1 /\ h \in 0 .. D - 1 /\ t \in 0 .. D - 1
      /\ full_r \in BOOLEAN /\ get \in BOOLEAN
  BY DEF DepthTwo, CycleStep, TypeOK, Idx
<1>2. /\ head_r' = IF put = <<>> THEN h ELSE truncate_idx(h, 1)
      /\ tail_r' = IF get THEN truncate_idx(t, 1) ELSE t
      /\ full_r' <=> (full_r /\ h = t) \/ (put # <<>> /\ t = truncate_idx(h, 1))
      /\ put # <<>> => ~(full_r /\ h = t)
      /\ get => ~(h = t /\ ~full_r)
  BY DEF CycleStep, Clock, enq, deq, flush_full, internal_empty
<1>3. u \in {0, 1} /\ (put = <<>> <=> u = 0)
  BY PutLength DEF CycleStep
<1>4. amount' = IF head_r' = tail_r' THEN IF full_r' THEN D ELSE 0
                ELSE IF head_r' > tail_r' THEN head_r' - tail_r'
                     ELSE head_r' + D - tail_r'
  BY DEF amount
<1>5. amount = IF h = t THEN IF full_r THEN D ELSE 0
               ELSE IF h > t THEN h - t ELSE h + D - t
  BY DEF amount
<1>6. head_r = truncate_idx(tail_r, amount)
  BY <1>1, <1>5 DEF truncate_idx
<1>7. (get => 1 <= amount) /\ (put # <<>> => amount + 1 <= D) /\ amount \in 0 .. D
  BY <1>1, <1>2, <1>5
<1> HIDE DEF u
<1>8. CASE put = <<>>
  <2>1. amount' = amount - g
    BY <1>1, <1>2, <1>4, <1>5, <1>8 DEF truncate_idx
  <2>2. QED  BY <1>1, <1>3, <1>6, <1>7, <1>8, <2>1 DEF u
<1>9. CASE put # <<>>
  <2>1. amount' = amount - g + 1
    BY <1>1, <1>2, <1>4, <1>5, <1>9 DEF truncate_idx
  <2>2. u = 1  BY <1>3, <1>9
  <2>3. amount + u <= D /\ amount' = amount - g + u /\ g <= amount
    BY <1>1, <1>7, <1>9, <2>1, <2>2
  <2>4. QED  BY <1>6, <2>3 DEF u
<1>10. QED  BY <1>8, <1>9

(* The ring seen from its tail: the stores that stay keep their order, the   *)
(* new one is the last.                                                      *)
LEMMA CellsStep ==
  ASSUME DepthTwo, NEW put, NEW get, NEW response, CycleStep(put, get, response),
         NEW k \in 1 .. amount'
  PROVE  LET g == IF get THEN 1 ELSE 0
         IN  storage'[truncate_idx(tail_r', k - 1)]
               = IF k <= amount - g THEN storage[truncate_idx(tail_r, k + g - 1)] ELSE put[1]
<1> DEFINE D == STORE_BUF_DEPTH
           g == IF get THEN 1 ELSE 0
           h == head_r
           t == tail_r
           i == truncate_idx(tail_r', k - 1)
           u == Len(put)
<1>1. /\ D \in Nat /\ D > 1 /\ h \in 0 .. D - 1 /\ t \in 0 .. D - 1 /\ g \in {0, 1}
      /\ amount \in 0 .. D /\ amount' \in 0 .. D
  <2>1. amount \in 0 .. D  BY AmountRange DEF CycleStep
  <2>2. u \in {0, 1}
    BY PutLength DEF CycleStep
  <2>3. amount' \in 0 .. D
    BY <2>1, <2>2, AmountStep DEF DepthTwo
  <2>4. QED  BY <2>1, <2>3 DEF DepthTwo, CycleStep, TypeOK, Idx
<1>2. /\ g <= amount /\ amount + u <= D /\ amount' = amount - g + u
      /\ h = truncate_idx(t, amount)
  BY AmountStep
<1>3. tail_r' = truncate_idx(t, g)
  BY <1>1 DEF CycleStep, Clock, deq, truncate_idx
<1>4. u \in {0, 1} /\ (put = <<>> <=> u = 0)
  BY PutLength DEF CycleStep
<1> HIDE DEF u
<1>5. storage' = IF put = <<>> THEN storage ELSE [storage EXCEPT ![h] = put[1]]
  BY DEF CycleStep, Clock, enq
<1>6. i = truncate_idx(t, k + g - 1) /\ i \in 0 .. D - 1 /\ k \in 1 .. D
  <2> HIDE DEF g
  <2>1. k + g - 1 <= D  BY <1>1, <1>2, <1>4
  <2>2. QED  BY <1>1, <1>3, <2>1 DEF truncate_idx
<1>7. k <= amount - g /\ put # <<>> => i # h
  <2> HIDE DEF g, i
  <2>1. QED  BY <1>1, <1>2, <1>4, <1>6 DEF truncate_idx
<1>8. ~(k <= amount - g) => i = h /\ put # <<>>
  <2> SUFFICES ASSUME ~(k <= amount - g)  PROVE i = h /\ put # <<>>
    OBVIOUS
  <2> HIDE DEF g, i
  <2>1. k \in 1 .. amount'  OBVIOUS
  <2>2. put # <<>> /\ k = amount - g + 1  BY <1>1, <1>2, <1>4, <1>6, <2>1
  <2>3. QED  BY <1>2, <1>6, <2>2, <1>1
<1>9. storage \in [Idx -> MemWr] /\ i \in Idx  BY <1>6 DEF CycleStep, TypeOK, Idx
<1> HIDE DEF g, i
<1>10. storage'[i] = IF k <= amount - g THEN storage[truncate_idx(t, k + g - 1)] ELSE put[1]
  BY <1>5, <1>6, <1>7, <1>8, <1>9
<1>11. QED  BY <1>10 DEF g, i

(* The waiting stores are a sequence, and a cycle takes its first element    *)
(* away, appends the accepted store, or both.                                *)
LEMMA WaitingIsSeq ==
  ASSUME DepthTwo, TypeOK
  PROVE  Waiting \in Seq(MemWr) /\ Len(Waiting) = amount
<1>1. amount \in 0 .. STORE_BUF_DEPTH  BY AmountRange
<1>2. \A k \in 1 .. amount : storage[truncate_idx(tail_r, k - 1)] \in MemWr
  <2> TAKE k \in 1 .. amount
  <2>1. k - 1 \in 0 .. STORE_BUF_DEPTH  BY <1>1 DEF DepthTwo
  <2>2. QED  BY <2>1, WrapInRing DEF TypeOK
<1> HIDE DEF amount
<1>3. QED  BY <1>1, <1>2 DEF Waiting, DepthTwo

LEMMA WaitingStep ==
  ASSUME DepthTwo, NEW put, NEW get, NEW response, CycleStep(put, get, response)
  PROVE  /\ Waiting' \in Seq(MemWr) /\ Len(Waiting') <= STORE_BUF_DEPTH
         /\ Waiting' = (IF get THEN Tail(Waiting) ELSE Waiting) \o put
         /\ get => Waiting # <<>> /\ pending_buf' = <<Head(Waiting)>>
<1> DEFINE g == IF get THEN 1 ELSE 0
           rest == IF get THEN Tail(Waiting) ELSE Waiting
           u == Len(put)
           W2 == [k \in 1 .. amount' |-> storage'[truncate_idx(tail_r', k - 1)]]
<1>1. Waiting \in Seq(MemWr) /\ Len(Waiting) = amount  BY WaitingIsSeq DEF CycleStep
<1>2. /\ g <= amount /\ amount + u <= STORE_BUF_DEPTH
      /\ amount' = amount - g + u
      /\ amount \in 0 .. STORE_BUF_DEPTH /\ g \in {0, 1} /\ get \in BOOLEAN
  BY AmountStep, AmountRange DEF CycleStep
<1>3. put \in Seq(MemWr) /\ u \in {0, 1} /\ (put = <<>> <=> u = 0)
  BY MaybeCases, PutLength DEF CycleStep
<1>4. get => Waiting # <<>>
  BY <1>1, <1>2
<1>5. /\ rest \in Seq(MemWr) /\ Len(rest) = amount - g
      /\ \A k \in 1 .. amount - g : rest[k] = Waiting[k + g]
  <2>1. CASE get
    <3>1. /\ Tail(Waiting) \in Seq(MemWr)
          /\ Len(Tail(Waiting)) = Len(Waiting) - 1
          /\ \A i \in 1 .. Len(Tail(Waiting)) : Tail(Waiting)[i] = Waiting[i + 1]
      BY <1>1, <1>4, <2>1, HeadTailProperties
    <3>2. QED  BY <1>1, <2>1, <3>1
  <2>2. CASE ~get  BY <1>1, <1>2, <2>2
  <2>3. QED  BY <2>1, <2>2
<1>6. \A k \in 1 .. amount - g : Waiting[k + g] = storage[truncate_idx(tail_r, k + g - 1)]
  <2> TAKE k \in 1 .. amount - g
  <2>1. k + g \in 1 .. amount  BY <1>2
  <2>2. QED  BY <2>1 DEF Waiting
<1>7. Waiting' = W2  BY DEF Waiting
<1>8. W2 \in Seq(MemWr) /\ Len(W2) = amount' /\ \A k \in 1 .. amount' : W2[k] = storage'[truncate_idx(tail_r', k - 1)]
  <2>1. amount' \in Nat  BY <1>2, <1>3
  <2>2. \A k \in 1 .. amount' : storage'[truncate_idx(tail_r', k - 1)] \in MemWr
    <3> TAKE k \in 1 .. amount'
    <3>1. k - 1 \in 0 .. STORE_BUF_DEPTH  BY <1>2, <1>3 DEF DepthTwo
    <3>2. TypeOK'  BY TypeStep
    <3>3. QED  BY <3>1, <3>2, WrapInRing DEF TypeOK
  <2>3. QED  BY <2>1, <2>2
<1> HIDE DEF W2, rest, g, u
<1>9. /\ rest \o put \in Seq(MemWr)
      /\ Len(rest \o put) = amount - g + u
      /\ \A k \in 1 .. amount - g + u :
           (rest \o put)[k] = IF k <= amount - g THEN rest[k] ELSE put[k - (amount - g)]
  <2>1. /\ rest \o put \in Seq(MemWr)
        /\ Len(rest \o put) = Len(rest) + Len(put)
        /\ \A k \in 1 .. Len(rest) + Len(put) :
             (rest \o put)[k] = IF k <= Len(rest) THEN rest[k] ELSE put[k - Len(rest)]
    BY <1>3, <1>5, ConcatProperties, Zenon
  <2>2. QED  BY <1>5, <2>1 DEF u
<1>10. \A k \in 1 .. amount' : W2[k] = (rest \o put)[k]
  <2> TAKE k \in 1 .. amount'
  <2>1. W2[k] = IF k <= amount - g THEN storage[truncate_idx(tail_r, k + g - 1)] ELSE put[1]
    BY <1>8, CellsStep DEF g
  <2>2. (rest \o put)[k] = IF k <= amount - g THEN rest[k] ELSE put[k - (amount - g)]
    BY <1>2, <1>9
  <2>3. CASE k <= amount - g
    BY <1>2, <1>5, <1>6, <2>1, <2>2, <2>3
  <2>4. CASE ~(k <= amount - g)
    <3>1. k - (amount - g) = 1
      <4>1. k \in 1 .. amount'  OBVIOUS
      <4>2. QED  BY <1>2, <1>3, <2>4, <4>1
    <3>2. QED  BY <2>1, <2>2, <2>4, <3>1
  <2>5. QED  BY <2>3, <2>4
<1>11. W2 = rest \o put
  BY <1>2, <1>8, <1>9, <1>10, SeqEqual
<1>12. ASSUME get  PROVE pending_buf' = <<Head(Waiting)>>
  <2>1. pending_buf' = <<storage[tail_r]>>  BY <1>12 DEF CycleStep, Clock, deq
  <2>2. 1 \in 1 .. amount  BY <1>2, <1>12 DEF g
  <2>3. Waiting[1] = storage[truncate_idx(tail_r, 0)]  BY <2>2 DEF Waiting
  <2>4. truncate_idx(tail_r, 0) = tail_r
    BY DEF CycleStep, TypeOK, Idx, DepthTwo, truncate_idx
  <2>5. Head(Waiting) = Waiting[1]  BY <1>1, <2>2
  <2>6. QED  BY <2>1, <2>3, <2>4, <2>5
<1>13. Len(W2) <= STORE_BUF_DEPTH  BY <1>2, <1>3, <1>8 DEF g, DepthTwo
<1>14. QED  BY <1>4, <1>7, <1>8, <1>11, <1>12, <1>13 DEF rest

-----------------------------------------------------------------------------
(* The registers keep their ranges.                                          *)
THEOREM TypeCorrect ==
  ASSUME DepthTwo
  PROVE  Spec => []TypeOK
<1>1. Init => TypeOK
  <2>1. MemWr # {}
    <3>1. PICK a \in Addr, p \in Payload : TRUE  BY StoreAssumption
    <3>2. [mem_addr |-> a, payload |-> p] \in MemWr  BY DEF MemWr
    <3>3. QED  BY <3>2
  <2>2. (CHOOSE s \in MemWr : TRUE) \in MemWr  BY <2>1
  <2> DEFINE s0 == CHOOSE s \in MemWr : TRUE
  <2> HIDE DEF s0
  <2>3. ASSUME Init  PROVE storage \in [Idx -> MemWr]  BY <2>2, <2>3 DEF Init, s0
  <2>4. 0 \in Idx  BY DEF Idx, DepthTwo
  <2>5. QED  BY <2>3, <2>4 DEF Init, TypeOK, Maybe
<1>2. TypeOK /\ [Next]_vars => TypeOK'
  <2> SUFFICES ASSUME TypeOK, [Next]_vars  PROVE TypeOK'
    OBVIOUS
  <2>1. CASE Next
    <3>1. PICK put \in Maybe(MemWr), get \in BOOLEAN, response \in BOOLEAN :
            Clock(put, get, response)
      BY <2>1 DEF Next
    <3>2. CycleStep(put, get, response)  BY <3>1 DEF CycleStep
    <3>3. QED  BY <3>2, TypeStep
  <2>2. CASE UNCHANGED vars  BY <2>2 DEF vars, TypeOK
  <2>3. QED  BY <2>1, <2>2
<1>3. QED  BY <1>1, <1>2, PTL DEF Spec

(* The store buffer is a queue: every store that is put leaves once for the  *)
(* bus, after all that were put before it, and none is invented when the     *)
(* pointers meet.                                                            *)
THEOREM BufferIsQueue ==
  ASSUME DepthTwo
  PROVE  Spec => StoresInOrder
<1>1. Init => Queue!Init
  <2> SUFFICES ASSUME Init  PROVE Queue!Init
    OBVIOUS
  <2>1. amount = 0  BY DEF Init, amount
  <2>2. Waiting = <<>>  BY <2>1 DEF Waiting
  <2>3. QED  BY <2>2 DEF Init, Queue!Init
<1>2. TypeOK /\ [Next]_vars => [Queue!Step]_(Queue!vars)
  <2> SUFFICES ASSUME TypeOK, [Next]_vars  PROVE [Queue!Step]_(Queue!vars)
    OBVIOUS
  <2>1. CASE Next
    <3>1. PICK put \in Maybe(MemWr), get \in BOOLEAN, response \in BOOLEAN :
            Clock(put, get, response)
      BY <2>1 DEF Next
    <3>2. CycleStep(put, get, response)  BY <3>1 DEF CycleStep
    <3>3. accepted' = put  BY <3>1 DEF Clock, enq
    <3>4. accepted' = <<>> \/ \E s \in MemWr : accepted' = <<s>>
      BY <3>3 DEF Maybe
    <3>5. /\ Len(Waiting') <= STORE_BUF_DEPTH
          /\ Waiting' = (IF get THEN Tail(Waiting) ELSE Waiting) \o accepted'
          /\ get => Waiting # <<>> /\ pending_buf' = <<Head(Waiting)>>
      BY <3>2, <3>3, WaitingStep
    <3>6. ~get => pending_buf' = pending_buf \/ pending_buf' = <<>>
      BY <3>1 DEF Clock, deq
    <3> HIDE DEF Waiting
    <3>7. QED  BY <3>4, <3>5, <3>6 DEF Queue!Step
  <2>2. CASE UNCHANGED vars
    BY <2>2 DEF vars, Queue!vars, Waiting, amount
  <2>3. QED  BY <2>1, <2>2
<1>3. QED  BY <1>1, <1>2, TypeCorrect, PTL DEF Spec, StoresInOrder, Queue!Spec
-----------------------------------------------------------------------------
(* The youngest of some places.                                              *)
LEMMA LastOf ==
  ASSUME NEW n \in Nat, NEW S, S \subseteq 0 .. n, S # {}
  PROVE  \E k \in S : \A g \in S : g <= k
<1> DEFINE R == OpToRel(<, Nat)
           T == {n - k : k \in S}
<1>1. T \subseteq Nat /\ T # {}
  <2>1. \A k \in S : k \in Nat /\ n - k \in Nat
    <3>1. \A k \in 0 .. n : k \in Nat /\ n - k \in Nat  OBVIOUS
    <3>2. QED  BY <3>1
  <2>2. QED  BY <2>1
<1>2. IsWellFoundedOn(R, Nat)  BY NatLessThanWellFounded
<1>3. \A x, y \in Nat : y < x => <<y, x>> \in R  BY DEF OpToRel
<1> HIDE DEF R
<1>4. PICK x \in T : \A y \in T : ~(<<y, x>> \in R)  BY <1>1, <1>2, WFMin
<1>5. PICK k \in S : x = n - k  OBVIOUS
<1>6. \A g \in S : g <= k
  <2> TAKE g \in S
  <2>1. n - g \in T /\ n - g \in Nat /\ x \in Nat  BY <1>1
  <2>2. ~(n - g < x)  BY <1>3, <1>4, <2>1
  <2>3. n \in Nat /\ g \in 0 .. n /\ k \in 0 .. n  OBVIOUS
  <2>4. QED  BY <1>5, <2>2, <2>3
<1>7. QED  BY <1>6

(* The search looks at the waiting stores and at nothing else, whether the   *)
(* flag is stale or not.                                                     *)
LEMMA SearchesWaiting ==
  ASSUME DepthTwo, TypeOK, NEW k \in Idx
  PROVE  Searched(k) <=> k < amount
<1> DEFINE D == STORE_BUF_DEPTH
           h == head_r
           t == tail_r
<1>1. /\ D \in Nat /\ D > 1 /\ h \in 0 .. D - 1 /\ t \in 0 .. D - 1
      /\ full_r \in BOOLEAN /\ k \in 0 .. D - 1
  BY DEF DepthTwo, TypeOK, Idx
<1>2. amount = IF h = t THEN IF full_r THEN D ELSE 0
               ELSE IF h > t THEN h - t ELSE h + D - t
  BY DEF amount
<1>3. flush_full <=> full_r /\ h = t  BY DEF flush_full
<1>4. CASE flush_full  BY <1>1, <1>2, <1>3, <1>4 DEF Searched
<1>5. CASE ~flush_full
  <2>1. amount \in 0 .. D - 1 /\ truncate_idx(t, amount) = h
    BY <1>1, <1>2, <1>3, <1>5 DEF truncate_idx
  <2>2. \A j \in 0 .. D - 1 : truncate_idx(t, j) = h => j = amount
    BY <1>1, <1>2, <1>3, <1>5 DEF truncate_idx
  <2> HIDE DEF amount, truncate_idx
  <2>3. Searched(k) <=> \A j \in 0 .. k : truncate_idx(t, j) # h  BY <1>5 DEF Searched
  <2>4. ASSUME k < amount, NEW j \in 0 .. k PROVE truncate_idx(t, j) # h
    BY <1>1, <2>1, <2>2, <2>4
  <2>5. ASSUME ~(k < amount) PROVE amount \in 0 .. k  BY <1>1, <2>1, <2>5
  <2>6. QED  BY <2>1, <2>3, <2>4, <2>5
<1>6. QED  BY <1>4, <1>5

LEMMA HitsAre ==
  ASSUME DepthTwo, TypeOK, NEW a
  PROVE  /\ Hits(a) = {k \in 0 .. amount - 1 : Waiting[k + 1].mem_addr = a}
         /\ \A k \in Hits(a) : storage[truncate_idx(tail_r, k)] = Waiting[k + 1]
<1>1. amount \in 0 .. STORE_BUF_DEPTH /\ STORE_BUF_DEPTH \in Nat  BY AmountRange DEF DepthTwo
<1>2. \A k \in Idx : Searched(k) <=> k < amount  BY SearchesWaiting
<1> HIDE DEF amount
<1>3. \A k \in 0 .. amount - 1 : Waiting[k + 1] = storage[truncate_idx(tail_r, k)]
  <2> TAKE k \in 0 .. amount - 1
  <2>1. k + 1 \in 1 .. amount /\ (k + 1) - 1 = k  BY <1>1
  <2>2. QED  BY <2>1 DEF Waiting
<1>4. \A k : k \in Idx /\ k < amount <=> k \in 0 .. amount - 1  BY <1>1 DEF Idx
<1>5. QED  BY <1>2, <1>3, <1>4 DEF Hits

(* What answers a load is, of the stores to its word that memory has not     *)
(* confirmed, the youngest.                                                  *)
LEMMA YoungestAnswers ==
  ASSUME DepthTwo, TypeOK, NEW a \in Addr \ {0}
  PROVE  forward(a) = {Unconfirmed[k] : k \in
           {h \in 1 .. Len(Unconfirmed) :
              /\ Unconfirmed[h].mem_addr = a
              /\ \A g \in h + 1 .. Len(Unconfirmed) : Unconfirmed[g].mem_addr # a}}
<1> DEFINE p == Len(pending_buf)
           n == amount
           U == Unconfirmed
           Youngest == {h \in 1 .. Len(U) : /\ U[h].mem_addr = a
                                            /\ \A g \in h + 1 .. Len(U) : U[g].mem_addr # a}
<1>1. /\ pending_buf \in Seq(MemWr) /\ p \in {0, 1} /\ (pending_buf = <<>> <=> p = 0)
  BY MaybeCases, PutLength DEF TypeOK
<1>2. Waiting \in Seq(MemWr) /\ Len(Waiting) = n /\ n \in Nat
  BY WaitingIsSeq, AmountRange DEF DepthTwo
<1>3. /\ Len(U) = p + n
      /\ \A k \in 1 .. p + n : U[k] = IF k <= p THEN pending_buf[k] ELSE Waiting[k - p]
  <2> HIDE DEF n
  <2>1. /\ pending_buf \o Waiting \in Seq(MemWr)
        /\ Len(pending_buf \o Waiting) = Len(pending_buf) + Len(Waiting)
        /\ \A k \in 1 .. Len(pending_buf) + Len(Waiting) :
             (pending_buf \o Waiting)[k] = IF k <= Len(pending_buf) THEN pending_buf[k]
                                           ELSE Waiting[k - Len(pending_buf)]
    <3>1. pending_buf \in Seq(MemWr) /\ Waiting \in Seq(MemWr)  BY <1>1, <1>2
    <3>2. QED  BY <3>1, ConcatProperties, Zenon
  <2>2. QED  BY <1>2, <2>1 DEF Unconfirmed
<1>4. /\ Hits(a) = {k \in 0 .. n - 1 : Waiting[k + 1].mem_addr = a}
      /\ \A k \in Hits(a) : storage[truncate_idx(tail_r, k)] = Waiting[k + 1]
  BY HitsAre
<1> HIDE DEF p, n, U
<1>5. CASE Hits(a) # {}
  <2>1. PICK k \in Hits(a) : \A g \in Hits(a) : g <= k
    <3>1. Hits(a) \subseteq 0 .. n  BY <1>2, <1>4
    <3>2. QED  BY <1>2, <1>5, <3>1, LastOf
  <2>2. k \in Nat /\ k < n /\ Waiting[k + 1].mem_addr = a  BY <1>2, <1>4
  <2>3. {h \in Hits(a) : \A g \in Hits(a) : g <= h} = {k}
    BY <1>2, <1>4, <2>1
  <2>4. internal_forward(a) = {Waiting[k + 1]}
    BY <1>4, <2>3 DEF internal_forward
  <2>5. forward(a) = {Waiting[k + 1]}  BY <2>4 DEF forward
  <2> DEFINE y == p + k + 1
  <2>6. y \in 1 .. Len(U) /\ U[y] = Waiting[k + 1]
    <3>1. y \in 1 .. p + n /\ ~(y <= p) /\ y - p = k + 1  BY <1>1, <1>2, <2>2
    <3>2. QED  BY <1>3, <3>1
  <2>7. \A g \in y + 1 .. Len(U) : U[g].mem_addr # a
    <3> SUFFICES ASSUME NEW g \in y + 1 .. Len(U), U[g].mem_addr = a PROVE FALSE
      OBVIOUS
    <3>1. /\ g \in 1 .. p + n /\ ~(g <= p) /\ g - p - 1 \in 0 .. n - 1 /\ g - p - 1 > k
          /\ (g - p - 1) + 1 = g - p
      BY <1>1, <1>2, <1>3, <2>2
    <3>2. U[g] = Waiting[g - p]  BY <1>3, <3>1
    <3>3. g - p - 1 \in Hits(a)  BY <1>4, <3>1, <3>2
    <3>4. g - p - 1 <= k  BY <2>1, <3>3
    <3>5. QED  BY <2>2, <3>1, <3>4
  <2>8. ASSUME NEW h \in Youngest PROVE h = y
    <3>1. h \in 1 .. Len(U) /\ U[h].mem_addr = a /\ ~(y \in h + 1 .. Len(U))
      BY <2>2, <2>6
    <3>2. ~(h \in y + 1 .. Len(U))  BY <2>7, <3>1
    <3>3. Len(U) \in Nat /\ h \in Nat /\ y \in Nat /\ h <= Len(U) /\ y <= Len(U)
      BY <1>1, <1>2, <1>3, <2>6, <3>1
    <3> HIDE DEF y
    <3>4. QED  BY <3>1, <3>2, <3>3
  <2>9. Youngest = {y}  BY <2>2, <2>6, <2>7, <2>8
  <2>10. {U[h] : h \in Youngest} = {Waiting[k + 1]}  BY <2>6, <2>9
  <2>11. QED  BY <2>5, <2>10 DEF U
<1>6. CASE Hits(a) = {}
  <2>1. forward(a) = pending_store(a)  BY <1>6 DEF forward, internal_forward
  <2>2. \A h \in 1 .. Len(U) : h > p => U[h].mem_addr # a
    <3> SUFFICES ASSUME NEW h \in 1 .. Len(U), h > p PROVE U[h].mem_addr # a
      OBVIOUS
    <3>1. h \in 1 .. p + n /\ ~(h <= p) /\ h - p - 1 \in 0 .. n - 1 /\ (h - p - 1) + 1 = h - p
      BY <1>1, <1>2, <1>3
    <3>2. QED  BY <1>3, <1>4, <1>6, <3>1
  <2>3. Youngest = {h \in 1 .. p : pending_buf[h].mem_addr = a /\ a # 0}
    <3>1. ASSUME NEW h \in Youngest PROVE h \in 1 .. p /\ pending_buf[h].mem_addr = a
      <4>1. h \in 1 .. p + n /\ h <= p  BY <1>1, <1>2, <1>3, <2>2
      <4>2. U[h] = pending_buf[h]  BY <1>3, <4>1
      <4>3. QED  BY <1>1, <4>1, <4>2
    <3>2. ASSUME NEW h \in 1 .. p, pending_buf[h].mem_addr = a PROVE h \in Youngest
      <4>1. p = 1 /\ h = 1 /\ h \in 1 .. p + n  BY <1>1, <1>2
      <4>2. U[h] = pending_buf[h]  BY <1>3, <4>1
      <4>3. \A g \in h + 1 .. Len(U) : g \in 1 .. Len(U) /\ g > p  BY <1>2, <1>3, <4>1
      <4>4. QED  BY <1>3, <2>2, <3>2, <4>1, <4>2, <4>3
    <3>3. QED  BY <3>1, <3>2
  <2>4. \A h \in 1 .. p : U[h] = pending_buf[h]
    BY <1>1, <1>2, <1>3
  <2>5. {U[h] : h \in Youngest} = pending_store(a)
    BY <2>3, <2>4 DEF pending_store, p
  <2>6. QED  BY <2>1, <2>5 DEF U
<1>7. QED  BY <1>5, <1>6

(* A load is forwarded the youngest store to its word, in every cycle of the *)
(* store's stay in the ring and on the bus, for every depth.                 *)
THEOREM LoadsSeeYoungest ==
  ASSUME DepthTwo
  PROVE  Spec => []ForwardsYoungest
<1>1. TypeOK => ForwardsYoungest  BY YoungestAnswers DEF ForwardsYoungest
<1>2. QED  BY <1>1, TypeCorrect, PTL
=============================================================================
