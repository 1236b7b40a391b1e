------------------------- MODULE ReorderBufferProofs -------------------------
(***************************************************************************)
(* Proofs about the reorder buffer for every width and depth.              *)
(***************************************************************************)
EXTENDS ReorderBuffer, FiniteSetTheorems, SequenceTheorems, TLAPS

-----------------------------------------------------------------------------
(* Positions of a ring of n places. *)
LEMMA RolloverInRing ==
  ASSUME NEW n \in Nat \ {0}, NEW a \in 0 .. n - 1, NEW b \in 0 .. n
  PROVE  rollover_add(n, a, b) \in 0 .. n - 1
BY DEF rollover_add

LEMMA DistanceInRing ==
  ASSUME NEW n \in Nat \ {0}, NEW a \in 0 .. n - 1, NEW b \in 0 .. n - 1
  PROVE  Distance(n, a, b) \in 0 .. n - 1
BY DEF Distance

LEMMA DistanceOfRollover ==
  ASSUME NEW n \in Nat \ {0}, NEW a \in 0 .. n - 1, NEW k \in 0 .. n - 1
  PROVE  Distance(n, a, rollover_add(n, a, k)) = k
BY DEF Distance, rollover_add

LEMMA RolloverOfDistance ==
  ASSUME NEW n \in Nat \ {0}, NEW a \in 0 .. n - 1, NEW b \in 0 .. n - 1
  PROVE  rollover_add(n, a, Distance(n, a, b)) = b
BY DEF Distance, rollover_add

(* Tags: the product ISSUEWIDTH * ROB_BANK_DEPTH is at least ISSUEWIDTH, and *)
(* the ids of the rows lie below it.                                         *)
LEMMA TagRange ==
  /\ ROBDEPTH \in Nat \ {0}
  /\ ISSUEWIDTH <= ROBDEPTH
  /\ \A b \in Bank, i \in Index : rob_id(b, i) \in Tag
<1> USE WidthAssumption, DepthAssumption
<1>1. ROBDEPTH \in Nat \ {0} /\ ISSUEWIDTH <= ROBDEPTH
  <2>1. \A w \in Nat \ {0}, d \in Nat \ {0} : w * d \in Nat /\ w <= w * d  BY Z3
  <2>2. QED  BY <2>1 DEF ROBDEPTH
<1>2. ASSUME NEW b \in Bank, NEW i \in Index  PROVE rob_id(b, i) \in Tag
  <2>1. \A w \in Nat \ {0}, d \in Nat \ {0}, k \in Nat : 
           k <= d - 1 => w * k \in Nat /\ w * k <= w * (d - 1) /\ w * (d - 1) = w * d - w  BY Z3
  <2>2. ISSUEWIDTH * i \in Nat /\ ISSUEWIDTH * i <= ROBDEPTH - ISSUEWIDTH
    BY <2>1 DEF Index, ROBDEPTH
  <2>3. QED  BY <1>1, <2>2 DEF rob_id, Bank, Tag
<1>3. QED  BY <1>1, <1>2

-----------------------------------------------------------------------------
(* What the pointers say.  A bank that dequeues holds something, a bank with *)
(* room has its head row empty, and a bank whose next row is empty holds at  *)
(* least two fewer than it could.                                            *)
LEMMA CountRange ==
  ASSUME TypeOK, NEW b \in Bank
  PROVE  Count(b) \in 0 .. ROB_BANK_DEPTH
BY SMTT(30), DepthAssumption DEF TypeOK, Count, Distance, Index

LEMMA PointersInIndex ==
  ASSUME TypeOK, NEW b \in Bank
  PROVE  /\ local_head[b] \in 0 .. ROB_BANK_DEPTH - 1
         /\ local_tail[b] \in 0 .. ROB_BANK_DEPTH - 1
BY DEF TypeOK, Index

LEMMA HeadRowEmpty ==
  ASSUME TypeOK, NEW b \in Bank, Ring(b), Count(b) < ROB_BANK_DEPTH
  PROVE  ~occupied[b][local_head[b]]
<1> DEFINE h == local_head[b]
           t == local_tail[b]
<1>1. h \in Index /\ t \in Index  BY PointersInIndex DEF Index
<1>2. occupied[b][h] <=> Distance(ROB_BANK_DEPTH, t, h) < Count(b)  BY <1>1 DEF Ring
<1>3. CASE h = t  BY <1>3, <1>2, DepthAssumption DEF Count
<1>4. CASE h # t
  <2>1. Count(b) = Distance(ROB_BANK_DEPTH, t, h)  BY <1>4 DEF Count
  <2>2. Count(b) \in Nat  BY CountRange, DepthAssumption
  <2>3. QED  BY <1>2, <2>1, <2>2
<1>5. QED  BY <1>3, <1>4

LEMMA TailRowOccupied ==
  ASSUME TypeOK, NEW b \in Bank, Ring(b), ready_deq(b)
  PROVE  Count(b) >= 1
<1> DEFINE t == local_tail[b]
<1>1. t \in Index  BY PointersInIndex DEF Index
<1>2. Distance(ROB_BANK_DEPTH, t, t) < Count(b)  BY <1>1 DEF Ring, ready_deq
<1>3. Distance(ROB_BANK_DEPTH, t, t) = 0  BY <1>1, DepthAssumption DEF Index, Distance
<1>4. QED  BY <1>2, <1>3, CountRange, DepthAssumption

LEMMA FreeBankHasRoom ==
  ASSUME TypeOK, NEW b \in Bank, Ring(b)
  PROVE  get_rdy_enq(b) <=> Count(b) <= (IF ROB_BANK_DEPTH > 1 THEN ROB_BANK_DEPTH - 2 ELSE 0)
<1> DEFINE h == local_head[b]
           t == local_tail[b]
           next == NextRow(h)
<1> USE DepthAssumption
<1>0. h \in Index /\ t \in Index /\ Count(b) \in 0 .. ROB_BANK_DEPTH
  BY PointersInIndex, CountRange DEF Index
<1>1. CASE ROB_BANK_DEPTH = 1
  <2>1. h = t  BY <1>0, <1>1 DEF Index
  <2>2. get_rdy_enq(b) <=> ~occupied[b][h]  BY <1>1 DEF get_rdy_enq, ready_enq
  <2>3. QED  BY <1>1, <2>1, <2>2 DEF Count
<1>2. CASE ROB_BANK_DEPTH > 1
  <2>1. next \in Index /\ (get_rdy_enq(b) <=> ~occupied[b][next])
    BY <1>0, <1>2 DEF get_rdy_enq, ready_enq_next, NextRow, rollover_add, Index
  <2>2. occupied[b][next] <=> Distance(ROB_BANK_DEPTH, t, next) < Count(b)
    BY <2>1 DEF Ring
  <2>3. CASE h = t
    <3>1. Distance(ROB_BANK_DEPTH, t, next) = 1
      BY <1>0, <1>2, <2>3 DEF Distance, NextRow, rollover_add, Index
    <3>2. Count(b) = 0 \/ Count(b) = ROB_BANK_DEPTH  BY <2>3 DEF Count
    <3>3. QED  BY <1>0, <1>2, <2>1, <2>2, <3>1, <3>2
  <2>4. CASE h # t
    <3>1. Count(b) = Distance(ROB_BANK_DEPTH, t, h)  BY <2>4 DEF Count
    <3>2. Distance(ROB_BANK_DEPTH, t, next) < Count(b) <=> Count(b) > ROB_BANK_DEPTH - 2
      BY <1>0, <1>2, <2>4, <3>1 DEF Distance, NextRow, rollover_add, Index
    <3>3. QED  BY <1>0, <1>2, <2>1, <2>2, <3>2
  <2>5. QED  BY <2>3, <2>4
<1>3. QED  BY <1>1, <1>2

(* The banks a bundle leaves, and enters, in terms of the distances.         *)
LEMMA LeavesFromTail ==
  ASSUME TypeOK, NEW b \in Bank, NEW n \in 0 .. ISSUEWIDTH
  PROVE  Leaves(b, n) <=> FromTail(b) < n
<1> USE WidthAssumption DEF Bank, TailBank
<1>0. tail_bank \in Bank  BY DEF TypeOK
<1>1. ASSUME NEW k \in 0 .. n - 1, b = TailBank(k)  PROVE FromTail(b) < n
  <2>1. FromTail(b) = k  BY <1>0, <1>1, DistanceOfRollover DEF FromTail
  <2>2. QED  BY <2>1
<1>2. ASSUME FromTail(b) < n  PROVE \E k \in 0 .. n - 1 : b = TailBank(k)
  <2>1. FromTail(b) \in 0 .. n - 1  BY <1>0, <1>2, DistanceInRing DEF FromTail
  <2>2. b = TailBank(FromTail(b))  BY <1>0, RolloverOfDistance DEF FromTail
  <2>3. QED  BY <2>1, <2>2
<1>3. QED  BY <1>1, <1>2 DEF Leaves

LEMMA GetsFromHead ==
  ASSUME TypeOK, NEW b \in Bank, NEW arriving, Len(arriving) \in 0 .. ISSUEWIDTH
  PROVE  Gets(b, arriving) <=> FromHead(b) < Len(arriving)
<1> USE WidthAssumption DEF Bank, HeadBank
<1> DEFINE m == Len(arriving)
<1>0. head_bank \in Bank /\ m \in 0 .. ISSUEWIDTH  BY DEF TypeOK
<1> HIDE DEF m
<1>1. ASSUME NEW k \in 1 .. m, b = HeadBank(k - 1)  PROVE FromHead(b) < m
  <2>1. FromHead(b) = k - 1  BY <1>0, <1>1, DistanceOfRollover DEF FromHead
  <2>2. QED  BY <1>0, <2>1
<1>2. ASSUME FromHead(b) < m  PROVE \E k \in 1 .. m : b = HeadBank(k - 1)
  <2>1. FromHead(b) + 1 \in 1 .. m
    <3>1. FromHead(b) \in Nat  BY <1>0 DEF FromHead, Distance
    <3>2. QED  BY <1>0, <1>2, <3>1
  <2>2. b = HeadBank((FromHead(b) + 1) - 1)
    <3>1. FromHead(b) \in 0 .. ISSUEWIDTH - 1  BY <1>0, DistanceInRing DEF FromHead
    <3>2. (FromHead(b) + 1) - 1 = FromHead(b)  BY <3>1
    <3>3. HeadBank(FromHead(b)) = b  BY <1>0, RolloverOfDistance DEF FromHead
    <3>4. QED  BY <3>2, <3>3
  <2>3. QED  BY <2>1, <2>2
<1>3. QED  BY <1>1, <1>2 DEF Gets, m

-----------------------------------------------------------------------------
(* A bundle of m <= free instructions: free only counts banks, but the banks *)
(* from the head on are the emptiest, so the m of them that will be used are *)
(* among the free ones.                                                      *)
LEMMA FreePrefix ==
  ASSUME TypeOK, \A b \in Bank : Ring(b),
         NEW q \in 0 .. ROB_BANK_DEPTH, BalancedBy(q),
         NEW m \in Nat, m <= free,
         NEW b \in Bank, FromHead(b) < m
  PROVE  get_rdy_enq(b)
<1> DEFINE F == {c \in Bank : get_rdy_enq(c)}
           x == FromHead(b)
           f == [c \in F |-> FromHead(c)]
<1> USE WidthAssumption, DepthAssumption
<1>0. /\ head_bank \in Bank /\ tail_bank \in Bank
      /\ \A c \in Bank : FromHead(c) \in 0 .. ISSUEWIDTH - 1
      /\ \A c \in Bank : FromTail(c) \in 0 .. ISSUEWIDTH - 1
  BY DistanceInRing DEF TypeOK, FromHead, FromTail, Bank
<1> SUFFICES ASSUME ~get_rdy_enq(b)  PROVE FALSE
  OBVIOUS
<1>1. \A c \in F : FromHead(c) < x
  <2> SUFFICES ASSUME NEW c \in F, FromHead(c) >= x  PROVE FALSE
    BY <1>0
  <2>1. Count(c) >= Count(b)
    <3>1. FromTail(b) >= FromTail(head_bank) \/ FromTail(c) < FromTail(head_bank)
      BY <1>0 DEF FromHead, FromTail, Distance, Bank
    <3>2. QED  BY <3>1, <1>0 DEF BalancedBy
  <2>2. QED  BY <2>1, FreeBankHasRoom, CountRange
<1>2. f \in Injection(F, 0 .. x - 1)
  <2>1. f \in [F -> 0 .. x - 1]  BY <1>0, <1>1
  <2>2. \A c, d \in F : f[c] = f[d] => c = d
    BY <1>0 DEF FromHead, Distance, Bank
  <2>3. QED  BY <2>1, <2>2 DEF Injection, IsInjective
<1>3. IsFiniteSet(0 .. x - 1) /\ Cardinality(0 .. x - 1) = x
  <2>1. x \in Nat /\ 0 \in Int /\ x - 1 \in Int  BY <1>0
  <2> HIDE DEF x
  <2>2. /\ IsFiniteSet(0 .. x - 1)
        /\ Cardinality(0 .. x - 1) = IF 0 > x - 1 THEN 0 ELSE (x - 1) - 0 + 1
    BY <2>1, FS_Interval, Zenon
  <2>3. QED  BY <2>1, <2>2
<1>4. Cardinality(F) <= x
  BY <1>2, <1>3, FS_Injection
<1>5. Cardinality(F) \in Nat
  BY <1>2, <1>3, FS_Injection, FS_CardinalityType
<1>6. QED  BY <1>0, <1>4, <1>5 DEF free

-----------------------------------------------------------------------------
(* One clock cycle: the invariant holds, a bundle no larger than free is      *)
(* issued, and n instructions leave.                                          *)
ClockStep(insts, results, n) ==
  /\ IInv
  /\ insts \in Bundle
  /\ Len(insts) <= free
  /\ n \in 0 .. ISSUEWIDTH
  /\ Clock(insts, results, n)

LEMMA BundleLength ==
  ASSUME NEW insts \in Bundle
  PROVE  /\ Len(insts) \in 0 .. ISSUEWIDTH
         /\ insts \in [1 .. Len(insts) -> Inst]
<1>1. PICK k \in 0 .. ISSUEWIDTH : insts \in [1 .. k -> Inst]  BY DEF Bundle
<1>2. Len(insts) = k  BY <1>1, WidthAssumption
<1>3. QED  BY <1>1, <1>2

LEMMA FunctionIsSeq ==
  ASSUME NEW S, NEW m \in Nat, NEW f \in [1 .. m -> S]
  PROVE  f \in Seq(S) /\ Len(f) = m
OBVIOUS

LEMMA ReservedType ==
  ASSUME TypeOK, NEW insts \in Bundle
  PROVE  /\ Reserved(insts) \in Seq([inst : Inst, tag : Tag])
         /\ Len(Reserved(insts)) = Len(insts)
<1> DEFINE m == Len(insts)
<1>1. m \in 0 .. ISSUEWIDTH /\ insts \in [1 .. m -> Inst]  BY BundleLength
<1>2. \A k \in 1 .. m : generate_tag(k - 1) \in Tag
  <2> TAKE k \in 1 .. m
  <2>1. rob_idx \in 0 .. ROBDEPTH - 1 /\ k - 1 \in 0 .. ROBDEPTH
    BY <1>1, TagRange, WidthAssumption DEF TypeOK, Tag
  <2>2. QED  BY <2>1, TagRange, RolloverInRing DEF generate_tag, Tag
<1>3. Reserved(insts) \in [1 .. m -> [inst : Inst, tag : Tag]]
  BY <1>1, <1>2 DEF Reserved
<1>4. m \in Nat  BY <1>1
<1> HIDE DEF m
<1>5. Reserved(insts) \in Seq([inst : Inst, tag : Tag]) /\ Len(Reserved(insts)) = m
  BY <1>3, <1>4, FunctionIsSeq, Zenon
<1>6. QED  BY <1>5 DEF m

(* What arrives fits: there are at most ISSUEWIDTH of them, each for a bank   *)
(* that has room.                                                             *)
LEMMA ArrivalsFit ==
  ASSUME IInv, NEW insts \in Bundle, Len(insts) <= free
  PROVE  /\ Arriving(insts) \in Seq([inst : Inst, tag : Tag])
         /\ Len(Arriving(insts)) \in 0 .. ISSUEWIDTH
         /\ \A b \in Bank : FromHead(b) < Len(Arriving(insts)) => Count(b) < ROB_BANK_DEPTH
<1> USE DEF IInv
<1>1. CASE ROB_BANK_DEPTH > 1
  BY <1>1 DEF Arriving, RoomForIncoming, TypeOK
<1>2. CASE ROB_BANK_DEPTH = 1
  <2>1. Arriving(insts) = Reserved(insts)  BY <1>2 DEF Arriving
  <2>2. Len(Reserved(insts)) = Len(insts) /\ Len(insts) \in 0 .. ISSUEWIDTH
    BY ReservedType, BundleLength
  <2>3. ASSUME NEW b \in Bank, FromHead(b) < Len(insts)
        PROVE  Count(b) < ROB_BANK_DEPTH
    <3>1. PICK q \in 0 .. ROB_BANK_DEPTH : BalancedBy(q)  OBVIOUS
    <3>2. Len(insts) \in Nat  BY <2>2
    <3>3. get_rdy_enq(b)  BY <2>3, <3>1, <3>2, FreePrefix
    <3>4. QED  BY <1>2, <3>3, FreeBankHasRoom, CountRange
  <2>4. QED  BY <2>1, <2>2, <2>3, ReservedType
<1>3. QED  BY <1>1, <1>2, DepthAssumption

-----------------------------------------------------------------------------
(* Head pointer and row flags determine the count.                            *)
LEMMA HeadIsTailPlusCount ==
  ASSUME TypeOK, NEW b \in Bank
  PROVE  local_head[b] = rollover_add(ROB_BANK_DEPTH, local_tail[b], Count(b))
<1>1. local_head[b] \in 0 .. ROB_BANK_DEPTH - 1 /\ local_tail[b] \in 0 .. ROB_BANK_DEPTH - 1
  BY PointersInIndex
<1>2. QED  BY <1>1, DepthAssumption DEF Count, rollover_add, Distance

(* One bank over a cycle: l of its rows is emptied and g is filled.           *)
LEMMA BankStep ==
  ASSUME NEW insts, NEW results, NEW n, ClockStep(insts, results, n), NEW b \in Bank
  PROVE  LET l == IF FromTail(b) < n THEN 1 ELSE 0
             g == IF FromHead(b) < Len(Arriving(insts)) THEN 1 ELSE 0
         IN  /\ l <= Count(b) /\ Count(b) + g <= ROB_BANK_DEPTH
             /\ local_head'[b] \in Index /\ local_tail'[b] \in Index
             /\ Count(b)' = Count(b) - l + g
             /\ Ring(b)'
<1> DEFINE arriving == Arriving(insts)
           D == ROB_BANK_DEPTH
           c == Count(b)
           l == IF FromTail(b) < n THEN 1 ELSE 0
           g == IF FromHead(b) < Len(arriving) THEN 1 ELSE 0
           h == local_head[b]
           t == local_tail[b]
<1> USE DEF ClockStep, IInv
<1>1. /\ Leaves(b, n) <=> l = 1
      /\ Gets(b, arriving) <=> g = 1
      /\ l \in {0, 1} /\ g \in {0, 1}
  BY LeavesFromTail, GetsFromHead, ArrivalsFit
<1>2. c \in 0 .. D /\ D \in Nat \ {0} /\ h \in 0 .. D - 1 /\ t \in 0 .. D - 1
  BY CountRange, DepthAssumption, PointersInIndex
<1>3. c + g <= D
  BY <1>2, ArrivalsFit
<1>4. l <= c
  <2>1. ASSUME Leaves(b, n)  PROVE ready_deq(b)
    BY <2>1 DEF Clock, amt_current, Leaves
  <2>2. QED  BY <1>1, <1>2, <2>1, TailRowOccupied
<1>5. /\ local_head'[b] = rollover_add(D, h, g)
      /\ local_tail'[b] = rollover_add(D, t, l)
      /\ \A i \in Index : occupied'[b][i] <=> (g = 1 /\ i = h) \/ (occupied[b][i] /\ ~(l = 1 /\ i = t))
  <2>1. local_head'[b] = IF g = 1 THEN NextRow(h) ELSE h
    BY <1>1 DEF Clock, insert
  <2>2. local_tail'[b] = IF l = 1 THEN NextRow(t) ELSE t
    BY <1>1 DEF Clock, calc_insts
  <2>3. rollover_add(D, h, 0) = h /\ rollover_add(D, t, 0) = t
    BY <1>2 DEF rollover_add
  <2>4. ASSUME NEW i \in Index
        PROVE  occupied'[b][i] <=> (g = 1 /\ i = h) \/ (occupied[b][i] /\ ~(l = 1 /\ i = t))
    BY <1>1 DEF Clock, row_flags
  <2>5. QED  BY <1>1, <2>1, <2>2, <2>3, <2>4 DEF NextRow
<1>6. h = rollover_add(D, t, c)  BY HeadIsTailPlusCount
<1> DEFINE c2 == c - l + g
           h2 == local_head'[b]
           t2 == local_tail'[b]
<1>r. \A i \in Index : occupied[b][i] <=> Distance(D, t, i) < c  BY DEF Ring
<1> HIDE DEF ClockStep, IInv, c, l, g, h, t, h2, t2, D
<1>7. /\ c2 \in 0 .. D
      /\ h2 = rollover_add(D, t2, c2)
      /\ \A i \in 0 .. D - 1 : Distance(D, t2, i) < c2
            <=> (g = 1 /\ i = h) \/ (Distance(D, t, i) < c /\ ~(l = 1 /\ i = t))
  <2>1. h2 = rollover_add(D, h, g) /\ t2 = rollover_add(D, t, l)
    BY <1>5 DEF h2, t2
  <2>2. l <= c  BY <1>4
  <2>3. c \in 0 .. D /\ D \in Nat \ {0} /\ t \in 0 .. D - 1 /\ l \in {0, 1} /\ g \in {0, 1}
    BY <1>1, <1>2
  <2>4. c + g <= D  BY <1>3
  <2>5. QED  BY <1>6, <2>1, <2>2, <2>3, <2>4 DEF rollover_add, Distance
<1>8. h2 \in 0 .. D - 1 /\ t2 \in 0 .. D - 1
  <2>1. h2 = rollover_add(D, h, g) /\ t2 = rollover_add(D, t, l)
    BY <1>5 DEF h2, t2
  <2>2. QED  BY <1>1, <1>2, <2>1 DEF rollover_add
<1>9. \A i \in 0 .. D - 1 : occupied'[b][i] <=> Distance(D, t2, i) < c2
  BY <1>5, <1>7, <1>r DEF Index, D
<1> HIDE DEF c2, h2, t2
<1>10. Count(b)' = c2
  <2>1. Count(b)' = IF h2 = t2 THEN IF occupied'[b][t2] THEN D ELSE 0
                    ELSE Distance(D, t2, h2)
    BY DEF Count, h2, t2, D
  <2>2. occupied'[b][t2] <=> Distance(D, t2, t2) < c2
    BY <1>8, <1>9
  <2>3. QED  BY SMTT(30), <1>2, <1>7, <1>8, <2>1, <2>2 DEF rollover_add, Distance
<1>11. Ring(b)'
  BY <1>9, <1>10 DEF Ring, Index, t2, D
<1>12. QED  BY <1>1, <1>3, <1>4, <1>8, <1>10, <1>11 DEF c, l, g, c2, h2, t2, D, Index

-----------------------------------------------------------------------------
(* The bank pointers over a cycle: both distances shift by what left and what *)
(* arrived.                                                                   *)
LEMMA BankPointersStep ==
  ASSUME NEW insts, NEW results, NEW n, ClockStep(insts, results, n)
  PROVE  /\ head_bank' \in Bank
         /\ tail_bank' \in Bank
         /\ head_bank' = rollover_add(ISSUEWIDTH, head_bank, Len(Arriving(insts)))
         /\ tail_bank' = rollover_add(ISSUEWIDTH, tail_bank, n)
<1> USE DEF ClockStep, IInv
<1>1. head_bank \in Bank /\ tail_bank \in Bank  BY DEF TypeOK
<1>2. head_bank' = HeadBank(Len(Arriving(insts))) /\ tail_bank' = TailBank(n)
  BY DEF Clock, insert, calc_insts
<1>3. Len(Arriving(insts)) \in 0 .. ISSUEWIDTH  BY ArrivalsFit
<1>4. QED
  BY <1>1, <1>2, <1>3, RolloverInRing, WidthAssumption DEF Bank, HeadBank, TailBank

(* The banks stay balanced: with r banks ahead, a arrivals and n departures,  *)
(* r + a - n banks are ahead, give or take a full turn.                       *)
LEMMA BalanceStep ==
  ASSUME NEW insts, NEW results, NEW n, ClockStep(insts, results, n)
  PROVE  \E q \in 0 .. ROB_BANK_DEPTH : BalancedBy(q)'
<1> DEFINE W == ISSUEWIDTH
           D == ROB_BANK_DEPTH
           a == Len(Arriving(insts))
           r == FromTail(head_bank)
           L(b) == IF FromTail(b) < n THEN 1 ELSE 0
           G(b) == IF FromHead(b) < a THEN 1 ELSE 0
<1>1. /\ W \in Nat \ {0} /\ D \in Nat \ {0}
      /\ a \in 0 .. W /\ n \in 0 .. W
      /\ head_bank \in 0 .. W - 1 /\ tail_bank \in 0 .. W - 1
      /\ head_bank' \in 0 .. W - 1 /\ tail_bank' \in 0 .. W - 1
  BY WidthAssumption, DepthAssumption, ArrivalsFit, BankPointersStep
     DEF ClockStep, IInv, TypeOK, Bank
<1>2. PICK q \in 0 .. D : BalancedBy(q)  BY DEF ClockStep, IInv
<1>3. head_bank' = rollover_add(W, head_bank, a) /\ tail_bank' = rollover_add(W, tail_bank, n)
  BY BankPointersStep
<1>4. \A b \in 0 .. W - 1 :
        /\ L(b) <= Count(b)
        /\ Count(b) + G(b) <= D
        /\ Count(b)' = Count(b) - L(b) + G(b)
        /\ Count(b) = IF FromTail(b) < r THEN q + 1 ELSE q
  <2>1. \A b \in Bank : /\ L(b) <= Count(b) /\ Count(b) + G(b) <= D
                         /\ Count(b)' = Count(b) - L(b) + G(b)
    BY BankStep
  <2>2. \A b \in Bank : Count(b) = IF FromTail(b) < r THEN q + 1 ELSE q
    BY <1>2 DEF BalancedBy
  <2>3. QED  BY <2>1, <2>2 DEF Bank
<1>5. r \in 0 .. W - 1  BY <1>1, DistanceInRing DEF FromTail
<1>6. \A b \in 0 .. W - 1 :
        /\ FromTail(b) \in 0 .. W - 1 /\ FromHead(b) \in 0 .. W - 1
        /\ FromTail(b)' = IF FromTail(b) < n THEN FromTail(b) - n + W ELSE FromTail(b) - n
        /\ FromHead(b) = IF FromTail(b) < r THEN FromTail(b) - r + W ELSE FromTail(b) - r
  BY <1>1, <1>3 DEF FromTail, FromHead, Distance, rollover_add
<1>7. FromTail(head_bank)' = IF r + a - n < 0 THEN r + a - n + W
                             ELSE IF r + a - n >= W THEN r + a - n - W ELSE r + a - n
  <2> HIDE DEF a
  <2>1. FromTail(head_bank)' = Distance(W, tail_bank', head_bank')  BY DEF FromTail
  <2>2. r = Distance(W, tail_bank, head_bank)  BY DEF FromTail
  <2> HIDE DEF r
  <2>3. QED  BY <1>1, <1>3, <2>1, <2>2 DEF Distance, rollover_add
<1>h. FromTail(head_bank) = r /\ FromHead(head_bank) = 0
  BY <1>1 DEF FromHead, Distance
<1> DEFINE q2 == IF r + a - n < 0 THEN q - 1 ELSE IF r + a - n >= W THEN q + 1 ELSE q
<1>8. q2 \in 0 .. D
  <2>1. q = 0 => ~(r + a - n < 0)  BY <1>1, <1>4, <1>5, <1>h
  <2>2. q = D => ~(r + a - n >= W)  BY <1>1, <1>4, <1>5, <1>h
  <2>3. QED  BY <1>1, <1>2, <1>5, <2>1, <2>2
<1>9. ASSUME NEW b \in Bank
      PROVE  Count(b)' = IF FromTail(b)' < FromTail(head_bank)' THEN q2 + 1 ELSE q2
  <2>1. b \in 0 .. W - 1  BY DEF Bank
  <2> HIDE DEF r, a
  <2>2. QED  BY SMTT(30), <1>1, <1>2, <1>4, <1>5, <1>6, <1>7, <2>1
<1>10. PICK q3 \in 0 .. D : q3 = q2  BY <1>8
<1>11. BalancedBy(q3)'
  <2> HIDE DEF q2
  <2>1. QED  BY <1>9, <1>10 DEF BalancedBy
<1>12. QED  BY <1>11

(* A bank that will get one of the newly issued instructions has room after   *)
(* this cycle.  Either one of the arriving instructions goes to it now: then  *)
(* it was counted as free and had two rows left.  Or none does: then all      *)
(* banks hold at most one more than the head bank, which was free.            *)
LEMMA RoomStep ==
  ASSUME NEW insts, NEW results, NEW n, ClockStep(insts, results, n)
  PROVE  RoomForIncoming'
<1> DEFINE W == ISSUEWIDTH
           D == ROB_BANK_DEPTH
           a == Len(Arriving(insts))
           m == Len(insts)
<1>0. /\ W \in Nat \ {0} /\ D \in Nat \ {0}
      /\ a \in 0 .. W /\ m \in 0 .. W /\ n \in 0 .. W
      /\ head_bank \in 0 .. W - 1 /\ head_bank' \in 0 .. W - 1
      /\ tail_bank \in 0 .. W - 1
      /\ head_bank' = rollover_add(W, head_bank, a)
  BY WidthAssumption, DepthAssumption, ArrivalsFit, BankPointersStep, BundleLength
     DEF ClockStep, IInv, TypeOK, Bank
<1>1. CASE D = 1
  <2>1. incoming' = <<>>  BY <1>1 DEF ClockStep, Clock
  <2>2. Len(incoming') = 0  BY <2>1
  <2>3. \A b \in Bank : ~(FromHead(b)' < 0)
    BY <1>0 DEF FromHead, Distance, Bank
  <2>4. QED  BY <2>2, <2>3 DEF RoomForIncoming
<1>2. CASE D > 1
  <2>1. Len(incoming') = m
    BY <1>2, ReservedType DEF ClockStep, IInv, Clock
  <2>2. ASSUME NEW b \in Bank, FromHead(b)' < m
        PROVE  Count(b)' < D
    <3> DEFINE p == FromHead(b)
    <3>1. /\ Count(b) \in 0 .. D
          /\ p \in 0 .. W - 1
          /\ FromHead(b)' = IF p < a THEN p - a + W ELSE p - a
          /\ \E l \in {0, 1} : Count(b)' = Count(b) - l + (IF p < a THEN 1 ELSE 0)
      <4>1. Count(b) \in 0 .. D  BY CountRange DEF ClockStep, IInv
      <4>2. b \in 0 .. W - 1  BY DEF Bank
      <4>3. /\ p \in 0 .. W - 1
            /\ FromHead(b)' = IF p < a THEN p - a + W ELSE p - a
        <5> HIDE DEF a
        <5>1. FromHead(b)' = Distance(W, head_bank', b)  BY DEF FromHead
        <5>2. QED  BY <1>0, <4>2, <5>1 DEF FromHead, Distance, rollover_add
      <4>4. Count(b)' = Count(b) - (IF FromTail(b) < n THEN 1 ELSE 0) + (IF p < a THEN 1 ELSE 0)
        BY BankStep
      <4>5. QED  BY <4>1, <4>3, <4>4
    <3>2. \A c \in Bank : FromHead(c) < m => Count(c) <= D - 2
      <4>1. m \in Nat  BY <1>0
      <4>2. QED  BY <1>2, <4>1, FreePrefix, FreeBankHasRoom DEF ClockStep, IInv
    <3>3. CASE p < a
      <4>1. p < m  BY <1>0, <2>2, <3>1, <3>3
      <4>2. Count(b) <= D - 2  BY <3>2, <4>1
      <4>3. QED  BY SMTT(30), <1>0, <3>1, <4>2
    <3>4. CASE ~(p < a)
      <4>1. head_bank \in Bank /\ FromHead(head_bank) = 0
        BY <1>0 DEF Bank, FromHead, Distance
      <4>2. Count(head_bank) <= D - 2
        BY <1>0, <2>2, <3>1, <3>2, <3>4, <4>1
      <4>3. PICK q \in 0 .. D : BalancedBy(q)  BY DEF ClockStep, IInv
      <4>4. Count(head_bank) = q /\ Count(b) <= q + 1
        <5>1. FromTail(head_bank) \in Nat  BY <1>0 DEF FromTail, Distance
        <5>2. QED  BY <4>1, <4>3, <5>1 DEF BalancedBy
      <4>5. QED  BY <1>0, <3>1, <3>4, <4>2, <4>3, <4>4
    <3>5. QED  BY <3>3, <3>4
  <2>3. QED  BY <2>1, <2>2 DEF RoomForIncoming
<1>3. QED  BY <1>0, <1>1, <1>2

-----------------------------------------------------------------------------
(* The types of what a cycle assigns.                                         *)
LEMMA EntryStep ==
  ASSUME NEW insts, NEW results, NEW n, ClockStep(insts, results, n)
  PROVE  /\ entry' \in [Bank -> [Index -> [inst : Inst, tag : Tag]]]
         /\ out' \in Seq([inst : Inst, tag : Tag]) /\ Len(out') = n
<1> DEFINE arriving == Arriving(insts)
           E == [inst : Inst, tag : Tag]
           pick(b) == CHOOSE k \in 1 .. Len(arriving) : b = HeadBank(k - 1)
<1> USE DEF ClockStep, IInv
<1>1. arriving \in Seq(E)  BY ArrivalsFit
<1>2. ASSUME NEW b \in Bank, Gets(b, arriving)
      PROVE  arriving[pick(b)] \in E
  <2>1. \E k \in 1 .. Len(arriving) : b = HeadBank(k - 1)  BY <1>2 DEF Gets
  <2>2. pick(b) \in 1 .. Len(arriving)  BY <2>1
  <2> HIDE DEF arriving, pick, E, ClockStep, IInv
  <2>3. QED  BY <1>1, <2>2
<1>3. entry \in [Bank -> [Index -> E]]  BY DEF TypeOK
<1>4. entry' = [b \in Bank |-> [i \in Index |->
                 IF Gets(b, arriving) /\ i = local_head[b] THEN arriving[pick(b)] ELSE entry[b][i]]]
  BY DEF Clock, insert
<1>5. entry' \in [Bank -> [Index -> E]]
  <2> HIDE DEF arriving, pick, E
  <2>1. QED  BY <1>2, <1>3, <1>4
<1>6. out' \in [1 .. n -> E] /\ n \in Nat
  <2>1. \A k \in 1 .. n : TailBank(k - 1) \in Bank
    <3> TAKE k \in 1 .. n
    <3>1. tail_bank \in 0 .. ISSUEWIDTH - 1 /\ k - 1 \in 0 .. ISSUEWIDTH
      BY WidthAssumption DEF TypeOK, Bank
    <3>2. QED  BY <3>1, WidthAssumption, RolloverInRing DEF TailBank, Bank
  <2>2. \A b \in Bank : local_tail[b] \in Index  BY DEF TypeOK
  <2>3. out' = [k \in 1 .. n |-> entry[TailBank(k - 1)][local_tail[TailBank(k - 1)]]]
    BY DEF Clock, calc_insts
  <2> HIDE DEF E
  <2>4. QED  BY <1>3, <2>1, <2>2, <2>3, WidthAssumption
<1>7. out' \in Seq(E) /\ Len(out') = n
  <2> HIDE DEF E
  <2>1. QED  BY <1>6, FunctionIsSeq, Zenon
<1>8. QED  BY <1>5, <1>7

LEMMA TypeStep ==
  ASSUME NEW insts, NEW results, NEW n, ClockStep(insts, results, n)
  PROVE  TypeOK'
<1>1. occupied' \in [Bank -> [Index -> BOOLEAN]] /\ ready' \in [Bank -> [Index -> BOOLEAN]]
  BY DEF ClockStep, Clock, row_flags
<1>2. local_head' \in [Bank -> Index]
  <2>1. \A b \in Bank : local_head'[b] \in Index  BY BankStep
  <2>2. QED  BY <2>1 DEF ClockStep, Clock, insert
<1>3. local_tail' \in [Bank -> Index]
  <2>1. \A b \in Bank : local_tail'[b] \in Index  BY BankStep
  <2>2. QED  BY <2>1 DEF ClockStep, Clock, calc_insts
<1>4. incoming' \in Seq([inst : Inst, tag : Tag]) /\ Len(incoming') \in 0 .. ISSUEWIDTH
  <2>1. insts \in Bundle /\ TypeOK /\ incoming' = IF ROB_BANK_DEPTH > 1 THEN Reserved(insts) ELSE <<>>
    BY DEF ClockStep, IInv, Clock
  <2>2. <<>> \in Seq([inst : Inst, tag : Tag]) /\ Len(<<>>) \in 0 .. ISSUEWIDTH
    BY WidthAssumption
  <2>3. QED  BY <2>1, <2>2, ReservedType, BundleLength
<1>5. rob_idx' \in Tag
  <2>1. Len(insts) \in 0 .. ROBDEPTH /\ rob_idx \in 0 .. ROBDEPTH - 1
    BY BundleLength, TagRange, WidthAssumption DEF ClockStep, IInv, TypeOK, Tag
  <2>2. rob_idx' = rollover_add(ROBDEPTH, rob_idx, Len(insts))
    BY DEF ClockStep, Clock, advance_issue_idx
  <2>3. QED  BY <2>1, <2>2, TagRange, RolloverInRing DEF Tag
<1>6. tail_out' \in Tag
  <2>1. tail_bank \in Bank /\ local_tail[tail_bank] \in Index
    BY DEF ClockStep, IInv, TypeOK
  <2>2. tail_out' = rob_id(tail_bank, local_tail[tail_bank])
    BY DEF ClockStep, Clock, calc_insts, tail_tag
  <2>3. QED  BY <2>1, <2>2, TagRange
<1>7. n \in 0 .. ISSUEWIDTH  BY DEF ClockStep
<1>8. QED
  <2>1. /\ entry' \in [Bank -> [Index -> [inst : Inst, tag : Tag]]]
        /\ out' \in Seq([inst : Inst, tag : Tag]) /\ Len(out') = n
    BY EntryStep
  <2>2. head_bank' \in Bank /\ tail_bank' \in Bank  BY BankPointersStep
  <2>3. QED  BY <1>1, <1>2, <1>3, <1>4, <1>5, <1>6, <1>7, <2>1, <2>2 DEF TypeOK

-----------------------------------------------------------------------------
(* The invariant of the pointers and rows is inductive.                       *)
THEOREM InvariantHolds == Spec => []IInv
<1>1. Init => IInv
  <2> SUFFICES ASSUME Init  PROVE IInv
    OBVIOUS
  <2> USE WidthAssumption, DepthAssumption DEF Init
  <2>1. TypeOK
    <3>1. NoEntry \in [inst : Inst, tag : Tag]  BY InstAssumption, TagRange DEF NoEntry, Tag
    <3>2. 0 \in Bank /\ 0 \in Index /\ 0 \in Tag  BY TagRange DEF Bank, Index, Tag
    <3>3. QED  BY <3>1, <3>2 DEF TypeOK
  <2>2. \A b \in Bank : Count(b) = 0
    BY DEF Count, Index
  <2>3. \A b \in Bank : Ring(b)
    BY <2>2 DEF Ring, Index, Distance
  <2>4. BalancedBy(0)
    <3>1. 0 \in Bank /\ FromTail(head_bank) = 0  BY DEF FromTail, Distance, Bank
    <3>2. \A b \in Bank : FromTail(b) \in Nat  BY DEF FromTail, Distance, Bank
    <3>3. QED  BY <2>2, <3>1, <3>2 DEF BalancedBy
  <2>5. RoomForIncoming  BY <2>2 DEF RoomForIncoming
  <2>6. QED  BY <2>1, <2>3, <2>4, <2>5 DEF IInv
<1>2. IInv /\ [Next]_vars => IInv'
  <2> SUFFICES ASSUME IInv, [Next]_vars  PROVE IInv'
    OBVIOUS
  <2>1. CASE Next
    <3>1. PICK insts \in Bundle, results \in SUBSET Awaited, n \in 0 .. ISSUEWIDTH :
            Len(insts) <= free /\ Clock(insts, results, n)
      BY <2>1 DEF Next, Cycle
    <3>2. ClockStep(insts, results, n)  BY <3>1 DEF ClockStep
    <3>3. ROB_BANK_DEPTH = 1 => incoming' = <<>>  BY <3>1 DEF Clock
    <3>4. QED  BY <3>2, <3>3, TypeStep, BankStep, BalanceStep, RoomStep DEF IInv
  <2>2. CASE UNCHANGED vars
    BY <2>2 DEF vars, IInv, TypeOK, Ring, Count, BalancedBy, RoomForIncoming, FromTail, FromHead
  <2>3. QED  BY <2>1, <2>2
<1>3. QED  BY <1>1, <1>2, PTL DEF Spec

(* Every register of the buffer keeps its range: no pointer leaves its ring.  *)
THEOREM TypeCorrect == Spec => []TypeOK
<1>1. IInv => TypeOK  BY DEF IInv
<1>2. QED  BY <1>1, InvariantHolds, PTL

(* No instruction is ever put into a full row, for any width and depth: the   *)
(* free count of the cycle before is enough.                                  *)
THEOREM NoOverflow == Spec => []NoEnqueueIntoFullCell
<1>1. IInv => NoEnqueueIntoFullCell
  <2> SUFFICES ASSUME IInv, NEW k \in 1 .. Len(incoming)
               PROVE  ~occupied[HeadBank(k - 1)][local_head[HeadBank(k - 1)]]
    BY DEF NoEnqueueIntoFullCell
  <2>1. /\ Len(incoming) \in 0 .. ISSUEWIDTH
        /\ head_bank \in 0 .. ISSUEWIDTH - 1
        /\ TypeOK
    BY DEF IInv, TypeOK, Bank
  <2>2. k - 1 \in 0 .. ISSUEWIDTH - 1  BY <2>1, WidthAssumption
  <2>3. HeadBank(k - 1) \in Bank
    <3>1. k - 1 \in 0 .. ISSUEWIDTH  BY <2>2, WidthAssumption
    <3>2. QED  BY <2>1, <3>1, WidthAssumption, RolloverInRing DEF HeadBank, Bank
  <2>4. FromHead(HeadBank(k - 1)) = k - 1
    BY <2>1, <2>2, WidthAssumption, DistanceOfRollover DEF HeadBank, FromHead
  <2>5. Count(HeadBank(k - 1)) < ROB_BANK_DEPTH
    BY <2>1, <2>3, <2>4 DEF IInv, RoomForIncoming
  <2>6. QED  BY <2>1, <2>3, <2>5, HeadRowEmpty DEF IInv
<1>2. QED  BY <1>1, InvariantHolds, PTL

(* No insertion overwrites an instruction that is still in its row, and the  *)
(* ready flag of the row's last occupant is gone.                             *)
THEOREM NothingOverwritten == Spec => RowsUndisturbed
<1> DEFINE Undisturbed(b, i) ==
      IF occupied[b][i] THEN entry'[b][i] = entry[b][i]
                        ELSE occupied'[b][i] => ~ready'[b][i]
<1>1. ASSUME IInv, Next, NEW b \in Bank, NEW i \in Index  PROVE Undisturbed(b, i)
  <2>1. PICK insts \in Bundle, results \in SUBSET Awaited, n \in 0 .. ISSUEWIDTH :
          Len(insts) <= free /\ Clock(insts, results, n)
    BY <1>1 DEF Next, Cycle
  <2>2. CASE occupied[b][i]
    <3>1. ASSUME Gets(b, Arriving(insts))  PROVE ~occupied[b][local_head[b]]
      <4>1. Count(b) < ROB_BANK_DEPTH
        BY <1>1, <2>1, <3>1, ArrivalsFit, GetsFromHead DEF IInv
      <4>2. QED  BY <1>1, <4>1, HeadRowEmpty DEF IInv
    <3>2. QED  BY <2>1, <2>2, <3>1 DEF Clock, insert
  <2>3. CASE ~occupied[b][i]
    <3>1. occupied'[b][i] => Gets(b, Arriving(insts)) /\ i = local_head[b]
      BY <2>1, <2>3 DEF Clock, row_flags
    <3>2. Gets(b, Arriving(insts)) /\ i = local_head[b] => ~ready'[b][i]
      BY <2>1 DEF Clock, row_flags
    <3>3. QED  BY <2>3, <3>1, <3>2
  <2>4. QED  BY <2>2, <2>3
<1>2. IInv /\ [Next]_vars => [\A b \in Bank, i \in Index : Undisturbed(b, i)]_vars
  BY <1>1
<1>3. QED  BY <1>2, InvariantHolds, PTL DEF Spec, RowsUndisturbed

-----------------------------------------------------------------------------
(***************************************************************************)
(* The tags of the reorder buffer.                                         *)
(*                                                                         *)
(* Issue counts instructions, the buffer moves one pointer per bank; they  *)
(* never compare notes.  The invariant is that both walk the same ring:    *)
(* the banks from head_bank on have the same head row, the banks before it *)
(* are one row ahead, and the place this gives for the next insertion is   *)
(* where the counter is, less what is in the register on the way.          *)
(***************************************************************************)
(* The id of the row of the next insertion, and the k-th id from there on.   *)
HeadPlace == rob_id(head_bank, local_head[head_bank])
Place(k)  == rollover_add(ROBDEPTH, HeadPlace, k)

(* From bank f on the rows p are the same, the banks before it are one ahead. *)
InStep(f, p) == \A b \in Bank : p[b] = IF b >= f THEN p[f] ELSE NextRow(p[f])

HeadsInStep == InStep(head_bank, local_head)

TagInv ==
  /\ HeadsInStep
  /\ rob_idx = Place(Len(incoming))
  /\ \A k \in 1 .. Len(incoming) : incoming[k].tag = Place(k - 1)
  /\ TagNamesRow
  /\ IF out = <<>> THEN tail_out = tail_tag ELSE out[1].tag = tail_out

-----------------------------------------------------------------------------
(* The first id of the rows i of all banks, and of the rows after them.      *)
LEMMA RowIds ==
  ASSUME NEW i \in Index
  PROVE  /\ ISSUEWIDTH * i \in Nat /\ ISSUEWIDTH * i + ISSUEWIDTH <= ROBDEPTH
         /\ NextRow(i) \in Index /\ ISSUEWIDTH * NextRow(i) + ISSUEWIDTH <= ROBDEPTH
         /\ ISSUEWIDTH * NextRow(i) = IF ISSUEWIDTH * i + ISSUEWIDTH = ROBDEPTH THEN 0
                                      ELSE ISSUEWIDTH * i + ISSUEWIDTH
<1> USE WidthAssumption, DepthAssumption
<1>1. \A w, d \in Nat \ {0}, k \in Nat :
        /\ w * k \in Nat /\ w * (k + 1) = w * k + w /\ w * 0 = 0
        /\ k + 1 < d => w * k + w < w * d
        /\ k + 1 = d => w * k + w = w * d
  <2>1. \A w, d \in Nat \ {0}, k \in Nat : w * k \in Nat /\ w * (k + 1) = w * k + w /\ w * 0 = 0
    BY Z3
  <2>2. \A w, d \in Nat \ {0}, k \in Nat : k + 1 < d => w * (k + 1) < w * d  BY Z3
  <2>3. QED  BY <2>1, <2>2
<1>2. i \in 0 .. ROB_BANK_DEPTH - 1  BY DEF Index
<1>3. /\ ISSUEWIDTH * i \in Nat /\ ISSUEWIDTH * (i + 1) = ISSUEWIDTH * i + ISSUEWIDTH
      /\ ISSUEWIDTH * 0 = 0
      /\ i + 1 < ROB_BANK_DEPTH => ISSUEWIDTH * i + ISSUEWIDTH < ROBDEPTH
      /\ i + 1 = ROB_BANK_DEPTH => ISSUEWIDTH * i + ISSUEWIDTH = ROBDEPTH
  BY <1>1, <1>2 DEF ROBDEPTH
<1>4. NextRow(i) = IF i + 1 = ROB_BANK_DEPTH THEN 0 ELSE i + 1
  BY <1>2 DEF NextRow, rollover_add
<1>5. NextRow(i) \in Index  BY <1>2, <1>4 DEF Index
<1>6. \A j \in Index : ISSUEWIDTH * j + ISSUEWIDTH <= ROBDEPTH
  <2>1. \A w, d \in Nat \ {0}, k \in Nat : k + 1 <= d => w * k + w <= w * d
    <3>1. \A w, d \in Nat \ {0}, k \in Nat : k + 1 < d => w * k + w < w * d  BY <1>1
    <3>2. QED  BY <1>1, <3>1
  <2>2. QED  BY <2>1 DEF Index, ROBDEPTH
<1>7. CASE i + 1 = ROB_BANK_DEPTH  BY <1>2, <1>3, <1>4, <1>5, <1>6, <1>7
<1>8. CASE i + 1 < ROB_BANK_DEPTH
  <2>1. NextRow(i) = i + 1  BY <1>2, <1>4, <1>8
  <2>2. ISSUEWIDTH * NextRow(i) = ISSUEWIDTH * i + ISSUEWIDTH  BY <1>3, <2>1
  <2>3. ISSUEWIDTH * i + ISSUEWIDTH < ROBDEPTH  BY <1>3, <1>8
  <2>4. ROBDEPTH \in Nat  BY TagRange
  <2> DEFINE x == ISSUEWIDTH * i
             y == ISSUEWIDTH * NextRow(i)
  <2>5. y = x + ISSUEWIDTH /\ x + ISSUEWIDTH < ROBDEPTH /\ x \in Nat  BY <1>3, <2>2, <2>3
  <2>6. y + ISSUEWIDTH <= ROBDEPTH  BY <1>5, <1>6
  <2> HIDE DEF x, y
  <2>7. y = IF x + ISSUEWIDTH = ROBDEPTH THEN 0 ELSE x + ISSUEWIDTH
    BY <2>4, <2>5
  <2>8. x + ISSUEWIDTH <= ROBDEPTH  BY <2>4, <2>5
  <2>9. QED  BY <1>5, <2>5, <2>6, <2>7, <2>8 DEF x, y
<1>9. QED  BY <1>2, <1>7, <1>8

(* Ids name one row each.                                                    *)
LEMMA RowOfId ==
  /\ \A b, c \in Bank, i, j \in Index : rob_id(b, i) = rob_id(c, j) => b = c /\ i = j
  /\ \A t \in Tag : /\ t % ISSUEWIDTH \in Bank /\ t \div ISSUEWIDTH \in Index
                    /\ rob_id(t % ISSUEWIDTH, t \div ISSUEWIDTH) = t
<1> USE WidthAssumption, DepthAssumption
<1>1. \A w \in Nat \ {0}, x, y \in Nat : x < y => w * x + w <= w * y
  <2>1. \A w \in Nat \ {0}, x \in Nat : w * x \in Nat /\ w * (x + 1) = w * x + w  BY Z3
  <2>2. \A w \in Nat \ {0}, x, y \in Nat : x <= y => w * x <= w * y  BY Z3
  <2>3. SUFFICES ASSUME NEW w \in Nat \ {0}, NEW x \in Nat, NEW y \in Nat, x < y
                 PROVE  w * x + w <= w * y
    OBVIOUS
  <2>4. x + 1 <= y /\ x + 1 \in Nat  BY <2>3
  <2>5. w * (x + 1) <= w * y  BY <2>2, <2>4
  <2>6. QED  BY <2>1, <2>5
<1>2. ASSUME NEW b \in Bank, NEW c \in Bank, NEW i \in Index, NEW j \in Index,
             rob_id(b, i) = rob_id(c, j)
      PROVE  b = c /\ i = j
  <2>1. i \in Nat /\ j \in Nat /\ b \in 0 .. ISSUEWIDTH - 1 /\ c \in 0 .. ISSUEWIDTH - 1
    BY DEF Index, Bank
  <2> DEFINE x == ISSUEWIDTH * i
             y == ISSUEWIDTH * j
  <2>2. /\ b + x = c + y /\ x \in Nat /\ y \in Nat
        /\ (i < j => x + ISSUEWIDTH <= y) /\ (j < i => y + ISSUEWIDTH <= x)
    <3>1. x \in Nat /\ y \in Nat  BY <2>1, RowIds
    <3>2. (i < j => x + ISSUEWIDTH <= y) /\ (j < i => y + ISSUEWIDTH <= x)  BY <1>1, <2>1
    <3>3. QED  BY <1>2, <3>1, <3>2 DEF rob_id
  <2>3. i = j => x = y  OBVIOUS
  <2> HIDE DEF x, y
  <2>4. i = j  BY <2>1, <2>2
  <2>5. QED  BY <2>1, <2>2, <2>3, <2>4
<1>3. ASSUME NEW t \in Tag
      PROVE  /\ t % ISSUEWIDTH \in Bank /\ t \div ISSUEWIDTH \in Index
             /\ rob_id(t % ISSUEWIDTH, t \div ISSUEWIDTH) = t
  <2> DEFINE r == t % ISSUEWIDTH
             m == t \div ISSUEWIDTH
  <2>1. t \in Nat /\ t < ISSUEWIDTH * ROB_BANK_DEPTH  BY TagRange DEF Tag, ROBDEPTH
  <2>2. \A x \in Nat, w \in Nat \ {0} :
          x % w \in 0 .. w - 1 /\ x \div w \in Nat /\ x = (x % w) + w * (x \div w)
    BY Z3
  <2>3. r \in 0 .. ISSUEWIDTH - 1 /\ m \in Nat /\ t = r + ISSUEWIDTH * m  BY <2>1, <2>2
  <2> HIDE DEF r, m
  <2>4. m < ROB_BANK_DEPTH
    <3>1. SUFFICES ASSUME ROB_BANK_DEPTH <= m PROVE FALSE  BY <2>3
    <3>2. \A w, x, y \in Nat : x <= y => w * x \in Nat /\ w * y \in Nat /\ w * x <= w * y  BY Z3
    <3> DEFINE u == ISSUEWIDTH * ROB_BANK_DEPTH
               v == ISSUEWIDTH * m
    <3>3. u \in Nat /\ v \in Nat /\ u <= v  BY <2>3, <3>1, <3>2
    <3>4. t < u /\ t = r + v  BY <2>1, <2>3
    <3> HIDE DEF u, v
    <3>5. QED  BY <2>3, <3>3, <3>4
  <2>5. QED  BY <2>3, <2>4 DEF Bank, Index, rob_id, r, m
<1>4. QED  BY <1>2, <1>3

(* Pointers in step: the k-th of them from bank f on is at the k-th id.      *)
LEMMA WalkPlace ==
  ASSUME NEW f \in Bank, NEW p \in [Bank -> Index], InStep(f, p), NEW k \in 0 .. ISSUEWIDTH - 1
  PROVE  LET b == rollover_add(ISSUEWIDTH, f, k)
         IN  b \in Bank /\ rollover_add(ROBDEPTH, rob_id(f, p[f]), k) = rob_id(b, p[b])
<1> DEFINE W == ISSUEWIDTH
           i == p[f]
           b == rollover_add(ISSUEWIDTH, f, k)
           place == rollover_add(ROBDEPTH, rob_id(f, i), k)
<1>1. W \in Nat \ {0} /\ f \in 0 .. W - 1 /\ i \in Index
  BY WidthAssumption DEF Bank
<1>2. b = IF f + k >= W THEN f + k - W ELSE f + k  BY DEF rollover_add
<1>3. b \in Bank  BY <1>1, <1>2 DEF Bank
<1>4. p[b] = IF b >= f THEN i ELSE NextRow(i)  BY <1>3 DEF InStep
<1>5. /\ W * i \in Nat /\ W * i + W <= ROBDEPTH /\ W * NextRow(i) + W <= ROBDEPTH
      /\ W * NextRow(i) = IF W * i + W = ROBDEPTH THEN 0 ELSE W * i + W
  BY <1>1, RowIds
<1>6. ROBDEPTH \in Nat  BY TagRange
<1>7. place = IF f + W * i + k >= ROBDEPTH THEN f + W * i + k - ROBDEPTH ELSE f + W * i + k
  BY DEF rob_id, rollover_add
<1> DEFINE x == W * i
           y == W * NextRow(i)
<1>8. rob_id(b, p[b]) = b + (IF b >= f THEN x ELSE y)  BY <1>4 DEF rob_id
<1>9. x \in Nat /\ x + W <= ROBDEPTH /\ y + W <= ROBDEPTH /\ y = IF x + W = ROBDEPTH THEN 0 ELSE x + W
  BY <1>5
<1>10. place = IF f + x + k >= ROBDEPTH THEN f + x + k - ROBDEPTH ELSE f + x + k
  BY <1>7
<1> HIDE DEF W, i, b, x, y, place
<1>11. place = b + (IF b >= f THEN x ELSE y)
  <2>0. k \in 0 .. W - 1  BY DEF W
  <2>1. CASE f + k >= W
    <3>1. b = f + k - W /\ ~(b >= f)  BY <1>1, <1>2, <2>0, <2>1
    <3>2. QED  BY <1>1, <1>6, <1>9, <1>10, <2>0, <2>1, <3>1
  <2>2. CASE ~(f + k >= W)
    <3>1. b = f + k /\ b >= f  BY <1>1, <1>2, <2>0, <2>2
    <3>2. QED  BY <1>1, <1>6, <1>9, <1>10, <2>0, <2>2, <3>1
  <2>3. QED  BY <2>1, <2>2
<1>12. QED  BY <1>3, <1>8, <1>11 DEF b, place, i

(* m of them move on, the first ones: they stay in step, m ids further.      *)
LEMMA WalkStep ==
  ASSUME NEW f \in Bank, NEW p \in [Bank -> Index], InStep(f, p),
         NEW m \in 0 .. ISSUEWIDTH, NEW g, NEW q,
         g = rollover_add(ISSUEWIDTH, f, m),
         \A b \in Bank : q[b] = IF Distance(ISSUEWIDTH, f, b) < m THEN NextRow(p[b]) ELSE p[b]
  PROVE  InStep(g, q) /\ rob_id(g, q[g]) = rollover_add(ROBDEPTH, rob_id(f, p[f]), m)
<1> DEFINE W == ISSUEWIDTH
           i == p[f]
<1>1. W \in Nat \ {0} /\ f \in 0 .. W - 1 /\ i \in Index /\ m \in 0 .. W
  BY WidthAssumption DEF Bank
<1>2. g \in 0 .. W - 1 /\ g = IF f + m >= W THEN f + m - W ELSE f + m
  BY <1>1 DEF rollover_add
<1>3. \A b \in 0 .. W - 1 : /\ Distance(W, f, b) = (IF b >= f THEN b - f ELSE b + W - f)
                             /\ p[b] = (IF b >= f THEN i ELSE NextRow(i))
                             /\ q[b] = IF Distance(W, f, b) < m THEN NextRow(p[b]) ELSE p[b]
  BY DEF Distance, InStep, Bank
<1>4. \A b \in 0 .. W - 1 :
        q[b] = IF b >= f
               THEN IF b - f < m THEN NextRow(i) ELSE i
               ELSE IF b + W - f < m THEN NextRow(NextRow(i)) ELSE NextRow(i)
  <2> HIDE DEF i, W
  <2>1. QED  BY <1>1, <1>3
<1>5. CASE m = W
  <2>1. g = f  BY <1>1, <1>2, <1>5
  <2>2. q[g] = NextRow(i)  BY <1>1, <1>4, <1>5, <2>1
  <2>3. \A b \in 0 .. W - 1 : q[b] = IF b >= g THEN NextRow(i) ELSE NextRow(NextRow(i))
    BY <1>1, <1>4, <1>5, <2>1
  <2>4. InStep(g, q)  BY <2>2, <2>3 DEF InStep, Bank
  <2> DEFINE x == W * i
             y == W * NextRow(i)
             place == rollover_add(ROBDEPTH, rob_id(f, i), m)
  <2>5. rob_id(g, q[g]) = f + y  BY <2>1, <2>2 DEF rob_id
  <2>6. x \in Nat /\ x + W <= ROBDEPTH /\ y + W <= ROBDEPTH /\ y = IF x + W = ROBDEPTH THEN 0 ELSE x + W
    BY <1>1, RowIds
  <2>7. place = IF f + x + m >= ROBDEPTH THEN f + x + m - ROBDEPTH ELSE f + x + m
    BY DEF rob_id, rollover_add
  <2> HIDE DEF x, y, W, place
  <2>8. f + y = place  BY <1>1, <1>5, <2>6, <2>7, TagRange
  <2>9. QED  BY <2>4, <2>5, <2>8 DEF place
<1>6. CASE m < W
  <2>1. q[g] = p[g] /\ p[g] = IF g >= f THEN i ELSE NextRow(i)
    BY <1>1, <1>2, <1>3, <1>6
  <2>2. \A b \in 0 .. W - 1 : q[b] = IF b >= g THEN q[g] ELSE NextRow(q[g])
    <3> HIDE DEF i, W
    <3>1. CASE f + m >= W
      <4>1. g = f + m - W /\ ~(g >= f) /\ q[g] = NextRow(i)
        BY <1>1, <1>2, <1>6, <2>1, <3>1
      <4>2. QED  BY <1>1, <1>4, <3>1, <4>1
    <3>2. CASE ~(f + m >= W)
      <4>1. g = f + m /\ g >= f /\ q[g] = i
        BY <1>1, <1>2, <1>6, <2>1, <3>2
      <4>2. QED  BY <1>1, <1>4, <3>2, <4>1
    <3>3. QED  BY <3>1, <3>2
  <2>3. InStep(g, q)  BY <2>2 DEF InStep, Bank
  <2>4. m \in 0 .. W - 1  BY <1>1, <1>6
  <2>5. rollover_add(ROBDEPTH, rob_id(f, p[f]), m) = rob_id(g, p[g])  BY <2>4, WalkPlace
  <2>6. rob_id(g, q[g]) = rob_id(g, p[g])  BY <2>1 DEF rob_id
  <2>7. QED  BY <2>3, <2>5, <2>6
<1>7. QED  BY <1>1, <1>5, <1>6

(* The k-th insertion from the head on goes to the k-th bank, into the row   *)
(* with the k-th id.                                                         *)
LEMMA PlaceOfBank ==
  ASSUME TypeOK, HeadsInStep, NEW k \in 0 .. ISSUEWIDTH - 1
  PROVE  /\ HeadBank(k) \in Bank
         /\ Place(k) = rob_id(HeadBank(k), local_head[HeadBank(k)])
<1>1. head_bank \in Bank /\ local_head \in [Bank -> Index]  BY DEF TypeOK
<1>2. QED  BY <1>1, WalkPlace DEF HeadsInStep, Place, HeadPlace, HeadBank

(* The head after a cycle: as many places on as instructions arrived.        *)
LEMMA HeadStep ==
  ASSUME NEW insts, NEW results, NEW n, ClockStep(insts, results, n), HeadsInStep
  PROVE  HeadsInStep' /\ HeadPlace' = Place(Len(Arriving(insts)))
<1> DEFINE m == Len(Arriving(insts))
<1>1. TypeOK /\ m \in 0 .. ISSUEWIDTH /\ head_bank \in Bank /\ local_head \in [Bank -> Index]
  BY ArrivalsFit DEF ClockStep, IInv, TypeOK
<1>2. head_bank' = rollover_add(ISSUEWIDTH, head_bank, m)  BY BankPointersStep
<1>3. \A b \in Bank : local_head'[b] = IF Distance(ISSUEWIDTH, head_bank, b) < m
                                        THEN NextRow(local_head[b]) ELSE local_head[b]
  <2>1. \A b \in Bank : Gets(b, Arriving(insts)) <=> FromHead(b) < m  BY <1>1, GetsFromHead
  <2>2. QED  BY <2>1 DEF ClockStep, Clock, insert, FromHead
<1> HIDE DEF m
<1>4. /\ InStep(head_bank', local_head')
      /\ rob_id(head_bank', local_head'[head_bank'])
           = rollover_add(ROBDEPTH, rob_id(head_bank, local_head[head_bank]), m)
  BY <1>1, <1>2, <1>3, WalkStep DEF HeadsInStep
<1>5. HeadsInStep'  BY <1>4 DEF HeadsInStep, InStep
<1>6. HeadPlace' = Place(m)  BY <1>4 DEF HeadPlace, Place, rob_id, rollover_add
<1>7. QED  BY <1>5, <1>6 DEF m

-----------------------------------------------------------------------------
(* What arrives carries the ids of the rows it goes to; the counter names    *)
(* the place after it.                                                       *)
LEMMA ArrivalTags ==
  ASSUME NEW insts, NEW results, NEW n, ClockStep(insts, results, n), TagInv
  PROVE  /\ \A k \in 1 .. Len(Arriving(insts)) : Arriving(insts)[k].tag = Place(k - 1)
         /\ rob_idx' = Place(Len(incoming))'
         /\ \A k \in 1 .. Len(incoming') : incoming'[k].tag = Place(k - 1)'
<1> USE DEF ClockStep, IInv
<1>1. HeadPlace \in 0 .. ROBDEPTH - 1 /\ ROBDEPTH \in Nat
  BY TagRange DEF TypeOK, HeadPlace, Tag
<1>2. HeadPlace' = Place(Len(Arriving(insts)))  BY HeadStep DEF TagInv
<1>3. /\ rob_idx' = rollover_add(ROBDEPTH, rob_idx, Len(insts))
      /\ incoming' = IF ROB_BANK_DEPTH > 1 THEN Reserved(insts) ELSE <<>>
  BY DEF Clock, advance_issue_idx
<1>4. /\ Len(Reserved(insts)) = Len(insts)
      /\ \A k \in 1 .. Len(insts) : Reserved(insts)[k].tag = rollover_add(ROBDEPTH, rob_idx, k - 1)
  BY ReservedType DEF Reserved, generate_tag
<1>5. /\ \A k : Place(k) = rollover_add(ROBDEPTH, HeadPlace, k)
      /\ \A k : Place(k)' = rollover_add(ROBDEPTH, HeadPlace', k)
      /\ Place(Len(incoming))' = rollover_add(ROBDEPTH, HeadPlace', Len(incoming'))
  BY DEF Place, rollover_add
<1>6. CASE ROB_BANK_DEPTH > 1
  <2>1. Arriving(insts) = incoming /\ incoming' = Reserved(insts)  BY <1>3, <1>6 DEF Arriving
  <2>2. rob_idx = HeadPlace'  BY <1>2, <2>1 DEF TagInv
  <2>3. QED  BY <1>3, <1>4, <1>5, <2>1, <2>2 DEF TagInv
<1>7. CASE ROB_BANK_DEPTH = 1
  <2>1. Arriving(insts) = Reserved(insts) /\ incoming' = <<>> /\ incoming = <<>>
    BY <1>3, <1>7 DEF Arriving
  <2>2. Len(incoming) = 0 /\ Len(incoming') = 0  BY <2>1
  <2>3. rollover_add(ROBDEPTH, HeadPlace, 0) = HeadPlace  BY <1>1 DEF rollover_add
  <2>4. rob_idx = HeadPlace  BY <1>5, <2>2, <2>3 DEF TagInv
  <2>5. rob_idx' = HeadPlace'  BY <1>2, <1>3, <1>4, <1>5, <2>1, <2>4
  <2>6. rob_idx' \in 0 .. ROBDEPTH - 1  BY TypeStep DEF TypeOK, Tag
  <2>7. rollover_add(ROBDEPTH, HeadPlace', 0) = HeadPlace'
    <3>1. \A p \in 0 .. ROBDEPTH - 1 : rollover_add(ROBDEPTH, p, 0) = p
      BY <1>1 DEF rollover_add
    <3>2. QED  BY <2>5, <2>6, <3>1
  <2>8. rob_idx' = Place(Len(incoming))'  BY <1>5, <2>2, <2>5, <2>7
  <2>9. QED  BY <1>4, <1>5, <2>1, <2>2, <2>4, <2>8
<1>8. QED  BY <1>6, <1>7, DepthAssumption

(* The rows keep the tags that name them.                                    *)
LEMMA RowTagStep ==
  ASSUME NEW insts, NEW results, NEW n, ClockStep(insts, results, n), TagInv
  PROVE  TagNamesRow'
<1> DEFINE A == Arriving(insts)
           pick(b) == CHOOSE k \in 1 .. Len(A) : b = HeadBank(k - 1)
<1>1. SUFFICES ASSUME NEW b \in Bank, NEW i \in Index, occupied'[b][i]
               PROVE  entry'[b][i].tag = rob_id(b, i)
  BY DEF TagNamesRow, rob_id
<1>2. /\ (Gets(b, A) /\ i = local_head[b]) \/ occupied[b][i]
      /\ entry'[b][i] = IF Gets(b, A) /\ i = local_head[b] THEN A[pick(b)] ELSE entry[b][i]
  BY <1>1 DEF ClockStep, Clock, row_flags, insert
<1>3. CASE Gets(b, A) /\ i = local_head[b]
  <2>1. pick(b) \in 1 .. Len(A) /\ b = HeadBank(pick(b) - 1)  BY <1>3 DEF Gets
  <2>2. A[pick(b)].tag = Place(pick(b) - 1)  BY <2>1, ArrivalTags
  <2>3. pick(b) - 1 \in 0 .. ISSUEWIDTH - 1
    <3>1. Len(A) \in 0 .. ISSUEWIDTH  BY ArrivalsFit DEF ClockStep
    <3> HIDE DEF A, pick
    <3>2. QED  BY <2>1, <3>1, WidthAssumption
  <2> DEFINE k == pick(b) - 1
  <2>4. k \in 0 .. ISSUEWIDTH - 1 /\ HeadBank(k) = b  BY <2>1, <2>3
  <2> HIDE DEF k
  <2>5. Place(k) = rob_id(b, local_head[b])
    BY <2>4, PlaceOfBank DEF ClockStep, IInv, TagInv
  <2>6. QED  BY <1>2, <1>3, <2>2, <2>5 DEF k
<1>4. CASE ~(Gets(b, A) /\ i = local_head[b])
  BY <1>2, <1>4 DEF TagInv, TagNamesRow
<1>5. QED  BY <1>3, <1>4

(* tail_out goes with what was handed to commit.                             *)
LEMMA TailOutStep ==
  ASSUME NEW insts, NEW results, NEW n, ClockStep(insts, results, n), TagInv
  PROVE  IF out' = <<>> THEN tail_out' = tail_tag' ELSE out'[1].tag = tail_out'
<1>1. /\ n \in 0 .. ISSUEWIDTH /\ tail_bank \in Bank /\ ISSUEWIDTH \in Nat \ {0}
      /\ local_tail[tail_bank] \in Index
  BY WidthAssumption DEF ClockStep, IInv, TypeOK
<1>2. TailBank(0) = tail_bank  BY <1>1 DEF TailBank, rollover_add, Bank
<1>3. tail_out' = tail_tag  BY DEF ClockStep, Clock, calc_insts
<1>4. out' = [k \in 1 .. n |-> entry[TailBank(k - 1)][local_tail[TailBank(k - 1)]]] /\ Len(out') = n
  BY EntryStep DEF ClockStep, Clock, calc_insts
<1>5. CASE n = 0
  <2>1. out' = <<>>  BY <1>4, <1>5
  <2>2. tail_bank' = tail_bank  BY <1>2, <1>5 DEF ClockStep, Clock, calc_insts
  <2>3. ~Leaves(tail_bank, 0)  BY DEF Leaves
  <2>4. local_tail'[tail_bank] = local_tail[tail_bank]
    BY <1>1, <1>5, <2>3 DEF ClockStep, Clock, calc_insts
  <2>5. tail_tag' = tail_tag  BY <2>2, <2>4 DEF tail_tag, rob_id
  <2>6. QED  BY <1>3, <2>1, <2>5
<1>6. CASE n > 0
  <2>1. out' # <<>>  BY <1>1, <1>4, <1>6
  <2>2. out'[1] = entry[tail_bank][local_tail[tail_bank]]  BY <1>1, <1>2, <1>4, <1>6
  <2>3. ready_deq(tail_bank)
    <3>1. 0 \in 0 .. n - 1  BY <1>1, <1>6
    <3>2. QED  BY <1>2, <3>1 DEF ClockStep, Clock, amt_current
  <2>4. occupied[tail_bank][local_tail[tail_bank]]  BY <2>3 DEF ready_deq
  <2>5. out'[1].tag = tail_tag  BY <1>1, <2>2, <2>4 DEF TagInv, TagNamesRow, tail_tag
  <2>6. QED  BY <1>3, <2>1, <2>5
<1>7. QED  BY <1>1, <1>5, <1>6

(* Counter and pointers walk the same ring for ever.                         *)
THEOREM CounterInStep == Spec => []TagInv
<1>1. Init => TagInv
  <2> SUFFICES ASSUME Init PROVE TagInv  OBVIOUS
  <2> USE WidthAssumption, DepthAssumption DEF Init
  <2>1. HeadsInStep  BY DEF HeadsInStep, InStep, Bank
  <2>2. 0 \in Bank /\ ISSUEWIDTH * 0 = 0 /\ ROBDEPTH \in Nat \ {0}  BY TagRange DEF Bank
  <2>3. HeadPlace = 0 /\ tail_tag = 0  BY <2>2 DEF HeadPlace, tail_tag, rob_id
  <2>4. Place(0) = 0  BY <2>2, <2>3 DEF Place, rollover_add
  <2>5. Len(incoming) = 0  OBVIOUS
  <2>6. rob_idx = Place(Len(incoming))  BY <2>4, <2>5
  <2>7. TagNamesRow  BY DEF TagNamesRow
  <2>8. QED  BY <2>1, <2>3, <2>5, <2>6, <2>7 DEF TagInv
<1>2. IInv /\ TagInv /\ [Next]_vars => TagInv'
  <2> SUFFICES ASSUME IInv, TagInv, [Next]_vars PROVE TagInv'  OBVIOUS
  <2>1. CASE Next
    <3>1. PICK insts \in Bundle, results \in SUBSET Awaited, n \in 0 .. ISSUEWIDTH :
            Len(insts) <= free /\ Clock(insts, results, n)
      BY <2>1 DEF Next, Cycle
    <3>2. ClockStep(insts, results, n)  BY <3>1 DEF ClockStep
    <3>3. HeadsInStep'  BY <3>2, HeadStep DEF TagInv
    <3>4. QED  BY <3>2, <3>3, ArrivalTags, RowTagStep, TailOutStep DEF TagInv
  <2>2. CASE UNCHANGED vars
    BY <2>2 DEF vars, TagInv, HeadsInStep, InStep, Place, HeadPlace, TagNamesRow, tail_tag, rob_id
  <2>3. QED  BY <2>1, <2>2
<1>3. QED  BY <1>1, <1>2, InvariantHolds, PTL DEF Spec

(* A result finds the row of the instruction it belongs to: the tag given at *)
(* issue is the fixed id of the row.                                         *)
THEOREM RowsHaveTheirTags == Spec => []TagNamesRow
<1>1. TagInv => TagNamesRow  BY DEF TagInv
<1>2. QED  BY <1>1, CounterInStep, PTL

(* The index by which accesses with side effects are held back names the     *)
(* oldest instruction that commit has not consumed, with and without the     *)
(* register behind the buffer.                                               *)
THEOREM IndexNamesOldest == Spec => []HeadIsOldestUncommitted
<1>1. ASSUME IInv, TagInv PROVE HeadIsOldestUncommitted
  <2>1. /\ TypeOK /\ tail_bank \in 0 .. ISSUEWIDTH - 1 /\ ISSUEWIDTH \in Nat \ {0}
        /\ local_tail[tail_bank] \in 0 .. ROB_BANK_DEPTH - 1 /\ ROB_BANK_DEPTH \in Nat \ {0}
        /\ tail_bank \in Bank /\ local_tail[tail_bank] \in Index
    BY <1>1, WidthAssumption, DepthAssumption DEF IInv, TypeOK, Bank, Index
  <2>2. Occupancy \in Nat /\ (Occupancy # 0 => occupied[tail_bank][local_tail[tail_bank]])
    <3> DEFINE R == {r \in Bank \X Index : occupied[r[1]][r[2]]}
    <3>1. IsFiniteSet(R) /\ Cardinality(R) \in Nat
      <4>1. IsFiniteSet(Bank) /\ IsFiniteSet(Index)
        BY WidthAssumption, DepthAssumption, FS_Interval DEF Bank, Index
      <4>2. IsFiniteSet(Bank \X Index)  BY <4>1, FS_Product
      <4>3. QED  BY <4>2, FS_Subset, FS_CardinalityType
    <3>2. ASSUME R # {} PROVE occupied[tail_bank][local_tail[tail_bank]]
      <4>1. PICK b \in Bank, i \in Index : occupied[b][i]  BY <3>2
      <4>2. PICK q \in 0 .. ROB_BANK_DEPTH : BalancedBy(q)  BY <1>1 DEF IInv
      <4>3. Count(b) > 0
        <5>1. Distance(ROB_BANK_DEPTH, local_tail[b], i) < Count(b)
          BY <1>1, <4>1 DEF IInv, Ring
        <5>2. Distance(ROB_BANK_DEPTH, local_tail[b], i) \in Nat
          BY <2>1, PointersInIndex DEF Distance, Index
        <5>3. QED  BY <2>1, <5>1, <5>2, CountRange
      <4>4. Count(tail_bank) > 0
        <5>1. FromTail(tail_bank) = 0 /\ FromTail(head_bank) \in Nat /\ FromTail(b) \in Nat
          BY <2>1 DEF FromTail, Distance, TypeOK, Bank
        <5>2. QED  BY <2>1, <4>2, <4>3, <5>1 DEF BalancedBy
      <4>5. Distance(ROB_BANK_DEPTH, local_tail[tail_bank], local_tail[tail_bank]) = 0
        BY <2>1 DEF Distance
      <4>6. QED  BY <1>1, <2>1, <4>4, <4>5 DEF IInv, Ring
    <3>3. R = {} => Cardinality(R) = 0  BY FS_EmptySet
    <3>4. QED  BY <3>1, <3>2, <3>3 DEF Occupancy
  <2>3. ASSUME Held # <<>> PROVE Held[1].tag = tail_tag
    <3>1. Occupancy # 0  BY <2>3 DEF Held
    <3>2. RowFromTail(0) = <<tail_bank, local_tail[tail_bank]>>
      <4>1. tail_tag \in 0 .. ROBDEPTH - 1 /\ ROBDEPTH \in Nat \ {0}
        BY <2>1, TagRange DEF tail_tag, Tag
      <4>2. rollover_add(ROBDEPTH, tail_tag, 0) = tail_tag  BY <4>1 DEF rollover_add
      <4>3. /\ tail_tag % ISSUEWIDTH \in Bank /\ tail_tag \div ISSUEWIDTH \in Index
            /\ rob_id(tail_tag % ISSUEWIDTH, tail_tag \div ISSUEWIDTH)
                 = rob_id(tail_bank, local_tail[tail_bank])
        BY <4>1, RowOfId DEF Tag, tail_tag
      <4>4. tail_tag % ISSUEWIDTH = tail_bank /\ tail_tag \div ISSUEWIDTH = local_tail[tail_bank]
        <5>1. ASSUME NEW b \in Bank, NEW i \in Index, rob_id(b, i) = rob_id(tail_bank, local_tail[tail_bank])
              PROVE  b = tail_bank /\ i = local_tail[tail_bank]
          BY <2>1, <5>1, RowOfId
        <5>2. QED  BY <4>3, <5>1
      <4>5. QED  BY <4>2, <4>4 DEF RowFromTail
    <3>3. Held[1].tag = entry[tail_bank][local_tail[tail_bank]].tag
      <4>1. 1 \in 1 .. Occupancy /\ 1 - 1 = 0  BY <2>2, <3>1
      <4>2. QED  BY <3>2, <4>1 DEF Held
    <3>4. QED  BY <1>1, <2>1, <2>2, <3>1, <3>3 DEF TagInv, TagNamesRow, tail_tag
  <2>4. CASE ~ROB_LATCH_OUTPUT
    BY <2>3, <2>4 DEF HeadIsOldestUncommitted, Uncommitted, current_tail_idx
  <2>5. CASE ROB_LATCH_OUTPUT
    <3>1. current_tail_idx = tail_out /\ Uncommitted = out \o Held
      BY <2>5 DEF current_tail_idx, Uncommitted
    <3>2. out \in Seq([inst : Inst, tag : Tag]) /\ Len(Held) = Occupancy
      BY <1>1, <2>2 DEF IInv, TypeOK, Held
    <3>3. CASE out = <<>>
      <4>1. out \o Held = Held  BY <2>2, <3>3 DEF Held
      <4>2. QED  BY <1>1, <2>3, <3>1, <3>3, <4>1 DEF TagInv, HeadIsOldestUncommitted
    <3>4. CASE out # <<>>
      <4>1. Len(out) > 0  BY <3>2, <3>4
      <4>2. (out \o Held)[1] = out[1]  BY <2>2, <3>2, <4>1
      <4>3. QED  BY <1>1, <3>1, <3>4, <4>2 DEF TagInv, HeadIsOldestUncommitted
    <3>5. QED  BY <3>3, <3>4
  <2>6. QED  BY <2>4, <2>5, LatchAssumption
<1>2. QED  BY <1>1, InvariantHolds, CounterInStep, PTL

-----------------------------------------------------------------------------
(***************************************************************************)
(* The reorder buffer is an in-order window.                               *)
(*                                                                         *)
(* All pointers walk the ring of ids, so the rows in use are those with    *)
(* the ids from that of the tail up to that of the head, and a cycle takes *)
(* n from the front and adds as many behind as arrive.                     *)
(***************************************************************************)
TailsInStep == InStep(tail_bank, local_tail)

(* The k-th id from that of the tail on, and how far an id is from it.       *)
TailPlace(k) == rollover_add(ROBDEPTH, tail_tag, k)
Behind(t)    == Distance(ROBDEPTH, tail_tag, t)

(* The first c rows from the tail on are those in use.                       *)
InUse(c) ==
  /\ HeadPlace = TailPlace(c)
  /\ \A b \in Bank, i \in Index : occupied[b][i] <=> Behind(rob_id(b, i)) < c

RowsInv == TailsInStep /\ \E c \in 0 .. ROBDEPTH : InUse(c)

(* On a ring of P places with c from t up to h in use: what is left when n    *)
(* leave and m arrive.                                                       *)
RingMoved(P, t, c, n, m, h) ==
  /\ c - n + m \in 0 .. P
  /\ rollover_add(P, t, n) \in 0 .. P - 1
  /\ rollover_add(P, h, m) = rollover_add(P, rollover_add(P, t, n), c - n + m)
  /\ \A x \in 0 .. P - 1 :
       /\ Distance(P, rollover_add(P, t, n), x) < c - n + m
            <=> \/ Distance(P, h, x) < m
                \/ Distance(P, t, x) < c /\ ~(Distance(P, t, x) < n)
       /\ Distance(P, h, x) < m => ~(Distance(P, t, x) < c)

(* On a ring of P places, c from t on are in use; n leave, m arrive.         *)
LEMMA RingMoves ==
  ASSUME NEW P \in Nat \ {0}, NEW t \in 0 .. P - 1, NEW c \in 0 .. P,
         NEW n \in 0 .. c, NEW m \in 0 .. P - c, NEW h, h = rollover_add(P, t, c)
  PROVE  RingMoved(P, t, c, n, m, h)
<1>1. h \in 0 .. P - 1 /\ rollover_add(P, t, n) \in 0 .. P - 1  BY DEF rollover_add
<1> DEFINE s == rollover_add(P, t, n)
<1>2. s = IF t + n >= P THEN t + n - P ELSE t + n  BY DEF rollover_add
<1>3. h = IF t + c >= P THEN t + c - P ELSE t + c  BY DEF rollover_add
<1> HIDE DEF s
<1>4. rollover_add(P, h, m) = rollover_add(P, s, c - n + m)
  BY <1>1, <1>2, <1>3 DEF rollover_add
<1>5. ASSUME NEW x \in 0 .. P - 1
      PROVE  /\ Distance(P, s, x) < c - n + m
                   <=> \/ Distance(P, h, x) < m
                       \/ Distance(P, t, x) < c /\ ~(Distance(P, t, x) < n)
             /\ Distance(P, h, x) < m => ~(Distance(P, t, x) < c)
  <2>1. CASE t + c >= P  BY <1>1, <1>2, <1>3, <2>1 DEF Distance, s
  <2>2. CASE t + c < P  BY <1>1, <1>2, <1>3, <2>2 DEF Distance, s
  <2>3. QED  BY <2>1, <2>2
<1>6. c - n + m \in 0 .. P  OBVIOUS
<1>7. QED  BY <1>1, <1>4, <1>5, <1>6 DEF s, RingMoved

(* The tail after a cycle: as many places on as instructions left.           *)
LEMMA TailStep ==
  ASSUME NEW insts, NEW results, NEW n, ClockStep(insts, results, n), TailsInStep
  PROVE  /\ TailsInStep' /\ tail_tag' = TailPlace(n)
         /\ \A k \in 0 .. ISSUEWIDTH - 1 :
              /\ TailBank(k) \in Bank
              /\ TailPlace(k) = rob_id(TailBank(k), local_tail[TailBank(k)])
<1>1. /\ TypeOK /\ n \in 0 .. ISSUEWIDTH /\ tail_bank \in Bank
      /\ local_tail \in [Bank -> Index]
  BY DEF ClockStep, IInv, TypeOK
<1>2. tail_bank' = rollover_add(ISSUEWIDTH, tail_bank, n)  BY BankPointersStep
<1>3. \A b \in Bank : local_tail'[b] = IF Distance(ISSUEWIDTH, tail_bank, b) < n
                                        THEN NextRow(local_tail[b]) ELSE local_tail[b]
  <2>1. \A b \in Bank : Leaves(b, n) <=> FromTail(b) < n  BY <1>1, LeavesFromTail
  <2>2. QED  BY <2>1 DEF ClockStep, Clock, calc_insts, FromTail
<1>4. /\ InStep(tail_bank', local_tail')
      /\ rob_id(tail_bank', local_tail'[tail_bank'])
           = rollover_add(ROBDEPTH, rob_id(tail_bank, local_tail[tail_bank]), n)
  BY <1>1, <1>2, <1>3, WalkStep DEF TailsInStep
<1>5. TailsInStep'  BY <1>4 DEF TailsInStep, InStep
<1>6. tail_tag' = TailPlace(n)  BY <1>4 DEF tail_tag, TailPlace, rob_id, rollover_add
<1>7. ASSUME NEW k \in 0 .. ISSUEWIDTH - 1
      PROVE  TailBank(k) \in Bank /\ TailPlace(k) = rob_id(TailBank(k), local_tail[TailBank(k)])
  BY <1>1, WalkPlace DEF TailsInStep, TailPlace, tail_tag, TailBank
<1>8. QED  BY <1>5, <1>6, <1>7

(* The rows that are filled and those that are emptied, by their ids.        *)
LEMMA RowsOfBundles ==
  ASSUME NEW insts, NEW results, NEW n, ClockStep(insts, results, n),
         HeadsInStep, TailsInStep, NEW b \in Bank, NEW i \in Index
  PROVE  /\ Gets(b, Arriving(insts)) /\ i = local_head[b]
              <=> Distance(ROBDEPTH, HeadPlace, rob_id(b, i)) < Len(Arriving(insts))
         /\ Leaves(b, n) /\ i = local_tail[b] <=> Behind(rob_id(b, i)) < n
         /\ HeadPlace \in Tag /\ tail_tag \in Tag
<1>1. /\ TypeOK /\ head_bank \in Bank /\ local_head \in [Bank -> Index]
      /\ tail_bank \in Bank /\ local_tail \in [Bank -> Index]
      /\ n \in 0 .. ISSUEWIDTH
  BY DEF ClockStep, IInv, TypeOK
<1>2. HeadPlace \in Tag /\ tail_tag \in Tag  BY <1>1, TagRange DEF HeadPlace, tail_tag
(* The first m places from bank f on.                                        *)
<1>3. ASSUME NEW f \in Bank, NEW p \in [Bank -> Index], InStep(f, p), NEW m \in 0 .. ISSUEWIDTH
      PROVE  Distance(ISSUEWIDTH, f, b) < m /\ i = p[b]
               <=> Distance(ROBDEPTH, rob_id(f, p[f]), rob_id(b, i)) < m
  <2> DEFINE d == Distance(ISSUEWIDTH, f, b)
             a == rob_id(f, p[f])
             e == Distance(ROBDEPTH, a, rob_id(b, i))
  <2>1. /\ a \in 0 .. ROBDEPTH - 1 /\ rob_id(b, i) \in 0 .. ROBDEPTH - 1
        /\ ROBDEPTH \in Nat \ {0} /\ ISSUEWIDTH <= ROBDEPTH
        /\ ISSUEWIDTH \in Nat \ {0} /\ f \in 0 .. ISSUEWIDTH - 1 /\ b \in 0 .. ISSUEWIDTH - 1
    BY TagRange, WidthAssumption DEF Tag, Bank
  <2>2. ASSUME d < m, i = p[b] PROVE e < m
    <3>1. d \in 0 .. ISSUEWIDTH - 1 /\ rollover_add(ISSUEWIDTH, f, d) = b
      BY <2>1, DistanceInRing, RolloverOfDistance
    <3>2. rollover_add(ROBDEPTH, a, d) = rob_id(b, i)  BY <2>2, <3>1, <1>3, WalkPlace
    <3>3. d \in 0 .. ROBDEPTH - 1  BY <2>1, <3>1
    <3>4. e = d
      <4> HIDE DEF d, a
      <4>1. Distance(ROBDEPTH, a, rollover_add(ROBDEPTH, a, d)) = d
        BY <2>1, <3>3, DistanceOfRollover
      <4>2. QED  BY <3>2, <4>1
    <3>5. QED  BY <2>2, <3>4
  <2>3. ASSUME e < m PROVE d < m /\ i = p[b]
    <3>1. e \in 0 .. ROBDEPTH - 1 /\ rollover_add(ROBDEPTH, a, e) = rob_id(b, i)
      <4> HIDE DEF a
      <4>1. QED  BY <2>1, DistanceInRing, RolloverOfDistance
    <3> HIDE DEF e
    <3>2. e \in 0 .. ISSUEWIDTH - 1  BY <2>1, <2>3, <3>1
    <3> DEFINE c == rollover_add(ISSUEWIDTH, f, e)
    <3>3. c \in Bank /\ rollover_add(ROBDEPTH, a, e) = rob_id(c, p[c])
      BY <1>3, <3>2, WalkPlace
    <3> HIDE DEF a
    <3>4. p[c] \in Index  BY <3>3
    <3>5. b = c /\ i = p[c]
      <4>1. rob_id(b, i) = rob_id(c, p[c])  BY <3>1, <3>3
      <4>2. \A x, y \in Bank, j, k \in Index : rob_id(x, j) = rob_id(y, k) => x = y /\ j = k
        BY RowOfId
      <4> HIDE DEF c
      <4>3. QED  BY <3>3, <3>4, <4>1, <4>2
    <3>6. d = e  BY <2>1, <3>2, <3>5, DistanceOfRollover
    <3>7. QED  BY <2>3, <3>5, <3>6
  <2>4. QED  BY <2>2, <2>3
<1>4. Gets(b, Arriving(insts)) /\ i = local_head[b]
        <=> Distance(ROBDEPTH, HeadPlace, rob_id(b, i)) < Len(Arriving(insts))
  <2>1. Len(Arriving(insts)) \in 0 .. ISSUEWIDTH  BY ArrivalsFit DEF ClockStep
  <2>2. Gets(b, Arriving(insts)) <=> FromHead(b) < Len(Arriving(insts))
    BY <1>1, <2>1, GetsFromHead
  <2> DEFINE m == Len(Arriving(insts))
  <2> HIDE DEF m
  <2>3. Distance(ISSUEWIDTH, head_bank, b) < m /\ i = local_head[b]
          <=> Distance(ROBDEPTH, rob_id(head_bank, local_head[head_bank]), rob_id(b, i)) < m
    BY <1>1, <1>3, <2>1 DEF HeadsInStep, m
  <2>4. QED  BY <2>2, <2>3 DEF FromHead, HeadPlace, m
<1>5. Leaves(b, n) /\ i = local_tail[b] <=> Behind(rob_id(b, i)) < n
  <2>1. Leaves(b, n) <=> FromTail(b) < n  BY <1>1, LeavesFromTail
  <2>2. Distance(ISSUEWIDTH, tail_bank, b) < n /\ i = local_tail[b]
          <=> Distance(ROBDEPTH, rob_id(tail_bank, local_tail[tail_bank]), rob_id(b, i)) < n
    BY <1>1, <1>3 DEF TailsInStep
  <2>3. QED  BY <2>1, <2>2 DEF FromTail, Behind, tail_tag
<1>6. QED  BY <1>2, <1>4, <1>5

(* Instructions that find room in their banks find empty ids behind the head. *)
LEMMA RoomBehind ==
  ASSUME IInv, HeadsInStep, NEW c \in 0 .. ROBDEPTH, InUse(c), NEW m \in 0 .. ISSUEWIDTH,
         \A b \in Bank : FromHead(b) < m => Count(b) < ROB_BANK_DEPTH
  PROVE  m <= ROBDEPTH - c
<1>1. /\ TypeOK /\ ROBDEPTH \in Nat \ {0} /\ ISSUEWIDTH <= ROBDEPTH /\ ISSUEWIDTH \in Nat \ {0}
      /\ head_bank \in Bank /\ tail_bank \in Bank
      /\ local_head \in [Bank -> Index] /\ local_tail \in [Bank -> Index]
  BY TagRange, WidthAssumption DEF IInv, TypeOK
<1>2. HeadPlace \in 0 .. ROBDEPTH - 1 /\ tail_tag \in 0 .. ROBDEPTH - 1
  BY <1>1, TagRange DEF HeadPlace, tail_tag, Tag
<1>3. HeadPlace = rollover_add(ROBDEPTH, tail_tag, c)  BY DEF InUse, TailPlace
<1>4. SUFFICES ASSUME m > ROBDEPTH - c PROVE FALSE  BY <1>1
<1> DEFINE k == ROBDEPTH - c
<1>5. k \in 0 .. m - 1 /\ k \in 0 .. ISSUEWIDTH - 1  BY <1>1, <1>4
<1>6. Place(k) = tail_tag  BY <1>1, <1>2, <1>3 DEF Place, rollover_add
<1>7. k = ROBDEPTH => FALSE  BY <1>1, <1>5
<1>8. c # 0  BY <1>1, <1>7
<1> HIDE DEF k
<1>9. HeadBank(k) \in Bank /\ Place(k) = rob_id(HeadBank(k), local_head[HeadBank(k)])
  BY <1>1, <1>5, PlaceOfBank
<1>10. ~occupied[HeadBank(k)][local_head[HeadBank(k)]]
  <2>1. FromHead(HeadBank(k)) = k
    BY <1>1, <1>5, DistanceOfRollover DEF FromHead, HeadBank, Bank
  <2>2. FromHead(HeadBank(k)) < m  BY <1>5, <2>1
  <2>3. Count(HeadBank(k)) < ROB_BANK_DEPTH  BY <1>9, <2>2
  <2>4. QED  BY <1>1, <1>9, <2>3, HeadRowEmpty DEF IInv
<1>11. ~(Behind(tail_tag) < c)
  <2>1. local_head[HeadBank(k)] \in Index  BY <1>1, <1>9
  <2>2. QED  BY <1>6, <1>9, <1>10, <2>1 DEF InUse
<1>12. Behind(tail_tag) = 0  BY <1>1, <1>2 DEF Behind, Distance
<1>13. QED  BY <1>8, <1>11, <1>12

(* A cycle: the rows in use are still those from the tail on.                *)
LEMMA InUseStep ==
  ASSUME NEW insts, NEW results, NEW n, ClockStep(insts, results, n),
         HeadsInStep, TailsInStep, NEW c \in 0 .. ROBDEPTH, InUse(c)
  PROVE  LET m == Len(Arriving(insts))
         IN  /\ n <= c /\ m <= ROBDEPTH - c
             /\ \A e : e = c - n + m => e \in 0 .. ROBDEPTH /\ InUse(e)'
<1> DEFINE m == Len(Arriving(insts))
<1>1. /\ TypeOK /\ n \in 0 .. ISSUEWIDTH /\ m \in 0 .. ISSUEWIDTH
      /\ ROBDEPTH \in Nat \ {0} /\ ISSUEWIDTH <= ROBDEPTH /\ ISSUEWIDTH \in Nat \ {0}
      /\ head_bank \in Bank /\ tail_bank \in Bank
      /\ local_head \in [Bank -> Index] /\ local_tail \in [Bank -> Index]
  BY ArrivalsFit, TagRange, WidthAssumption DEF ClockStep, IInv, TypeOK
<1>2. HeadPlace \in 0 .. ROBDEPTH - 1 /\ tail_tag \in 0 .. ROBDEPTH - 1
  BY <1>1, TagRange DEF HeadPlace, tail_tag, Tag
<1>3. HeadPlace = rollover_add(ROBDEPTH, tail_tag, c)  BY DEF InUse, TailPlace
<1>4. \A b \in Bank, i \in Index : rob_id(b, i) \in 0 .. ROBDEPTH - 1  BY TagRange DEF Tag
(* What leaves is there.                                                     *)
<1>5. n <= c
  <2>1. SUFFICES ASSUME n > c PROVE FALSE  BY <1>1
  <2>2. c \in 0 .. n - 1 /\ c \in 0 .. ISSUEWIDTH - 1 /\ c \in 0 .. ROBDEPTH - 1
    BY <1>1, <2>1
  <2>3. /\ TailBank(c) \in Bank /\ TailPlace(c) = rob_id(TailBank(c), local_tail[TailBank(c)])
    BY <2>2, TailStep
  <2>4. occupied[TailBank(c)][local_tail[TailBank(c)]]
    BY <2>2 DEF ClockStep, Clock, amt_current, ready_deq
  <2>5. Behind(TailPlace(c)) < c  BY <1>1, <2>3, <2>4 DEF InUse
  <2>6. Behind(TailPlace(c)) = c  BY <1>1, <1>2, <2>2, DistanceOfRollover DEF Behind, TailPlace
  <2>7. QED  BY <2>5, <2>6
(* What arrives finds an empty row.                                          *)
<1>6. m <= ROBDEPTH - c
  <2>1. \A b \in Bank : FromHead(b) < m => Count(b) < ROB_BANK_DEPTH
    BY ArrivalsFit DEF ClockStep
  <2> HIDE DEF m
  <2>2. QED  BY <1>1, <2>1, RoomBehind DEF ClockStep
<1>7. /\ c - n + m \in 0 .. ROBDEPTH
      /\ rollover_add(ROBDEPTH, HeadPlace, m) = rollover_add(ROBDEPTH, TailPlace(n), c - n + m)
      /\ \A x \in 0 .. ROBDEPTH - 1 :
           Distance(ROBDEPTH, TailPlace(n), x) < c - n + m
             <=> \/ Distance(ROBDEPTH, HeadPlace, x) < m
                 \/ Behind(x) < c /\ ~(Behind(x) < n)
  <2> HIDE DEF m
  <2>1. n \in 0 .. c /\ m \in 0 .. ROBDEPTH - c /\ c \in 0 .. ROBDEPTH  BY <1>1, <1>5, <1>6
  <2>2. /\ ROBDEPTH \in Nat \ {0} /\ tail_tag \in 0 .. ROBDEPTH - 1
        /\ HeadPlace = rollover_add(ROBDEPTH, tail_tag, c)
    BY <1>1, <1>2, <1>3
  <2>3. RingMoved(ROBDEPTH, tail_tag, c, n, m, HeadPlace)  BY <2>1, <2>2, RingMoves
  <2>4. QED  BY <2>3 DEF RingMoved, TailPlace, Behind
<1>8. HeadPlace' = rollover_add(ROBDEPTH, HeadPlace, m) /\ tail_tag' = TailPlace(n)
  BY HeadStep, TailStep DEF Place
<1>9. ASSUME NEW b \in Bank, NEW i \in Index
      PROVE  occupied'[b][i] <=> Distance(ROBDEPTH, tail_tag', rob_id(b, i)) < c - n + m
  <2>1. occupied'[b][i] <=> \/ Gets(b, Arriving(insts)) /\ i = local_head[b]
                            \/ occupied[b][i] /\ ~(Leaves(b, n) /\ i = local_tail[b])
    BY DEF ClockStep, Clock, row_flags
  <2>2. /\ Gets(b, Arriving(insts)) /\ i = local_head[b]
             <=> Distance(ROBDEPTH, HeadPlace, rob_id(b, i)) < m
        /\ Leaves(b, n) /\ i = local_tail[b] <=> Behind(rob_id(b, i)) < n
    BY RowsOfBundles
  <2>3. occupied[b][i] <=> Behind(rob_id(b, i)) < c  BY DEF InUse
  <2>4. rob_id(b, i) \in 0 .. ROBDEPTH - 1  BY <1>4
  <2> HIDE DEF m
  <2>5. Distance(ROBDEPTH, TailPlace(n), rob_id(b, i)) < c - n + m
             <=> \/ Distance(ROBDEPTH, HeadPlace, rob_id(b, i)) < m
                 \/ Behind(rob_id(b, i)) < c /\ ~(Behind(rob_id(b, i)) < n)
    BY <1>7, <2>4
  <2>6. QED  BY <1>8, <2>1, <2>2, <2>3, <2>5
<1>10. ASSUME NEW e, e = c - n + m PROVE InUse(e)'
  <2> HIDE DEF m
  <2>1. \A b \in Bank, i \in Index :
          (Behind(rob_id(b, i)))' = Distance(ROBDEPTH, tail_tag', rob_id(b, i))
    BY DEF Behind, Distance, rob_id
  <2>2. HeadPlace' = rollover_add(ROBDEPTH, tail_tag', e)  BY <1>7, <1>8, <1>10
  <2>3. TailPlace(e)' = rollover_add(ROBDEPTH, tail_tag', e)  BY DEF TailPlace, rollover_add
  <2>4. \A b \in Bank, i \in Index : occupied'[b][i] <=> (Behind(rob_id(b, i)))' < e
    BY <1>9, <1>10, <2>1
  <2>5. HeadPlace' = TailPlace(e)'  BY <2>2, <2>3
  <2>6. QED  BY <2>4, <2>5 DEF InUse
<1>11. QED  BY <1>5, <1>6, <1>7, <1>10

(* The rows of the buffer are a ring of ids for ever.                        *)
LEMMA RowsStep == IInv /\ TagInv /\ RowsInv /\ [Next]_vars => RowsInv'
<1> SUFFICES ASSUME IInv, TagInv, RowsInv, [Next]_vars PROVE RowsInv'  OBVIOUS
<1>1. CASE Next
  <2>1. PICK insts \in Bundle, results \in SUBSET Awaited, n \in 0 .. ISSUEWIDTH :
          Len(insts) <= free /\ Clock(insts, results, n)
    BY <1>1 DEF Next, Cycle
  <2>2. ClockStep(insts, results, n)  BY <2>1 DEF ClockStep
  <2>3. PICK c \in 0 .. ROBDEPTH : InUse(c)  BY DEF RowsInv
  <2>4. TailsInStep'  BY <2>2, TailStep DEF RowsInv
  <2>5. \E e \in 0 .. ROBDEPTH : InUse(e)'  BY <2>2, <2>3, InUseStep DEF RowsInv, TagInv
  <2>6. QED  BY <2>4, <2>5 DEF RowsInv
<1>2. CASE UNCHANGED vars
  BY <1>2 DEF vars, RowsInv, TailsInStep, InStep, InUse, HeadPlace, TailPlace, tail_tag, Behind,
              rob_id
<1>3. QED  BY <1>1, <1>2

LEMMA RowsInit == Init => RowsInv
<1> SUFFICES ASSUME Init PROVE RowsInv  OBVIOUS
<1> USE WidthAssumption, DepthAssumption DEF Init
<1>1. TailsInStep  BY DEF TailsInStep, InStep, Bank
<1>2. 0 \in Bank /\ ISSUEWIDTH * 0 = 0 /\ ROBDEPTH \in Nat \ {0}  BY TagRange DEF Bank
<1>3. HeadPlace = 0 /\ tail_tag = 0  BY <1>2 DEF HeadPlace, tail_tag, rob_id
<1>4. TailPlace(0) = 0  BY <1>2, <1>3 DEF TailPlace, rollover_add
<1>5. \A b \in Bank, i \in Index : ~(Behind(rob_id(b, i)) < 0)
  <2>1. \A b \in Bank, i \in Index : rob_id(b, i) \in 0 .. ROBDEPTH - 1  BY TagRange DEF Tag
  <2>2. \A x \in 0 .. ROBDEPTH - 1 : Behind(x) \in Nat
    BY <1>2, <1>3 DEF Behind, Distance
  <2>3. QED  BY <2>1, <2>2
<1>6. InUse(0)  BY <1>3, <1>4, <1>5 DEF InUse
<1>7. QED  BY <1>1, <1>2, <1>6 DEF RowsInv

(* In every behaviour the rows in use are those from the tail on to the      *)
(* head, in the order of their ids.                                          *)
THEOREM RowsInOrder == Spec => []RowsInv
BY RowsInit, RowsStep, InvariantHolds, CounterInStep, PTL DEF Spec

-----------------------------------------------------------------------------
(* The window of the abstract specification, by ids: first the rows from the *)
(* tail on, then what is on its way to them.                                 *)
BankOf(t) == t % ISSUEWIDTH
RowOf(t)  == t \div ISSUEWIDTH

Row(t) == [inst |-> entry[BankOf(t)][RowOf(t)].inst, tag |-> t,
           done |-> ready[BankOf(t)][RowOf(t)]]

(* An instruction on its way to its row.                                     *)
Entering(r) == [inst |-> r.inst, tag |-> r.tag, done |-> FALSE]

Slot == [inst : Inst, tag : Tag, done : BOOLEAN]

WindowIs(c) ==
  /\ c + Len(incoming) \in 0 .. ROBDEPTH
  /\ Window \in Seq(Slot) /\ Len(Window) = c + Len(incoming)
  /\ \A k \in 1 .. c : Window[k] = Row(TailPlace(k - 1))
  /\ \A k \in 1 .. Len(incoming) : Window[c + k] = Entering(incoming[k])
  /\ \A k \in 1 .. Len(Window) : Window[k].tag = TailPlace(k - 1)

Windowed == \A c \in 0 .. ROBDEPTH : InUse(c) => WindowIs(c)

(* The k-th id from the tail on.                                             *)
LEMMA PlaceFromTail ==
  ASSUME tail_tag \in Tag, NEW k \in 0 .. ROBDEPTH - 1
  PROVE  /\ TailPlace(k) \in Tag /\ Behind(TailPlace(k)) = k
         /\ BankOf(TailPlace(k)) \in Bank /\ RowOf(TailPlace(k)) \in Index
         /\ rob_id(BankOf(TailPlace(k)), RowOf(TailPlace(k))) = TailPlace(k)
<1>1. ROBDEPTH \in Nat \ {0} /\ tail_tag \in 0 .. ROBDEPTH - 1  BY TagRange DEF Tag
<1>2. TailPlace(k) \in Tag  BY <1>1, RolloverInRing DEF TailPlace, Tag
<1>3. Behind(TailPlace(k)) = k  BY <1>1, DistanceOfRollover DEF TailPlace, Behind
<1>4. QED  BY <1>2, <1>3, RowOfId DEF BankOf, RowOf

(* As many rows are occupied as there are ids from the tail to the head.     *)
LEMMA OccupiedRows ==
  ASSUME IInv, NEW c \in 0 .. ROBDEPTH, InUse(c)
  PROVE  Occupancy = c
<1> DEFINE R == {r \in Bank \X Index : occupied[r[1]][r[2]]}
           f == [k \in 1 .. c |-> RowFromTail(k - 1)]
<1>1. ROBDEPTH \in Nat \ {0} /\ tail_tag \in Tag /\ c \in Nat
  BY TagRange DEF IInv, TypeOK, tail_tag
<1>2. ASSUME NEW k \in 1 .. c
      PROVE  /\ k - 1 \in 0 .. ROBDEPTH - 1 /\ k - 1 < c
             /\ f[k] = <<BankOf(TailPlace(k - 1)), RowOf(TailPlace(k - 1))>>
  BY <1>1 DEF RowFromTail, BankOf, RowOf, TailPlace
<1>3. ASSUME NEW k \in 1 .. c PROVE f[k] \in R
  <2> DEFINE t == TailPlace(k - 1)
  <2>1. /\ Behind(t) < c /\ BankOf(t) \in Bank /\ RowOf(t) \in Index
        /\ rob_id(BankOf(t), RowOf(t)) = t
    BY <1>1, <1>2, PlaceFromTail
  <2>2. f[k] = <<BankOf(t), RowOf(t)>>  BY <1>2
  <2> HIDE DEF t, f
  <2>3. occupied[BankOf(t)][RowOf(t)]  BY <2>1 DEF InUse
  <2>4. QED  BY <2>1, <2>2, <2>3
<1>4. ASSUME NEW j \in 1 .. c, NEW k \in 1 .. c, f[j] = f[k] PROVE j = k
  <2>1. /\ BankOf(TailPlace(j - 1)) = BankOf(TailPlace(k - 1))
        /\ RowOf(TailPlace(j - 1)) = RowOf(TailPlace(k - 1))
    BY <1>2, <1>4
  <2>2. /\ TailPlace(j - 1) = rob_id(BankOf(TailPlace(j - 1)), RowOf(TailPlace(j - 1)))
        /\ TailPlace(k - 1) = rob_id(BankOf(TailPlace(k - 1)), RowOf(TailPlace(k - 1)))
        /\ Behind(TailPlace(j - 1)) = j - 1 /\ Behind(TailPlace(k - 1)) = k - 1
    BY <1>1, <1>2, PlaceFromTail
  <2>3. j - 1 = k - 1  BY <2>1, <2>2
  <2>4. QED  BY <2>3
<1>5. ASSUME NEW r \in R PROVE \E k \in 1 .. c : f[k] = r
  <2>1. PICK b \in Bank, i \in Index : r = <<b, i>> /\ occupied[b][i]  OBVIOUS
  <2> DEFINE t == rob_id(b, i)
             d == Behind(t)
  <2>2. t \in Tag /\ d < c  BY <2>1, TagRange DEF InUse
  <2>3. d \in 0 .. ROBDEPTH - 1 /\ TailPlace(d) = t
    <3> HIDE DEF t
    <3>1. QED  BY <1>1, <2>2, DistanceInRing, RolloverOfDistance DEF Behind, TailPlace, Tag
  <2>4. d + 1 \in 1 .. c /\ (d + 1) - 1 = d
    <3> HIDE DEF d
    <3>1. QED  BY <1>1, <2>2, <2>3
  <2>5. BankOf(t) = b /\ RowOf(t) = i
    <3>1. /\ BankOf(t) \in Bank /\ RowOf(t) \in Index /\ rob_id(BankOf(t), RowOf(t)) = rob_id(b, i)
      BY <2>2, RowOfId DEF BankOf, RowOf
    <3>2. ASSUME NEW x \in Bank, NEW y \in Index, rob_id(x, y) = rob_id(b, i)
          PROVE  x = b /\ y = i
      BY <3>2, RowOfId
    <3>3. QED  BY <3>1, <3>2
  <2>6. f[d + 1] = r
    <3> HIDE DEF t, d, f
    <3>1. f[d + 1] = <<BankOf(TailPlace(d)), RowOf(TailPlace(d))>>  BY <1>2, <2>4
    <3>2. QED  BY <2>1, <2>3, <2>5, <3>1
  <2>7. QED  BY <2>4, <2>6
<1> HIDE DEF f, R
<1>6. f \in Bijection(1 .. c, R)
  <2>1. f \in [1 .. c -> R]  BY <1>3 DEF f
  <2>2. f \in Injection(1 .. c, R)  BY <1>4, <2>1 DEF Injection, IsInjective
  <2>3. f \in Surjection(1 .. c, R)  BY <1>5, <2>1 DEF Surjection
  <2>4. QED  BY <2>2, <2>3 DEF Bijection
<1>7. Cardinality(R) = c  BY <1>1, <1>6, FS_CountingElements DEF ExistsBijection
<1>8. QED  BY <1>7 DEF Occupancy, R

LEMMA WindowShape ==
  ASSUME IInv, TagInv, NEW c \in 0 .. ROBDEPTH, InUse(c)
  PROVE  WindowIs(c)
<1> DEFINE L == Len(incoming)
           Entered == [k \in 1 .. L |-> Entering(incoming[k])]
<1>1. /\ ROBDEPTH \in Nat \ {0} /\ tail_tag \in Tag /\ c \in Nat /\ L \in 0 .. ISSUEWIDTH
      /\ incoming \in Seq([inst : Inst, tag : Tag]) /\ Occupancy = c /\ L \in Nat
  BY TagRange, OccupiedRows, WidthAssumption DEF IInv, TypeOK, tail_tag
<1>2. c + L \in 0 .. ROBDEPTH
  <2>1. \A b \in Bank : FromHead(b) < L => Count(b) < ROB_BANK_DEPTH
    BY DEF IInv, RoomForIncoming
  <2> HIDE DEF L
  <2>2. L <= ROBDEPTH - c  BY <1>1, <2>1, RoomBehind DEF TagInv
  <2>3. QED  BY <1>1, <2>2
<1>3. ASSUME NEW k \in 1 .. c
      PROVE  Held[k] = Row(TailPlace(k - 1)) /\ Row(TailPlace(k - 1)) \in Slot
  <2> DEFINE t == TailPlace(k - 1)
  <2>1. k - 1 \in 0 .. ROBDEPTH - 1 /\ k - 1 < c  BY <1>1
  <2>2. /\ t \in Tag /\ Behind(t) < c /\ BankOf(t) \in Bank /\ RowOf(t) \in Index
        /\ rob_id(BankOf(t), RowOf(t)) = t
    BY <1>1, <2>1, PlaceFromTail
  <2>3. RowFromTail(k - 1) = <<BankOf(t), RowOf(t)>>
    BY DEF RowFromTail, BankOf, RowOf, TailPlace
  <2>4. Held[k] = [inst |-> entry[BankOf(t)][RowOf(t)].inst, tag |-> entry[BankOf(t)][RowOf(t)].tag,
                   done |-> ready[BankOf(t)][RowOf(t)]]
    BY <1>1, <2>3 DEF Held
  <2> HIDE DEF t
  <2>5. entry[BankOf(t)][RowOf(t)].tag = t
    BY <2>2 DEF InUse, TagInv, TagNamesRow
  <2>6. entry[BankOf(t)][RowOf(t)].inst \in Inst /\ ready[BankOf(t)][RowOf(t)] \in BOOLEAN
    BY <2>2 DEF IInv, TypeOK
  <2>7. QED  BY <2>2, <2>4, <2>5, <2>6 DEF Row, Slot, t
<1>4. Held \in Seq(Slot) /\ Len(Held) = c
  <2>1. Held = [k \in 1 .. c |-> Held[k]]  BY <1>1 DEF Held
  <2>2. \A k \in 1 .. c : Held[k] \in Slot  BY <1>3
  <2>3. Held \in [1 .. c -> Slot]  BY <2>1, <2>2
  <2>4. QED  BY <1>1, <2>3, FunctionIsSeq
<1>5. Entered \in Seq(Slot) /\ Len(Entered) = L
  <2>1. \A k \in 1 .. L : incoming[k].inst \in Inst /\ incoming[k].tag \in Tag
    <3>1. \A k \in 1 .. L : incoming[k] \in [inst : Inst, tag : Tag]  BY <1>1, ElementOfSeq
    <3>2. QED  BY <3>1
  <2> HIDE DEF L
  <2>2. Entered \in [1 .. L -> Slot]  BY <2>1 DEF Slot, Entering
  <2> HIDE DEF Entered
  <2>3. QED  BY <1>1, <2>2, FunctionIsSeq
<1>6. Window = Held \o Entered  BY DEF Window, Entering
<1>7. /\ Window \in Seq(Slot) /\ Len(Window) = c + L
      /\ \A k \in 1 .. c + L : Window[k] = IF k <= c THEN Held[k] ELSE Entered[k - c]
  <2> HIDE DEF L, Entered
  <2>1. QED  BY <1>4, <1>5, <1>6, ConcatProperties
<1>8. \A k \in 1 .. c : Window[k] = Row(TailPlace(k - 1))
  <2> HIDE DEF L, Entered
  <2>1. \A k \in 1 .. c : k \in 1 .. c + L /\ k <= c  BY <1>1
  <2>2. QED  BY <1>3, <1>7, <2>1
<1>9. \A k \in 1 .. L : Window[c + k] = Entering(incoming[k])
  <2>1. ASSUME NEW k \in 1 .. L PROVE Window[c + k] = Entered[k]
    <3> HIDE DEF L, Entered
    <3>1. c + k \in 1 .. c + L /\ ~(c + k <= c) /\ (c + k) - c = k  BY <1>1
    <3>2. QED  BY <1>7, <3>1
  <2>2. QED  BY <2>1
<1>10. ASSUME NEW k \in 1 .. c + L PROVE Window[k].tag = TailPlace(k - 1)
  <2>1. CASE k <= c
    <3>1. k \in 1 .. c  BY <1>1, <2>1
    <3>2. Window[k] = Row(TailPlace(k - 1))  BY <1>8, <3>1
    <3>3. \A t : Row(t).tag = t  BY DEF Row
    <3>4. QED  BY <3>2, <3>3
  <2>2. CASE k > c
    <3> DEFINE j == k - c
    <3>1. j \in 1 .. L /\ c + j = k  BY <1>1, <2>2
    <3> HIDE DEF j
    <3>2. Window[k].tag = Place(j - 1)
      <4>1. Window[c + j].tag = incoming[j].tag
        <5>1. Window[c + j] = Entering(incoming[j])  BY <1>9, <3>1
        <5>2. \A r : Entering(r).tag = r.tag  BY DEF Entering
        <5>3. QED  BY <5>1, <5>2
      <4>2. incoming[j].tag = Place(j - 1)  BY <3>1 DEF TagInv
      <4>3. QED  BY <3>1, <4>1, <4>2
    <3>3. Place(j - 1) = TailPlace(k - 1)
      <4>1. HeadPlace = TailPlace(c)  BY DEF InUse
      <4>2. j - 1 \in Nat /\ k - 1 = c + (j - 1) /\ c + (j - 1) <= ROBDEPTH - 1
        <5> HIDE DEF L
        <5>1. QED  BY <1>1, <1>2, <3>1
      <4>3. tail_tag \in 0 .. ROBDEPTH - 1  BY <1>1 DEF Tag
      <4>4. \A x \in Nat : c + x <= ROBDEPTH - 1 =>
              rollover_add(ROBDEPTH, rollover_add(ROBDEPTH, tail_tag, c), x)
                = rollover_add(ROBDEPTH, tail_tag, c + x)
        BY <1>1, <4>3 DEF rollover_add
      <4>5. QED  BY <4>1, <4>2, <4>4 DEF Place, TailPlace
    <3>4. QED  BY <3>2, <3>3
  <2>3. QED  BY <1>1, <2>1, <2>2
<1>11. QED  BY <1>2, <1>7, <1>8, <1>9, <1>10 DEF WindowIs

LEMMA WindowedAlways == Spec => []Windowed
<1>1. IInv /\ TagInv => Windowed  BY WindowShape DEF Windowed
<1>2. QED  BY <1>1, InvariantHolds, CounterInStep, PTL

(* A row in use keeps its instruction and takes its result, a row that is    *)
(* filled holds what arrived under its id, without a result.                 *)
LEMMA RowOverCycle ==
  ASSUME NEW insts, NEW results, NEW n, ClockStep(insts, results, n),
         HeadsInStep, TailsInStep, NEW c \in 0 .. ROBDEPTH, InUse(c), NEW t \in Tag
  PROVE  LET b == BankOf(t)
             i == RowOf(t)
         IN  /\ Behind(t) < c => /\ entry'[b][i] = entry[b][i]
                                 /\ ready'[b][i] <=> ready[b][i] \/ t \in results
             /\ \A j \in 1 .. Len(Arriving(insts)) :
                  t = Place(j - 1) => entry'[b][i] = Arriving(insts)[j] /\ ~ready'[b][i]
<1> DEFINE b == BankOf(t)
           i == RowOf(t)
           A == Arriving(insts)
           m == Len(A)
           pick == CHOOSE j \in 1 .. m : b = HeadBank(j - 1)
<1>1. b \in Bank /\ i \in Index /\ rob_id(b, i) = t  BY RowOfId DEF BankOf, RowOf
<1>2. /\ TypeOK /\ m \in 0 .. ISSUEWIDTH /\ ISSUEWIDTH <= ROBDEPTH
      /\ ROBDEPTH \in Nat \ {0} /\ ISSUEWIDTH \in Nat \ {0}
      /\ n <= c /\ m <= ROBDEPTH - c /\ n \in 0 .. ISSUEWIDTH
  BY ArrivalsFit, InUseStep, TagRange, WidthAssumption DEF ClockStep, IInv
<1>3. /\ Gets(b, A) /\ i = local_head[b] <=> Distance(ROBDEPTH, HeadPlace, t) < m
      /\ HeadPlace \in 0 .. ROBDEPTH - 1 /\ tail_tag \in 0 .. ROBDEPTH - 1
  BY <1>1, RowsOfBundles DEF Tag
<1>4. /\ entry'[b][i] = IF Gets(b, A) /\ i = local_head[b] THEN A[pick] ELSE entry[b][i]
      /\ ready'[b][i] <=> /\ ~(Gets(b, A) /\ i = local_head[b])
                          /\ ready[b][i] \/ t \in results
  BY <1>1 DEF ClockStep, Clock, insert, row_flags
<1> HIDE DEF b, i, A, m, pick
<1>5. Distance(ROBDEPTH, HeadPlace, t) < m => ~(Behind(t) < c)
  <2>1. n \in 0 .. c /\ m \in 0 .. ROBDEPTH - c /\ t \in 0 .. ROBDEPTH - 1  BY <1>2 DEF Tag
  <2>2. HeadPlace = rollover_add(ROBDEPTH, tail_tag, c)  BY DEF InUse, TailPlace
  <2>3. RingMoved(ROBDEPTH, tail_tag, c, n, m, HeadPlace)  BY <1>2, <1>3, <2>1, <2>2, RingMoves
  <2>4. QED  BY <1>3, <2>1, <2>3 DEF RingMoved, Behind
<1>6. ASSUME Behind(t) < c
      PROVE  entry'[b][i] = entry[b][i] /\ (ready'[b][i] <=> ready[b][i] \/ t \in results)
  BY <1>3, <1>4, <1>5, <1>6
<1>7. ASSUME NEW j \in 1 .. m, t = Place(j - 1)
      PROVE  entry'[b][i] = A[j] /\ ~ready'[b][i]
  <2>1. \A k \in 1 .. m : /\ k - 1 \in 0 .. ROBDEPTH - 1 /\ k - 1 \in 0 .. ISSUEWIDTH - 1
                          /\ Distance(ROBDEPTH, HeadPlace, Place(k - 1)) = k - 1
    <3>1. ASSUME NEW k \in 1 .. m
          PROVE k - 1 \in 0 .. ROBDEPTH - 1 /\ k - 1 \in 0 .. ISSUEWIDTH - 1
      BY <1>2
    <3>2. QED  BY <1>2, <1>3, <3>1, DistanceOfRollover DEF Place
  <2>2. Distance(ROBDEPTH, HeadPlace, t) < m  BY <1>2, <1>7, <2>1
  <2>3. Gets(b, A) /\ i = local_head[b]  BY <1>3, <2>2
  <2>4. pick \in 1 .. m /\ b = HeadBank(pick - 1)  BY <2>3 DEF Gets, pick, m
  <2>5. Place(pick - 1) = rob_id(b, i)  BY <1>2, <2>1, <2>3, <2>4, PlaceOfBank
  <2>6. pick - 1 = j - 1  BY <1>1, <1>7, <2>1, <2>4, <2>5
  <2>7. pick = j  BY <1>2, <2>4, <2>6
  <2>8. QED  BY <1>4, <2>3, <2>7
<1>8. QED  BY <1>6, <1>7 DEF b, i, A, m

(* What leaves is the longest complete prefix of the window.                 *)
LEMMA PrefixLeaves ==
  ASSUME NEW insts, NEW results, NEW n, ClockStep(insts, results, n), TagInv,
         TailsInStep, NEW c \in 0 .. ROBDEPTH, InUse(c), n <= c, WindowIs(c)
  PROVE  /\ Abstract!Retirable = n
         /\ out' = [k \in 1 .. n |-> [inst |-> Window[k].inst, tag |-> Window[k].tag]]
<1>1. /\ TypeOK /\ n \in 0 .. ISSUEWIDTH /\ tail_tag \in Tag /\ c \in Nat
      /\ ISSUEWIDTH \in Nat \ {0} /\ ROBDEPTH \in Nat \ {0} /\ ISSUEWIDTH <= ROBDEPTH
      /\ Len(incoming) \in Nat
  BY TagRange, WidthAssumption DEF ClockStep, IInv, TypeOK, tail_tag
<1>2. ASSUME NEW k \in 0 .. ISSUEWIDTH - 1
      PROVE  /\ TailBank(k) \in Bank /\ local_tail[TailBank(k)] \in Index
             /\ BankOf(TailPlace(k)) = TailBank(k)
             /\ RowOf(TailPlace(k)) = local_tail[TailBank(k)]
             /\ Behind(TailPlace(k)) = k
  <2>1. /\ TailBank(k) \in Bank /\ TailPlace(k) = rob_id(TailBank(k), local_tail[TailBank(k)])
        /\ local_tail[TailBank(k)] \in Index
    BY <1>1, TailStep DEF TypeOK
  <2>2. k \in 0 .. ROBDEPTH - 1  BY <1>1
  <2>3. /\ BankOf(TailPlace(k)) \in Bank /\ RowOf(TailPlace(k)) \in Index
        /\ rob_id(BankOf(TailPlace(k)), RowOf(TailPlace(k))) = TailPlace(k)
        /\ Behind(TailPlace(k)) = k
    BY <1>1, <2>2, PlaceFromTail
  <2>4. \A x \in Bank, y \in Index : rob_id(x, y) = rob_id(TailBank(k), local_tail[TailBank(k)])
                                       => x = TailBank(k) /\ y = local_tail[TailBank(k)]
    BY <2>1, RowOfId
  <2>5. QED  BY <2>1, <2>3, <2>4
<1>3. ASSUME NEW k \in 0 .. ISSUEWIDTH - 1, k < c
      PROVE  ready_deq(TailBank(k)) <=> Window[k + 1].done
  <2>1. k + 1 \in 1 .. c /\ (k + 1) - 1 = k  BY <1>1, <1>3
  <2>2. Window[k + 1] = Row(TailPlace(k))  BY <2>1 DEF WindowIs
  <2>3. Window[k + 1].done = ready[TailBank(k)][local_tail[TailBank(k)]]
    BY <1>2, <2>2 DEF Row
  <2>4. occupied[TailBank(k)][local_tail[TailBank(k)]]
    <3>1. rob_id(TailBank(k), local_tail[TailBank(k)]) = TailPlace(k)  BY TailStep
    <3>2. Behind(rob_id(TailBank(k), local_tail[TailBank(k)])) < c  BY <1>2, <1>3, <3>1
    <3>3. QED  BY <1>2, <3>2 DEF InUse
  <2>5. QED  BY <2>3, <2>4 DEF ready_deq
<1>4. /\ \A k \in 0 .. n - 1 : ready_deq(TailBank(k))
      /\ n < ISSUEWIDTH => ~ready_deq(TailBank(n))
      /\ out' = [k \in 1 .. n |-> entry[TailBank(k - 1)][local_tail[TailBank(k - 1)]]]
  BY DEF ClockStep, Clock, amt_current, calc_insts
<1> DEFINE Q(x) == /\ x <= ISSUEWIDTH
                   /\ \A k \in 1 .. x : Window[k].done
                   /\ x < ISSUEWIDTH /\ x < Len(Window) => ~Window[x + 1].done
<1>5. Len(Window) = c + Len(incoming) /\ Len(Window) \in Nat /\ n \in 0 .. Len(Window)
  BY <1>1 DEF WindowIs
<1>6. ASSUME NEW k \in 1 .. n PROVE Window[k].done
  <2>1. k - 1 \in 0 .. n - 1 /\ k - 1 \in 0 .. ISSUEWIDTH - 1 /\ k - 1 < c /\ (k - 1) + 1 = k
    BY <1>1
  <2>2. QED  BY <1>3, <1>4, <2>1
<1>7. ASSUME n < ISSUEWIDTH, n < Len(Window) PROVE ~Window[n + 1].done
  <2>1. n \in 0 .. ISSUEWIDTH - 1  BY <1>1, <1>7
  <2>2. CASE n < c  BY <1>3, <1>4, <1>7, <2>1, <2>2
  <2>3. CASE n = c
    <3>1. 1 \in 1 .. Len(incoming)  BY <1>1, <1>5, <1>7, <2>3
    <3>2. Window[n + 1] = Entering(incoming[1])  BY <2>3, <3>1 DEF WindowIs
    <3>3. QED  BY <3>2 DEF Entering
  <2>4. QED  BY <1>1, <2>2, <2>3
<1>8. Q(n)  BY <1>1, <1>6, <1>7
<1>9. ASSUME NEW x \in 0 .. Len(Window), Q(x) PROVE x = n
  <2>1. CASE x < n
    <3>1. x < ISSUEWIDTH /\ x < Len(Window) /\ x + 1 \in 1 .. n  BY <1>1, <1>5, <2>1
    <3>2. QED  BY <1>8, <1>9, <3>1
  <2>2. CASE x > n
    <3>1. n < ISSUEWIDTH /\ n < Len(Window) /\ n + 1 \in 1 .. x  BY <1>1, <1>5, <1>9, <2>2
    <3>2. QED  BY <1>8, <1>9, <3>1
  <2>3. QED  BY <1>1, <1>5, <2>1, <2>2
<1>10. Abstract!Retirable = CHOOSE x \in 0 .. Len(Window) : Q(x)
  BY DEF Abstract!Retirable
<1> HIDE DEF Q
<1>11. Abstract!Retirable = n  BY <1>5, <1>8, <1>9, <1>10
<1>12. ASSUME NEW k \in 1 .. n
       PROVE  entry[TailBank(k - 1)][local_tail[TailBank(k - 1)]]
                = [inst |-> Window[k].inst, tag |-> Window[k].tag]
  <2> DEFINE b == TailBank(k - 1)
             i == local_tail[b]
             t == TailPlace(k - 1)
  <2>1. k - 1 \in 0 .. ISSUEWIDTH - 1 /\ k \in 1 .. c  BY <1>1
  <2>2. /\ b \in Bank /\ i \in Index /\ BankOf(t) = b /\ RowOf(t) = i /\ rob_id(b, i) = t
        /\ Behind(t) = k - 1
    BY <1>2, <2>1, TailStep
  <2>3. Window[k] = Row(t)  BY <2>1 DEF WindowIs
  <2> HIDE DEF b, i, t
  <2>4. occupied[b][i]  BY <1>1, <2>1, <2>2 DEF InUse
  <2>5. entry[b][i].tag = t /\ entry[b][i] \in [inst : Inst, tag : Tag]
    BY <1>1, <2>2, <2>4 DEF TagInv, TagNamesRow, TypeOK
  <2>6. Window[k].inst = entry[b][i].inst /\ Window[k].tag = t  BY <2>2, <2>3 DEF Row
  <2>7. entry[b][i] = [inst |-> Window[k].inst, tag |-> Window[k].tag]  BY <2>5, <2>6
  <2>8. QED  BY <2>7 DEF b, i
<1>13. QED  BY <1>4, <1>11, <1>12

(* Position by position: what stays moves up, what arrived is in its row,    *)
(* what was issued is behind it.                                             *)
WindowMove(w, v, insts, results, n, c) ==
  /\ \A k \in 1 .. c - n : /\ v[k].inst = w[n + k].inst /\ v[k].tag = w[n + k].tag
                           /\ v[k].done <=> w[n + k].done \/ w[n + k].tag \in results
  /\ \A j \in 1 .. Len(Arriving(insts)) :
       /\ v[c - n + j].inst = Arriving(insts)[j].inst
       /\ v[c - n + j].tag = Arriving(insts)[j].tag
       /\ ~v[c - n + j].done
  /\ \A j \in 1 .. Len(incoming') :
       v[c - n + Len(Arriving(insts)) + j] = Entering(incoming'[j])

LEMMA WindowMoves ==
  ASSUME NEW insts, NEW results \in SUBSET Awaited, NEW n, ClockStep(insts, results, n),
         TagInv, TailsInStep, NEW c \in 0 .. ROBDEPTH, InUse(c), WindowIs(c), Windowed'
  PROVE  WindowMove(Window, Window', insts, results, n, c)
<1> SUFFICES ASSUME NEW e, e = c - n + Len(Arriving(insts)),
                    NEW w, w = Window, NEW v, v = Window'
             PROVE  WindowMove(w, v, insts, results, n, c)
  OBVIOUS
<1> DEFINE A == Arriving(insts)
           m == Len(A)
<1>1. /\ n \in 0 .. c /\ m \in 0 .. ROBDEPTH - c /\ c \in Nat /\ m \in Nat
      /\ ROBDEPTH \in Nat \ {0} /\ tail_tag \in Tag /\ tail_tag \in 0 .. ROBDEPTH - 1
  <2>1. tail_tag \in Tag  BY TagRange DEF ClockStep, IInv, TypeOK, tail_tag
  <2>2. n <= c /\ m <= ROBDEPTH - c  BY InUseStep DEF TagInv
  <2>3. n \in Nat /\ m \in Nat  BY ArrivalsFit, WidthAssumption DEF ClockStep
  <2> HIDE DEF m
  <2>4. QED  BY <2>1, <2>2, <2>3, TagRange DEF Tag
<1>0. WindowIs(e)'
  <2>1. e \in 0 .. ROBDEPTH /\ InUse(e)'  BY InUseStep DEF TagInv
  <2>2. QED  BY <2>1 DEF Windowed
<1>2. tail_tag' = TailPlace(n)  BY TailStep
<1>3. ASSUME NEW k \in 1 .. e
      PROVE  LET t == TailPlace(n + k - 1)
             IN  /\ n + k - 1 \in 0 .. ROBDEPTH - 1
                 /\ v[k] = [inst |-> entry'[BankOf(t)][RowOf(t)].inst, tag |-> t,
                            done |-> ready'[BankOf(t)][RowOf(t)]]
  <2> HIDE DEF m, A
  <2>1. n + k - 1 \in 0 .. ROBDEPTH - 1 /\ k - 1 \in Nat /\ n + k - 1 = n + (k - 1)
    BY <1>1 DEF m, A
  <2>2. \A x \in Nat : n + x \in 0 .. ROBDEPTH - 1 =>
          rollover_add(ROBDEPTH, rollover_add(ROBDEPTH, tail_tag, n), x)
            = rollover_add(ROBDEPTH, tail_tag, n + x)
    BY <1>1 DEF rollover_add
  <2>3. TailPlace(k - 1)' = rollover_add(ROBDEPTH, tail_tag', k - 1)  BY DEF TailPlace, rollover_add
  <2>4. TailPlace(k - 1)' = TailPlace(n + k - 1)  BY <1>2, <2>1, <2>2, <2>3 DEF TailPlace
  <2>5. v[k] = Row(TailPlace(k - 1))'  BY <1>0 DEF WindowIs
  <2>6. v[k] = [inst |-> entry'[BankOf(TailPlace(k - 1)')][RowOf(TailPlace(k - 1)')].inst,
                tag |-> TailPlace(k - 1)',
                done |-> ready'[BankOf(TailPlace(k - 1)')][RowOf(TailPlace(k - 1)')]]
    BY <2>5 DEF Row, BankOf, RowOf
  <2>7. QED  BY <2>1, <2>4, <2>6
<1>4. ASSUME NEW k \in 1 .. c - n
      PROVE  /\ v[k].inst = w[n + k].inst /\ v[k].tag = w[n + k].tag
             /\ v[k].done <=> w[n + k].done \/ w[n + k].tag \in results
  <2> DEFINE t == TailPlace(n + k - 1)
  <2>1. k \in 1 .. e /\ n + k \in 1 .. c /\ (n + k) - 1 = n + k - 1 /\ n + k - 1 < c
        /\ n + k - 1 \in 0 .. ROBDEPTH - 1
    <3> HIDE DEF m, A
    <3>1. QED  BY <1>1 DEF m, A
  <2>2. v[k] = [inst |-> entry'[BankOf(t)][RowOf(t)].inst, tag |-> t,
                done |-> ready'[BankOf(t)][RowOf(t)]]
    BY <1>3, <2>1
  <2>3. w[n + k] = Row(t)  BY <2>1 DEF WindowIs
  <2>4. t \in Tag /\ Behind(t) < c  BY <1>1, <2>1, PlaceFromTail
  <2> HIDE DEF t, m, A
  <2>5. /\ entry'[BankOf(t)][RowOf(t)] = entry[BankOf(t)][RowOf(t)]
        /\ ready'[BankOf(t)][RowOf(t)] <=> ready[BankOf(t)][RowOf(t)] \/ t \in results
    BY <2>4, RowOverCycle DEF TagInv
  <2>6. QED  BY <2>2, <2>3, <2>5 DEF Row
<1>5. ASSUME NEW j \in 1 .. m
      PROVE  v[c - n + j].inst = A[j].inst /\ v[c - n + j].tag = A[j].tag /\ ~v[c - n + j].done
  <2> DEFINE t == TailPlace(c + j - 1)
             k == c - n + j
  <2>1. k \in 1 .. e /\ n + k - 1 = c + j - 1 /\ c + j - 1 \in 0 .. ROBDEPTH - 1 /\ j - 1 \in Nat
        /\ c + (j - 1) = c + j - 1
    <3> HIDE DEF m, A
    <3>1. QED  BY <1>1 DEF m, A
  <2> HIDE DEF k
  <2>2. v[k] = [inst |-> entry'[BankOf(t)][RowOf(t)].inst, tag |-> t,
                done |-> ready'[BankOf(t)][RowOf(t)]]
    BY <1>3, <2>1
  <2>3. t \in Tag  BY <1>1, <2>1, PlaceFromTail
  <2>4. t = Place(j - 1)
    <3>1. \A x \in Nat : c + x \in 0 .. ROBDEPTH - 1 =>
            rollover_add(ROBDEPTH, rollover_add(ROBDEPTH, tail_tag, c), x)
              = rollover_add(ROBDEPTH, tail_tag, c + x)
      BY <1>1 DEF rollover_add
    <3>2. QED  BY <2>1, <3>1 DEF InUse, Place, TailPlace
  <2>5. A[j].tag = Place(j - 1)  BY ArrivalTags
  <2> HIDE DEF t
  <2>6. entry'[BankOf(t)][RowOf(t)] = A[j] /\ ~ready'[BankOf(t)][RowOf(t)]
    BY <2>3, <2>4, RowOverCycle DEF TagInv
  <2>7. v[k].inst = A[j].inst /\ v[k].tag = A[j].tag /\ ~v[k].done
    BY <2>2, <2>4, <2>5, <2>6
  <2>8. QED  BY <2>7 DEF k
<1>6. \A j \in 1 .. Len(incoming') : v[e + j] = Entering(incoming'[j])
  BY <1>0 DEF WindowIs, Entering
<1>7. QED  BY <1>4, <1>5, <1>6 DEF WindowMove

(* One step of the window.                                                   *)
LEMMA WindowStep ==
  ASSUME NEW insts, NEW results \in SUBSET Awaited, NEW n, ClockStep(insts, results, n),
         TagInv, RowsInv, Windowed, TypeOK', Windowed'
  PROVE  Abstract!Step
<1>1. PICK c \in 0 .. ROBDEPTH : InUse(c)  BY DEF RowsInv
<1> DEFINE A == Arriving(insts)
           m == Len(A)
           L == Len(incoming')
           R == Reserved(insts)
<1>2. PICK e : e = c - n + m  OBVIOUS
<1>3. PICK w : w = Window  OBVIOUS
<1>4. PICK v : v = Window'  OBVIOUS
<1>5. PICK r : r = Len(w) - n  OBVIOUS
<1>6. /\ n <= c /\ m <= ROBDEPTH - c /\ e \in 0 .. ROBDEPTH /\ InUse(e)'
  BY <1>1, <1>2, InUseStep DEF RowsInv, TagInv
<1>7. WindowIs(c) /\ WindowIs(e)'  BY <1>1, <1>6 DEF Windowed
<1>8. /\ \A k \in 1 .. c - n : /\ v[k].inst = w[n + k].inst /\ v[k].tag = w[n + k].tag
                               /\ v[k].done <=> w[n + k].done \/ w[n + k].tag \in results
      /\ \A j \in 1 .. m : /\ v[c - n + j].inst = A[j].inst /\ v[c - n + j].tag = A[j].tag
                           /\ ~v[c - n + j].done
      /\ \A j \in 1 .. L : v[e + j] = Entering(incoming'[j])
  <2>1. TailsInStep  BY DEF RowsInv
  <2>2. e = c - n + Len(Arriving(insts))  BY <1>2
  <2>3. InUse(c) /\ WindowIs(c)  BY <1>1, <1>7
  <2> HIDE DEF L, m, A
  <2>4. WindowMove(w, v, insts, results, n, c)  BY <1>3, <1>4, <2>1, <2>3, WindowMoves
  <2>5. QED  BY <2>2, <2>4 DEF WindowMove, L, m, A
<1>9. /\ Abstract!Retirable = n
      /\ out' = [k \in 1 .. n |-> [inst |-> w[k].inst, tag |-> w[k].tag]]
  BY <1>1, <1>3, <1>6, <1>7, PrefixLeaves DEF RowsInv
<1>10. /\ ROBDEPTH \in Nat \ {0} /\ tail_tag \in Tag /\ ISSUEWIDTH \in Nat \ {0}
       /\ ISSUEWIDTH <= ROBDEPTH
       /\ n \in 0 .. c /\ c \in Nat /\ m \in 0 .. ISSUEWIDTH /\ m \in Nat /\ n \in Nat
       /\ A \in Seq([inst : Inst, tag : Tag]) /\ Len(R) \in 0 .. ISSUEWIDTH
       /\ R \in Seq([inst : Inst, tag : Tag])
       /\ incoming' \in Seq([inst : Inst, tag : Tag]) /\ L \in 0 .. ISSUEWIDTH
       /\ Len(incoming) \in Nat /\ tail_tag' \in Tag
  <2>1. TypeOK /\ n \in 0 .. ISSUEWIDTH  BY DEF ClockStep, IInv
  <2>2. tail_tag \in Tag  BY <2>1, TagRange DEF TypeOK, tail_tag
  <2>3. tail_tag' \in Tag
    <3>1. tail_bank' \in Bank /\ local_tail'[tail_bank'] \in Index  BY DEF TypeOK
    <3>2. rob_id(tail_bank', local_tail'[tail_bank']) \in Tag  BY <3>1, TagRange
    <3>3. QED  BY <3>2 DEF tail_tag, rob_id
  <2>4. A \in Seq([inst : Inst, tag : Tag]) /\ m \in 0 .. ISSUEWIDTH
    BY ArrivalsFit DEF ClockStep
  <2>5. R \in Seq([inst : Inst, tag : Tag]) /\ Len(R) \in 0 .. ISSUEWIDTH
    BY <2>1, ReservedType, BundleLength DEF ClockStep
  <2>6. incoming' \in Seq([inst : Inst, tag : Tag]) /\ L \in 0 .. ISSUEWIDTH
        /\ Len(incoming) \in 0 .. ISSUEWIDTH
    BY <2>1 DEF TypeOK
  <2> HIDE DEF m, L, A, R
  <2>7. QED  BY <1>6, <2>1, <2>2, <2>3, <2>4, <2>5, <2>6, TagRange, WidthAssumption
<1>11. /\ Len(w) = c + Len(incoming) /\ Len(v) = e + L /\ w \in Seq(Slot) /\ v \in Seq(Slot)
       /\ Len(v) <= ROBDEPTH /\ Len(w) \in Nat /\ Len(v) \in Nat
       /\ \A k \in 1 .. Len(w) : w[k].tag = TailPlace(k - 1)
       /\ \A k \in 1 .. Len(v) : v[k].tag = rollover_add(ROBDEPTH, tail_tag', k - 1)
  <2>1. \A k : TailPlace(k - 1)' = rollover_add(ROBDEPTH, tail_tag', k - 1)
    BY DEF TailPlace, rollover_add
  <2>2. /\ w \in Seq(Slot) /\ Len(w) = c + Len(incoming)
        /\ \A k \in 1 .. Len(w) : w[k].tag = TailPlace(k - 1)
    BY <1>3, <1>7 DEF WindowIs
  <2>3. /\ v \in Seq(Slot) /\ Len(v) = e + L /\ e + L \in 0 .. ROBDEPTH
        /\ \A k \in 1 .. Len(v) : v[k].tag = TailPlace(k - 1)'
    BY <1>4, <1>7 DEF WindowIs, Slot
  <2>4. \A k \in 1 .. Len(v) : v[k].tag = rollover_add(ROBDEPTH, tail_tag', k - 1)
    BY <2>1, <2>3, Zenon
  <2> HIDE DEF L
  <2>5. Len(v) <= ROBDEPTH /\ Len(w) \in Nat /\ Len(v) \in Nat  BY <1>10, <2>2, <2>3
  <2>6. QED  BY <2>2, <2>3, <2>4, <2>5, Zenon
(* What is on its way now, and what arrives.                                 *)
<1>12. \/ A = incoming /\ incoming' = R /\ m = Len(incoming) /\ L = Len(R)
       \/ A = R /\ m = Len(R) /\ L = 0 /\ Len(incoming) = 0
  <2>1. CASE ROB_BANK_DEPTH > 1
    BY <2>1 DEF ClockStep, Clock, Arriving
  <2>2. CASE ROB_BANK_DEPTH = 1
    <3>1. A = R /\ incoming' = <<>> /\ incoming = <<>>
      BY <2>2 DEF ClockStep, Clock, Arriving, IInv
    <3>2. QED  BY <3>1
  <2>3. QED  BY <2>1, <2>2, DepthAssumption
<1>13. r \in 0 .. Len(v) /\ Len(v) \in r .. r + ISSUEWIDTH /\ r = c - n + Len(incoming)
  <2> HIDE DEF A, m, L, R
  <2>1. QED  BY <1>2, <1>5, <1>10, <1>11, <1>12
(* What stays, with its results.                                             *)
<1>14. ASSUME NEW k \in 1 .. r
       PROVE  /\ n + k \in 1 .. Len(w)
              /\ v[k].inst = w[n + k].inst /\ v[k].tag = w[n + k].tag
              /\ v[k].done <=> w[n + k].done \/ w[n + k].tag \in results
  <2>1. n + k \in 1 .. Len(w)  BY <1>5, <1>10, <1>11
  <2>2. CASE k <= c - n
    <3>1. k \in 1 .. c - n  BY <1>10, <2>2
    <3>2. QED  BY <1>8, <2>1, <3>1
  <2>3. CASE k > c - n
    <3> DEFINE j == k - (c - n)
    <3>1. /\ j \in 1 .. Len(incoming) /\ c - n + j = k /\ c + j = n + k /\ j \in Nat
          /\ n + k - 1 \in 0 .. ROBDEPTH - 1 /\ c <= n + k - 1
      <4>1. Len(w) <= ROBDEPTH  BY <1>3, <1>7, <1>11 DEF WindowIs
      <4>2. QED  BY <1>10, <1>11, <1>13, <2>1, <2>3, <4>1
    <3> HIDE DEF j
    <3>2. A = incoming /\ j \in 1 .. m
      <4> HIDE DEF A, m, L, R
      <4>1. Len(incoming) # 0  BY <1>10, <3>1
      <4>2. QED  BY <1>12, <3>1, <4>1
    <3>3. w[n + k] = Entering(incoming[j])  BY <1>3, <1>7, <3>1 DEF WindowIs
    <3>4. /\ v[k].inst = A[j].inst /\ v[k].tag = A[j].tag /\ ~v[k].done
      BY <1>8, <3>1, <3>2
    <3>5. w[n + k].tag \notin results
      <4>1. w[n + k].tag = TailPlace(n + k - 1)
        <5>1. PICK i : i = n + k  OBVIOUS
        <5>2. w[i].tag = TailPlace(i - 1)  BY <1>11, <2>1, <5>1
        <5>3. n \in Nat /\ k \in Nat /\ i \in Nat  BY <1>10, <1>11, <1>13, <2>1, <5>1
        <5>4. i - 1 = n + k - 1  BY <5>1, <5>3
        <5>5. QED  BY <5>1, <5>2, <5>4, Zenon
      <4>2. Behind(TailPlace(n + k - 1)) = n + k - 1  BY <1>10, <3>1, PlaceFromTail
      <4>3. \A t \in results : Behind(t) < c  BY <1>1 DEF Awaited, InUse
      <4>4. ~(n + k - 1 < c)  BY <1>10, <3>1
      <4>5. QED  BY <4>1, <4>2, <4>3, <4>4
    <3>6. QED  BY <2>1, <3>2, <3>3, <3>4, <3>5 DEF Entering
  <2>4. QED  BY <1>10, <2>2, <2>3
(* What is new.                                                              *)
<1>15. ASSUME NEW k \in r + 1 .. Len(v)
       PROVE  v[k].inst \in Inst /\ ~v[k].done
  <2>1. \A j \in 1 .. Len(R) : R[j].inst \in Inst
    <3>1. \A j \in 1 .. Len(R) : R[j] \in [inst : Inst, tag : Tag]  BY <1>10, ElementOfSeq
    <3>2. QED  BY <3>1
  <2>2. CASE A = incoming /\ incoming' = R /\ m = Len(incoming) /\ L = Len(R)
    <3> DEFINE j == k - e
    <3>1. j \in 1 .. Len(R) /\ e + j = k
      <4> HIDE DEF A, m, L, R
      <4>1. QED  BY <1>2, <1>10, <1>11, <1>13, <2>2
    <3> HIDE DEF j
    <3>2. v[k] = Entering(R[j])
      <4> HIDE DEF A, m, L, R
      <4>1. QED  BY <1>8, <2>2, <3>1
    <3>3. QED  BY <2>1, <3>1, <3>2 DEF Entering
  <2>3. CASE A = R /\ m = Len(R) /\ L = 0 /\ Len(incoming) = 0
    <3> DEFINE j == k - (c - n)
    <3>1. j \in 1 .. m /\ c - n + j = k
      <4> HIDE DEF A, m, L, R
      <4>1. QED  BY <1>2, <1>10, <1>11, <1>13, <2>3
    <3> HIDE DEF j
    <3>2. v[k].inst = A[j].inst /\ ~v[k].done  BY <1>8, <3>1
    <3> HIDE DEF A, m, L, R
    <3>3. QED  BY <2>1, <2>3, <3>1, <3>2
  <2>4. QED  BY <1>12, <2>2, <2>3
<1> HIDE DEF A, m, L, R
<1>16. results \in SUBSET Abstract!Tags(w)
  <2>1. ASSUME NEW t \in results PROVE \E k \in 1 .. Len(w) : w[k].tag = t
    <3>1. t \in Tag /\ Behind(t) < c  BY <1>1, TagRange DEF Awaited, InUse
    <3> DEFINE d == Behind(t)
    <3>2. d \in 0 .. ROBDEPTH - 1 /\ TailPlace(d) = t
      BY <1>10, <3>1, DistanceInRing, RolloverOfDistance DEF Behind, TailPlace, Tag
    <3> HIDE DEF d
    <3>3. d < c  BY <3>1 DEF d
    <3>4. d + 1 \in 1 .. Len(w) /\ (d + 1) - 1 = d  BY <1>10, <1>11, <3>2, <3>3
    <3>5. w[d + 1].tag = t  BY <1>11, <3>2, <3>4
    <3>6. QED  BY <3>4, <3>5
  <2>2. QED  BY <2>1 DEF Abstract!Tags
<1>17. SubSeq(v, 1, r) = Abstract!Complete(SubSeq(w, n + 1, Len(w)), results)
  <2> DEFINE s == SubSeq(w, n + 1, Len(w))
             x == SubSeq(v, 1, r)
             y == Abstract!Complete(s, results)
  <2>1. \A k \in 1 .. Len(w) : w[k] \in Slot  BY <1>11, ElementOfSeq
  <2>2. \A k \in 1 .. Len(v) : v[k] \in Slot  BY <1>11, ElementOfSeq
  <2>3. s \in Seq(Slot) /\ Len(s) = r /\ \A k \in 1 .. r : s[k] = w[n + k]
    <3>1. /\ n + 1 \in Int /\ Len(w) \in Int /\ \A k \in n + 1 .. Len(w) : w[k] \in Slot
          /\ r = Len(w) - (n + 1) + 1
          /\ r = IF n + 1 <= Len(w) THEN Len(w) - (n + 1) + 1 ELSE 0
          /\ \A k \in 1 .. r : (n + 1) + k - 1 = n + k
      BY <1>5, <1>10, <1>11, <1>13, <2>1
    <3>2. /\ SubSeq(w, n + 1, Len(w)) \in Seq(Slot)
          /\ Len(SubSeq(w, n + 1, Len(w))) = IF n + 1 <= Len(w) THEN Len(w) - (n + 1) + 1 ELSE 0
          /\ \A k \in 1 .. Len(w) - (n + 1) + 1 : SubSeq(w, n + 1, Len(w))[k] = w[(n + 1) + k - 1]
      BY <3>1, SubSeqProperties
    <3>3. QED  BY <3>1, <3>2
  <2>4. x \in Seq(Slot) /\ Len(x) = r /\ \A k \in 1 .. r : x[k] = v[k]
    <3>1. /\ 1 \in Int /\ r \in Int /\ \A k \in 1 .. r : v[k] \in Slot
          /\ r = r - 1 + 1 /\ r = IF 1 <= r THEN r - 1 + 1 ELSE 0
          /\ \A k \in 1 .. r : 1 + k - 1 = k
      BY <1>11, <1>13, <2>2
    <3>2. /\ SubSeq(v, 1, r) \in Seq(Slot)
          /\ Len(SubSeq(v, 1, r)) = IF 1 <= r THEN r - 1 + 1 ELSE 0
          /\ \A k \in 1 .. r - 1 + 1 : SubSeq(v, 1, r)[k] = v[1 + k - 1]
      BY <3>1, SubSeqProperties
    <3>3. QED  BY <3>1, <3>2
  <2>5. y = [k \in 1 .. r |-> [s[k] EXCEPT !.done = @ \/ s[k].tag \in results]]
    <3> HIDE DEF s
    <3>1. QED  BY <2>3 DEF Abstract!Complete
  <2> HIDE DEF s, x, y
  <2>6. ASSUME NEW k \in 1 .. r PROVE x[k] = [s[k] EXCEPT !.done = @ \/ s[k].tag \in results]
    <3>1. x[k] \in Slot /\ s[k] \in Slot /\ x[k] = v[k] /\ s[k] = w[n + k]
      BY <2>3, <2>4, ElementOfSeq
    <3>2. /\ x[k].inst = s[k].inst /\ x[k].tag = s[k].tag
          /\ x[k].done <=> s[k].done \/ s[k].tag \in results
      BY <1>14, <3>1
    <3>3. x[k].done = (s[k].done \/ s[k].tag \in results)  BY <3>1, <3>2 DEF Slot
    <3>4. \A z : \A a, b \in Slot : a.inst = b.inst /\ a.tag = b.tag /\ a.done = z
            => a = [b EXCEPT !.done = z]
      BY DEF Slot
    <3>5. QED  BY <3>1, <3>2, <3>3, <3>4
  <2>7. x = [k \in 1 .. r |-> x[k]]  BY <2>4
  <2>8. x = y  BY <2>5, <2>6, <2>7
  <2>9. QED  BY <2>8 DEF s, x, y
<1>18. Abstract!Issued(SubSeq(v, r + 1, Len(v)))
  <2> DEFINE s == SubSeq(v, r + 1, Len(v))
  <2>1. \A k \in 1 .. Len(v) : v[k] \in Slot  BY <1>11, ElementOfSeq
  <2>2. /\ r + 1 \in Int /\ Len(v) \in Int /\ \A k \in r + 1 .. Len(v) : v[k] \in Slot
        /\ \A k \in 1 .. Len(v) - (r + 1) + 1 : (r + 1) + k - 1 \in r + 1 .. Len(v)
        /\ (IF r + 1 <= Len(v) THEN Len(v) - (r + 1) + 1 ELSE 0) = Len(v) - (r + 1) + 1
    BY <1>11, <1>13, <2>1
  <2>3. /\ Len(s) = (IF r + 1 <= Len(v) THEN Len(v) - (r + 1) + 1 ELSE 0)
        /\ \A k \in 1 .. Len(v) - (r + 1) + 1 : s[k] = v[(r + 1) + k - 1]
    BY <2>2, SubSeqProperties
  <2> HIDE DEF s
  <2>4. \A k \in 1 .. Len(s) : s[k].inst \in Inst /\ ~s[k].done  BY <1>15, <2>2, <2>3
  <2>5. QED  BY <2>4 DEF Abstract!Issued, s
<1>19. ASSUME NEW j \in 1 .. Len(v), NEW k \in 1 .. Len(v), v[j].tag = v[k].tag
       PROVE  j = k
  <2>1. j - 1 \in 0 .. ROBDEPTH - 1 /\ k - 1 \in 0 .. ROBDEPTH - 1  BY <1>10, <1>11
  <2>2. tail_tag' \in 0 .. ROBDEPTH - 1  BY <1>10 DEF Tag
  <2>3. /\ Distance(ROBDEPTH, tail_tag', rollover_add(ROBDEPTH, tail_tag', j - 1)) = j - 1
        /\ Distance(ROBDEPTH, tail_tag', rollover_add(ROBDEPTH, tail_tag', k - 1)) = k - 1
    BY <1>10, <2>1, <2>2, DistanceOfRollover
  <2>4. j - 1 = k - 1  BY <1>11, <1>19, <2>3
  <2>5. QED  BY <2>4
<1>20. QED
  BY <1>3, <1>4, <1>5, <1>9, <1>11, <1>13, <1>16, <1>17, <1>18, <1>19 DEF Abstract!Step

(* The reorder buffer is an in-order window of ROBDEPTH instructions, for    *)
(* every width and depth: what is issued leaves in the order of issue, only  *)
(* complete and with all that is complete before it, unchanged but for its   *)
(* own result.                                                               *)
THEOREM BufferIsWindow == Spec => InOrder
<1>1. Init => Abstract!Init
  <2> SUFFICES ASSUME Init PROVE Abstract!Init  OBVIOUS
  <2>1. out = <<>> /\ incoming = <<>>  BY DEF Init
  <2>2. Occupancy = 0
    <3>1. {r \in Bank \X Index : occupied[r[1]][r[2]]} = {}  BY DEF Init
    <3>2. QED  BY <3>1, FS_EmptySet DEF Occupancy
  <2>3. Window = <<>>  BY <2>1, <2>2 DEF Window, Held
  <2>4. QED  BY <2>1, <2>3 DEF Abstract!Init
<1>2. IInv /\ IInv' /\ TagInv /\ RowsInv /\ Windowed /\ Windowed' /\ [Next]_vars
        => [Abstract!Step]_(Abstract!vars)
  <2> SUFFICES ASSUME IInv, IInv', TagInv, RowsInv, Windowed, Windowed', [Next]_vars
               PROVE  [Abstract!Step]_(Abstract!vars)
    OBVIOUS
  <2>1. CASE Next
    <3>1. PICK insts \in Bundle, results \in SUBSET Awaited, n \in 0 .. ISSUEWIDTH :
            Len(insts) <= free /\ Clock(insts, results, n)
      BY <2>1 DEF Next, Cycle
    <3>2. ClockStep(insts, results, n)  BY <3>1 DEF ClockStep
    <3>3. TypeOK'  BY DEF IInv
    <3>4. QED  BY <3>2, <3>3, WindowStep
  <2>2. CASE UNCHANGED vars
    <3>1. Window' = Window /\ out' = out
      BY <2>2 DEF vars, Window, Held, Occupancy, RowFromTail, tail_tag, rob_id
    <3>2. QED  BY <3>1 DEF Abstract!vars
  <2>3. QED  BY <2>1, <2>2
<1>3. QED
  BY <1>1, <1>2, InvariantHolds, CounterInStep, RowsInOrder, WindowedAlways, PTL
     DEF Spec, InOrder, Abstract!Spec
=============================================================================
