----------------------------- MODULE FetchProofs -----------------------------
(***************************************************************************)
(* Proofs about fetching: for every number of threads, of requests on      *)
(* their way and of instructions in a word, the few values of an epoch     *)
(* tell the answers of old paths from those of the current one.            *)
(***************************************************************************)
EXTENDS Fetch, WellFoundedInduction, TLAPS

-----------------------------------------------------------------------------
(* The smallest of a set of indices.                                        *)
LEMMA FirstIs ==
  ASSUME NEW S, S \subseteq Nat, S # {}
  PROVE  First(S) \in S /\ \A j \in S : First(S) <= j
<1> DEFINE R == OpToRel(<, Nat)
<1>1. IsWellFoundedOn(R, Nat)  BY NatLessThanWellFounded
<1>2. \A x, y \in Nat : y < x => <<y, x>> \in R  BY DEF OpToRel
<1> HIDE DEF R
<1>3. PICK x \in S : \A y \in S : ~(<<y, x>> \in R)  BY <1>1, WFMin
<1>4. \A y \in S : x <= y
  <2>1. \A y \in S : y \in Nat /\ x \in Nat /\ ~(y < x)  BY <1>2, <1>3
  <2>2. QED  BY <2>1
<1>5. QED  BY <1>4 DEF First

LEMMA FirstOf ==
  ASSUME NEW S, S \subseteq Nat, NEW i \in S, \A j \in S : i <= j
  PROVE  First(S) = i
<1>1. First(S) \in S /\ \A j \in S : First(S) <= j  BY FirstIs
<1>2. First(S) <= i /\ i <= First(S) /\ First(S) \in Nat /\ i \in Nat  BY <1>1
<1>3. QED  BY <1>2

-----------------------------------------------------------------------------
(* By how many redirects the epoch e of thread t is behind, and by how many  *)
(* anything on its way can be: commit redirects at an instruction only when  *)
(* one of the epoch was delivered, and by an interrupt only once until then. *)
Behind(t, e) == IF epoch[t] >= e THEN epoch[t] - e ELSE epoch[t] + EPOCHS - e
Reach(t)     == IF delivered[t] THEN 0 ELSE IF int_in_process[t] THEN 2 ELSE 1

InReach(r) == Behind(r.thread, r.epoch) <= Reach(r.thread)

(* Nothing that was requested or fetched is older than that, and once an     *)
(* instruction of the current epoch was fetched nothing older follows.       *)
EpochsInReach ==
  /\ \A i \in DOMAIN inflight : InReach(inflight[i])
  /\ fetched # <<>> =>
       /\ fetched[1] # <<>> /\ InReach(fetched[1][1])
       /\ fetched[1][1].epoch = epoch[fetched[1][1].thread] =>
            \A i \in DOMAIN inflight : inflight[i].thread = fetched[1][1].thread
                                         => inflight[i].epoch = fetched[1][1].epoch

(* The requests of the current path are the last ones of their thread.       *)
LiveLast ==
  \A i, j \in DOMAIN inflight :
    i < j /\ inflight[i].thread = inflight[j].thread /\ Live(inflight[i]) => Live(inflight[j])

(* Each of them is for the word after the one before, and so is pc.          *)
Follows(i, j) == i < j /\ inflight[i].thread = inflight[j].thread
WordByWord ==
  \A i \in DOMAIN inflight : Live(inflight[i]) =>
    /\ \A j \in DOMAIN inflight :
         Follows(i, j) /\ (\A k \in DOMAIN inflight : Follows(i, k) => j <= k)
           => inflight[j].pc = NextWord(inflight[i].pc)
    /\ (\A j \in DOMAIN inflight : ~Follows(i, j))
           => pc[inflight[i].thread] = NextWord(inflight[i].pc)

IInv == TypeOK /\ EpochsInReach /\ LiveLast /\ WordByWord

-----------------------------------------------------------------------------
(* The queue of requests after one is appended, and after one has left.      *)
LEMMA Queued ==
  ASSUME TypeOK, NEW r \in RequestType, inflight' = Append(inflight, r)
  PROVE  /\ Len(inflight) \in Nat /\ DOMAIN inflight = 1 .. Len(inflight)
         /\ DOMAIN inflight' = 1 .. Len(inflight) + 1
         /\ \A i \in 1 .. Len(inflight) : inflight'[i] = inflight[i] /\ inflight[i] \in RequestType
         /\ inflight'[Len(inflight) + 1] = r
         /\ inflight' \in Seq(RequestType) /\ Len(inflight') = Len(inflight) + 1
<1>1. inflight \in Seq(RequestType)  BY DEF TypeOK
<1> HIDE DEF TypeOK
<1>2. QED  BY <1>1

LEMMA Answered ==
  ASSUME TypeOK, inflight # <<>>, inflight' = Tail(inflight)
  PROVE  /\ Len(inflight) \in Nat \ {0} /\ DOMAIN inflight = 1 .. Len(inflight)
         /\ DOMAIN inflight' = 1 .. Len(inflight) - 1
         /\ \A i \in 1 .. Len(inflight) - 1 : inflight'[i] = inflight[i + 1]
         /\ \A i \in 1 .. Len(inflight) : inflight[i] \in RequestType
         /\ Head(inflight) = inflight[1]
         /\ inflight' \in Seq(RequestType) /\ Len(inflight') = Len(inflight) - 1
<1>1. inflight \in Seq(RequestType)  BY DEF TypeOK
<1>2. QED  BY <1>1

(* The epochs around the ring.                                               *)
LEMMA NextEpoch ==
  ASSUME NEW E \in Nat, E >= 2, NEW e \in 0 .. E - 1
  PROVE  (e + 1) % E = (IF e + 1 = E THEN 0 ELSE e + 1) /\ (e + 1) % E \in 0 .. E - 1 /\ (e + 1) % E # e
OBVIOUS

LEMMA Words ==
  ASSUME NEW a \in PC
  PROVE  /\ NextWord(a) \in PC /\ Follow(a, 0) = a
         /\ count_read(a) \in 1 .. IFUINST
         /\ Follow(a, count_read(a)) = NextWord(a)
         /\ \A n \in Nat : Follow(a, n) \in PC
<1>1. Size \in Nat \ {0} /\ IFUINST \in Nat \ {0} /\ a \in 0 .. Size - 1
  BY SizeAssumption DEF PC
<1>2. \A x \in Nat, s \in Nat \ {0} : x % s \in 0 .. s - 1 /\ (x < s => x % s = x)
  OBVIOUS
<1>3. a % IFUINST \in 0 .. IFUINST - 1 /\ a % IFUINST <= a
  <2>1. \A x \in Nat, s \in Nat \ {0} : x % s <= x  OBVIOUS
  <2>2. a \in Nat  BY <1>1
  <2>3. QED  BY <1>1, <1>2, <2>1, <2>2
<1> DEFINE w == a % IFUINST
<1>4. count_read(a) = IFUINST - w /\ NextWord(a) = ((a - w) + IFUINST) % Size
  BY DEF count_read, NextWord, Follow
<1>5. w \in 0 .. IFUINST - 1 /\ w <= a  BY <1>3
<1> HIDE DEF w
<1>6. (a - w) + IFUINST = a + (IFUINST - w) /\ (a - w) + IFUINST \in Nat /\ IFUINST - w \in 1 .. IFUINST
  BY <1>1, <1>5
<1>7. \A n \in Nat : Follow(a, n) \in PC /\ a + n \in Nat  BY <1>1, <1>2 DEF Follow, PC
<1>8. Follow(a, 0) = a
  <2>1. a \in Nat /\ a < Size /\ a + 0 = a  BY <1>1
  <2>2. QED  BY <1>1, <1>2, <2>1 DEF Follow
<1>9. NextWord(a) \in PC  BY <1>1, <1>2, <1>4, <1>6 DEF PC
<1>10. QED  BY <1>4, <1>6, <1>7, <1>8, <1>9 DEF Follow

(* The instructions of an answer.                                            *)
LEMMA InstructionsAre ==
  ASSUME NEW r \in RequestType, NEW n \in 1 .. count_read(r.pc), NEW target \in PC
  PROVE  LET b == Instructions(r, n, target)
         IN  /\ b \in Seq(FetchedInstruction) /\ Len(b) = n /\ n \in Nat \ {0}
             /\ DOMAIN b = 1 .. n /\ b # <<>>
             /\ b[1].pc = r.pc /\ b[n].next_pc = target
             /\ \A i \in 1 .. n : b[i].thread = r.thread /\ b[i].epoch = r.epoch
             /\ \A i \in 2 .. n : b[i].pc = b[i - 1].next_pc
<1> DEFINE b == Instructions(r, n, target)
<1>1. r.pc \in PC /\ r.epoch \in 0 .. EPOCHS - 1 /\ r.thread \in Thread  BY DEF RequestType
<1>2. n \in Nat \ {0}  BY <1>1, Words, SizeAssumption
<1>3. \A m \in Nat : Follow(r.pc, m) \in PC  BY <1>1, Words
<1>4. Follow(r.pc, 0) = r.pc  BY <1>1, Words
<1>5. b = [i \in 1 .. n |-> [pc |-> Follow(r.pc, i - 1), epoch |-> r.epoch, thread |-> r.thread,
                             next_pc |-> IF i = n THEN target ELSE Follow(r.pc, i)]]
  BY DEF Instructions
<1> HIDE DEF b
<1>6. \A i \in 1 .. n : /\ b[i].pc = Follow(r.pc, i - 1)
                        /\ b[i].thread = r.thread /\ b[i].epoch = r.epoch
                        /\ b[i].next_pc = (IF i = n THEN target ELSE Follow(r.pc, i))
                        /\ b[i] \in FetchedInstruction
  BY <1>1, <1>2, <1>3, <1>5 DEF FetchedInstruction
<1>7. b \in [1 .. n -> FetchedInstruction]  BY <1>5, <1>6
<1>8. b \in Seq(FetchedInstruction) /\ Len(b) = n /\ DOMAIN b = 1 .. n  BY <1>2, <1>7
<1>9. b # <<>>  BY <1>2, <1>8
<1>10. b[1].pc = r.pc /\ b[n].next_pc = target  BY <1>2, <1>4, <1>6
<1>11. \A i \in 2 .. n : b[i].pc = b[i - 1].next_pc
  <2> TAKE i \in 2 .. n
  <2>1. i \in 1 .. n /\ i - 1 \in 1 .. n /\ i - 1 # n  BY <1>2
  <2>2. QED  BY <1>6, <2>1
<1>12. QED  BY <1>2, <1>6, <1>8, <1>9, <1>10, <1>11 DEF b

-----------------------------------------------------------------------------
(* The registers keep their types.                                           *)
LEMMA TypeStep == ASSUME TypeOK, [Next]_vars PROVE TypeOK'
<1> USE DEF TypeOK
<1>1. ASSUME NEW t \in Thread, requestRead(t) PROVE TypeOK'
  <2> DEFINE r == [pc |-> pc[t], epoch |-> epoch[t], local_epoch |-> local_epoch[t], thread |-> t]
  <2>1. r \in RequestType  BY DEF RequestType
  <2>2. inflight' = Append(inflight, r) /\ Len(inflight) < INFLIGHT  BY <1>1 DEF requestRead
  <2>3. inflight' \in Seq(RequestType) /\ Len(inflight') = Len(inflight) + 1 /\ Len(inflight) \in Nat
    BY <2>1, <2>2, Queued
  <2>4. Len(inflight') <= INFLIGHT  BY <2>2, <2>3, SizeAssumption
  <2>5. pc' \in [Thread -> PC]  BY <1>1, Words DEF requestRead
  <2>6. UNCHANGED <<epoch, local_epoch, fetched, delivered, int_in_process>>
    BY <1>1 DEF requestRead
  <2>7. QED  BY <2>3, <2>4, <2>5, <2>6
<1>2. ASSUME inflight # <<>>, inflight' = Tail(inflight)
      PROVE  inflight' \in Seq(RequestType) /\ Len(inflight') <= INFLIGHT
                /\ Head(inflight) \in RequestType
  <2>1. Len(inflight) \in Nat \ {0} /\ Len(inflight') = Len(inflight) - 1
           /\ inflight' \in Seq(RequestType) /\ Head(inflight) = inflight[1]
           /\ \A i \in 1 .. Len(inflight) : inflight[i] \in RequestType
    BY <1>2, Answered
  <2>2. QED  BY <2>1, SizeAssumption
<1>3. ASSUME dropReadResp PROVE TypeOK'  BY <1>2, <1>3 DEF dropReadResp
<1>4. ASSUME NEW r \in RequestType, NEW n \in 1 .. count_read(r.pc), NEW target \in PC,
             fetched' = <<Instructions(r, n, target)>>
      PROVE  fetched' \in Seq(Seq(FetchedInstruction)) /\ Len(fetched') <= 1
  <2> DEFINE b == Instructions(r, n, target)
  <2>1. b \in Seq(FetchedInstruction)  BY InstructionsAre
  <2> HIDE DEF b
  <2>2. <<b>> \in Seq(Seq(FetchedInstruction)) /\ Len(<<b>>) <= 1  BY <2>1
  <2>3. QED  BY <1>4, <2>2 DEF b
<1>5. ASSUME getStraight PROVE TypeOK'
  <2>1. PICK r \in RequestType : r = Head(inflight)  BY <1>2, <1>5 DEF getStraight
  <2>2. r.pc \in PC /\ count_read(r.pc) \in 1 .. count_read(r.pc)
            /\ Follow(r.pc, count_read(r.pc)) \in PC
    <3>1. r.pc \in PC  BY DEF RequestType
    <3>2. count_read(r.pc) \in 1 .. IFUINST /\ \A m \in Nat : Follow(r.pc, m) \in PC
      BY <3>1, Words
    <3>3. QED  BY <3>1, <3>2, SizeAssumption
  <2>3. fetched' = <<Instructions(r, count_read(r.pc), Follow(r.pc, count_read(r.pc)))>>
    BY <1>5, <2>1 DEF getStraight
  <2>4. fetched' \in Seq(Seq(FetchedInstruction)) /\ Len(fetched') <= 1
    BY <1>4, <2>2, <2>3
  <2>5. UNCHANGED <<pc, epoch, local_epoch, delivered, int_in_process>> /\ inflight # <<>>
           /\ inflight' = Tail(inflight)
    BY <1>5 DEF getStraight
  <2>6. QED  BY <1>2, <2>4, <2>5
<1>6. ASSUME getTaken PROVE TypeOK'
  <2>1. PICK r \in RequestType : r = Head(inflight)  BY <1>2, <1>6 DEF getTaken
  <2>2. PICK n \in 1 .. count_read(r.pc), target \in Targets :
             /\ fetched' = <<Instructions(r, n, target)>>
             /\ pc' = [pc EXCEPT ![r.thread] = target]
    BY <1>6, <2>1 DEF getTaken
  <2>3. target \in PC  BY SizeAssumption
  <2>4. fetched' \in Seq(Seq(FetchedInstruction)) /\ Len(fetched') <= 1
    BY <1>4, <2>2, <2>3
  <2>5. /\ UNCHANGED <<epoch, delivered, int_in_process>> /\ inflight # <<>>
        /\ inflight' = Tail(inflight)
        /\ local_epoch' = [local_epoch EXCEPT ![r.thread] = (@ + 1) % LOCAL_EPOCHS]
    BY <1>6, <2>1 DEF getTaken
  <2>6. pc' \in [Thread -> PC]  BY <2>2, <2>3
  <2>7. local_epoch' \in [Thread -> 0 .. LOCAL_EPOCHS - 1]
    BY <2>5, NextEpoch, EpochAssumption
  <2>8. QED  BY <1>2, <2>4, <2>5, <2>6, <2>7
<1>7. ASSUME decode PROVE TypeOK'
  <2>1. fetched' \in Seq(Seq(FetchedInstruction)) /\ Len(fetched') <= 1
    BY <1>7 DEF decode
  <2>2. delivered' \in [Thread -> BOOLEAN]
    BY Zenon, <1>7 DEF decode
  <2>3. QED  BY <1>7, <2>1, <2>2 DEF decode
<1>8. ASSUME NEW t \in Thread, redirect(t),
             \E b \in BOOLEAN : int_in_process' = [int_in_process EXCEPT ![t] = b]
      PROVE  TypeOK'
  <2>1. pc' \in [Thread -> PC] /\ delivered' \in [Thread -> BOOLEAN]
    BY <1>8, SizeAssumption DEF redirect
  <2>2. epoch' \in [Thread -> 0 .. EPOCHS - 1]
    <3>1. EPOCHS \in Nat /\ EPOCHS >= 2  BY EpochAssumption
    <3>2. \A e \in 0 .. EPOCHS - 1 : (e + 1) % EPOCHS \in 0 .. EPOCHS - 1  BY <3>1, NextEpoch
    <3>3. QED  BY <1>8, <3>2 DEF redirect
  <2>3. QED  BY <1>8, <2>1, <2>2 DEF redirect
<1>9. CASE Next
  <2>1. ASSUME NEW t \in Thread, redirect_instruction(t)
        PROVE  \E b \in BOOLEAN : int_in_process' = [int_in_process EXCEPT ![t] = b]
    <3>1. PICK mret \in BOOLEAN : int_in_process' = [int_in_process EXCEPT ![t] = @ /\ ~mret]
      BY <2>1 DEF redirect_instruction
    <3>2. (int_in_process[t] /\ ~mret) \in BOOLEAN  OBVIOUS
    <3>3. int_in_process' = [int_in_process EXCEPT ![t] = int_in_process[t] /\ ~mret]
      BY <3>1
    <3>4. QED  BY <3>2, <3>3
  <2>2. ASSUME NEW t \in Thread, redirect_interrupt(t)
        PROVE  \E b \in BOOLEAN : int_in_process' = [int_in_process EXCEPT ![t] = b]
    BY <2>2 DEF redirect_interrupt
  <2>3. QED
    BY <1>1, <1>3, <1>5, <1>6, <1>7, <1>8, <1>9, <2>1, <2>2
       DEF Next, getReadResp, redirect_instruction, redirect_interrupt
<1>10. CASE UNCHANGED vars  BY <1>10 DEF vars
<1>11. QED  BY <1>9, <1>10

-----------------------------------------------------------------------------
(* A request for the next word.                                              *)
LEMMA RequestStep ==
  ASSUME IInv, NEW t \in Thread, requestRead(t)
  PROVE  EpochsInReach' /\ LiveLast' /\ WordByWord'
<1> DEFINE n == Len(inflight)
           r == [pc |-> pc[t], epoch |-> epoch[t], local_epoch |-> local_epoch[t], thread |-> t]
<1>1. /\ TypeOK /\ r \in RequestType /\ inflight' = Append(inflight, r)
      /\ pc' = [pc EXCEPT ![t] = NextWord(@)]
      /\ epoch' = epoch /\ local_epoch' = local_epoch /\ fetched' = fetched
      /\ delivered' = delivered /\ int_in_process' = int_in_process
  BY DEF IInv, TypeOK, RequestType, requestRead
<1>2. /\ n \in Nat /\ DOMAIN inflight = 1 .. n /\ DOMAIN inflight' = 1 .. n + 1
      /\ \A i \in 1 .. n : inflight'[i] = inflight[i] /\ inflight[i] \in RequestType
      /\ inflight'[n + 1] = r
  BY <1>1, Queued
<1>3. /\ r.pc = pc[t] /\ r.epoch = epoch[t] /\ r.local_epoch = local_epoch[t] /\ r.thread = t
      /\ pc \in [Thread -> PC] /\ epoch[t] \in Nat
  BY <1>1 DEF TypeOK
<1>4. /\ \A q : Live(q)' <=> Live(q)
      /\ \A q : InReach(q)' <=> InReach(q)
      /\ \A i : Live(inflight[i])' <=> Live(inflight'[i])
      /\ \A i : InReach(inflight[i])' <=> InReach(inflight'[i])
  BY <1>1 DEF Live, InReach, Behind, Reach
<1>5. Live(r) /\ InReach(r)
  BY <1>3 DEF Live, InReach, Behind, Reach
<1> HIDE DEF n, r
<1>6. \A i \in DOMAIN inflight' : i \in 1 .. n \/ i = n + 1  BY <1>2
<1>7. EpochsInReach'
  <2>1. ASSUME NEW i \in DOMAIN inflight' PROVE InReach(inflight'[i])
    BY <1>2, <1>4, <1>5, <1>6 DEF IInv, EpochsInReach
  <2>2. ASSUME fetched # <<>>, fetched[1][1].epoch = epoch[fetched[1][1].thread],
               NEW i \in DOMAIN inflight', inflight'[i].thread = fetched[1][1].thread
        PROVE  inflight'[i].epoch = fetched[1][1].epoch
    BY <1>2, <1>3, <1>6, <2>2 DEF IInv, EpochsInReach
  <2>3. fetched # <<>> => fetched[1] # <<>> /\ InReach(fetched[1][1])
    BY DEF IInv, EpochsInReach
  <2>4. QED  BY <1>1, <1>4, <2>1, <2>2, <2>3 DEF EpochsInReach
<1>8. LiveLast'
  <2>1. ASSUME NEW i \in DOMAIN inflight', NEW j \in DOMAIN inflight', i < j,
               inflight'[i].thread = inflight'[j].thread, Live(inflight'[i])
        PROVE  Live(inflight'[j])
    <3>1. CASE j = n + 1  BY <1>2, <1>5, <3>1
    <3>2. CASE j \in 1 .. n
      <4>1. i \in 1 .. n  BY <1>2, <2>1, <3>2
      <4>2. QED  BY <1>2, <2>1, <3>2, <4>1 DEF IInv, LiveLast
    <3>3. QED  BY <1>6, <3>1, <3>2
  <2>2. QED  BY <1>4, <2>1 DEF LiveLast
<1>9. WordByWord'
  <2> DEFINE F(i, j) == i < j /\ inflight'[i].thread = inflight'[j].thread
  <2>1. \A i, j \in 1 .. n : F(i, j) <=> Follows(i, j)  BY <1>2 DEF Follows
  <2>2. \A i \in 1 .. n : F(i, n + 1) <=> inflight[i].thread = t  BY <1>2, <1>3
  <2>3. ASSUME NEW i \in DOMAIN inflight', Live(inflight'[i])
        PROVE  /\ \A j \in DOMAIN inflight' :
                    F(i, j) /\ (\A k \in DOMAIN inflight' : F(i, k) => j <= k)
                      => inflight'[j].pc = NextWord(inflight'[i].pc)
               /\ (\A j \in DOMAIN inflight' : ~F(i, j))
                      => pc'[inflight'[i].thread] = NextWord(inflight'[i].pc)
    <3>1. CASE i = n + 1
      <4>1. \A j \in DOMAIN inflight' : ~F(i, j)  BY <1>2, <3>1
      <4>2. pc'[t] = NextWord(pc[t])  BY <1>1, <1>3
      <4>3. QED  BY <1>2, <1>3, <3>1, <4>1, <4>2
    <3>2. CASE i \in 1 .. n
      <4>1. inflight'[i] = inflight[i] /\ Live(inflight[i]) /\ inflight[i].thread \in Thread
        BY <1>2, <2>3, <3>2 DEF RequestType
      <4>2. /\ \A j \in 1 .. n : Follows(i, j) /\ (\A k \in 1 .. n : Follows(i, k) => j <= k)
                                   => inflight[j].pc = NextWord(inflight[i].pc)
            /\ (\A j \in 1 .. n : ~Follows(i, j)) => pc[inflight[i].thread] = NextWord(inflight[i].pc)
        BY <1>2, <3>2, <4>1 DEF IInv, WordByWord
      <4>3. ASSUME NEW j \in DOMAIN inflight', F(i, j), \A k \in DOMAIN inflight' : F(i, k) => j <= k
            PROVE  inflight'[j].pc = NextWord(inflight'[i].pc)
        <5>1. CASE j \in 1 .. n
          <6>1. \A k \in 1 .. n : Follows(i, k) => j <= k  BY <1>2, <2>1, <3>2, <4>3
          <6>2. Follows(i, j)  BY <2>1, <3>2, <4>3, <5>1
          <6>3. QED  BY <1>2, <4>1, <4>2, <5>1, <6>1, <6>2
        <5>2. CASE j = n + 1
          <6>1. \A k \in 1 .. n : ~Follows(i, k)  BY <1>2, <2>1, <3>2, <4>3, <5>2
          <6>2. inflight[i].thread = t  BY <2>2, <3>2, <4>3, <5>2
          <6>3. QED  BY <1>2, <1>3, <4>1, <4>2, <5>2, <6>1, <6>2
        <5>3. QED  BY <1>6, <5>1, <5>2
      <4>4. ASSUME \A j \in DOMAIN inflight' : ~F(i, j)
            PROVE  pc'[inflight'[i].thread] = NextWord(inflight'[i].pc)
        <5>1. n + 1 \in DOMAIN inflight'  BY <1>2
        <5>2. inflight[i].thread # t  BY <2>2, <3>2, <4>4, <5>1
        <5>3. \A j \in 1 .. n : ~Follows(i, j)  BY <1>2, <2>1, <3>2, <4>4
        <5>4. QED  BY <1>1, <1>3, <4>1, <4>2, <5>2, <5>3
      <4>5. QED  BY <4>3, <4>4
    <3>3. QED  BY <1>6, <3>1, <3>2
  <2>4. \A i, j : Follows(i, j)' <=> F(i, j)  BY DEF Follows
  <2> HIDE DEF F
  <2>5. QED  BY <1>4, <2>3, <2>4 DEF WordByWord
<1>10. QED  BY <1>7, <1>8, <1>9

(* The oldest request leaves; the threads of X leave their paths.            *)
LEMMA TailStep ==
  ASSUME IInv, inflight # <<>>, inflight' = Tail(inflight), NEW X,
         epoch' = epoch, delivered' = delivered, int_in_process' = int_in_process,
         \A i \in DOMAIN inflight' : Live(inflight[i])' <=> inflight'[i].thread \notin X /\ Live(inflight'[i]),
         \A u \in Thread \ X : pc'[u] = pc[u]
  PROVE  /\ \A i \in DOMAIN inflight' : InReach(inflight[i])'
         /\ LiveLast' /\ WordByWord'
<1> DEFINE n == Len(inflight)
<1>1. /\ n \in Nat \ {0} /\ DOMAIN inflight = 1 .. n /\ DOMAIN inflight' = 1 .. n - 1
      /\ \A i \in 1 .. n - 1 : inflight'[i] = inflight[i + 1]
      /\ \A i \in 1 .. n : inflight[i] \in RequestType
  BY Answered DEF IInv
<1> HIDE DEF n
<1>2. \A i \in 1 .. n - 1 : i \in Nat /\ i + 1 \in 1 .. n /\ inflight'[i] = inflight[i + 1]
  BY <1>1
<1>3. \A i \in DOMAIN inflight' : InReach(inflight[i])'
  <2>1. \A i : InReach(inflight[i])' <=> InReach(inflight'[i])  BY DEF InReach, Behind, Reach
  <2>2. QED  BY <1>1, <1>2, <2>1 DEF IInv, EpochsInReach
<1>4. LiveLast'
  <2>1. ASSUME NEW i \in DOMAIN inflight', NEW j \in DOMAIN inflight', i < j,
               inflight'[i].thread = inflight'[j].thread, Live(inflight[i])'
        PROVE  Live(inflight[j])'
    <3>1. Live(inflight[i + 1]) /\ inflight'[j].thread \notin X  BY <1>1, <1>2, <2>1
    <3>2. i + 1 < j + 1  BY <1>1, <2>1
    <3>3. Live(inflight[j + 1])  BY <1>1, <1>2, <2>1, <3>1, <3>2 DEF IInv, LiveLast
    <3>4. QED  BY <1>1, <1>2, <3>1, <3>3
  <2>2. QED  BY <2>1 DEF LiveLast
<1>5. WordByWord'
  <2> DEFINE F(i, j) == i < j /\ inflight'[i].thread = inflight'[j].thread
  <2>1. \A i, j \in 1 .. n - 1 : F(i, j) <=> Follows(i + 1, j + 1)  BY <1>1 DEF Follows
  <2>2. ASSUME NEW i \in DOMAIN inflight', Live(inflight[i])'
        PROVE  /\ \A j \in DOMAIN inflight' :
                    F(i, j) /\ (\A k \in DOMAIN inflight' : F(i, k) => j <= k)
                      => inflight'[j].pc = NextWord(inflight'[i].pc)
               /\ (\A j \in DOMAIN inflight' : ~F(i, j))
                      => pc'[inflight'[i].thread] = NextWord(inflight'[i].pc)
    <3>1. i \in 1 .. n - 1 /\ i + 1 \in 1 .. n  BY <1>1, <1>2
    <3>2. /\ Live(inflight[i + 1]) /\ inflight'[i] = inflight[i + 1]
          /\ pc'[inflight'[i].thread] = pc[inflight'[i].thread]
      BY <1>1, <1>2, <2>2, <3>1 DEF RequestType
    <3>3. /\ \A j \in 1 .. n : Follows(i + 1, j) /\ (\A k \in 1 .. n : Follows(i + 1, k) => j <= k)
                                 => inflight[j].pc = NextWord(inflight[i + 1].pc)
          /\ (\A j \in 1 .. n : ~Follows(i + 1, j))
                => pc[inflight[i + 1].thread] = NextWord(inflight[i + 1].pc)
      BY <1>1, <3>1, <3>2 DEF IInv, WordByWord
    <3>4. ASSUME NEW k \in 1 .. n, Follows(i + 1, k)
          PROVE  k - 1 \in 1 .. n - 1 /\ F(i, k - 1) /\ (k - 1) + 1 = k
      <4>1. k \in Nat /\ i \in Nat /\ i + 1 < k /\ i >= 1  BY <1>1, <3>1, <3>4 DEF Follows
      <4>2. k - 1 \in 1 .. n - 1 /\ (k - 1) + 1 = k  BY <1>1, <4>1
      <4>3. QED  BY <2>1, <3>1, <3>4, <4>2
    <3>5. ASSUME NEW j \in DOMAIN inflight', F(i, j), \A k \in DOMAIN inflight' : F(i, k) => j <= k
          PROVE  inflight'[j].pc = NextWord(inflight'[i].pc)
      <4>1. j \in 1 .. n - 1 /\ j + 1 \in 1 .. n /\ inflight'[j] = inflight[j + 1]  BY <1>1, <1>2
      <4>2. Follows(i + 1, j + 1)  BY <2>1, <3>1, <3>5, <4>1
      <4>3. ASSUME NEW k \in 1 .. n, Follows(i + 1, k) PROVE j + 1 <= k
        <5>1. k - 1 \in 1 .. n - 1 /\ F(i, k - 1)  BY <3>4, <4>3
        <5>2. j <= k - 1  BY <1>1, <3>5, <5>1
        <5>3. QED  BY <4>1, <5>1, <5>2
      <4>4. QED  BY <3>2, <3>3, <4>1, <4>2, <4>3
    <3>6. ASSUME \A j \in DOMAIN inflight' : ~F(i, j)
          PROVE  pc'[inflight'[i].thread] = NextWord(inflight'[i].pc)
      <4>1. \A k \in 1 .. n : ~Follows(i + 1, k)  BY <1>1, <3>4, <3>6
      <4>2. QED  BY <3>2, <3>3, <4>1
    <3>7. QED  BY <3>5, <3>6
  <2>3. \A i, j : Follows(i, j)' <=> F(i, j)  BY DEF Follows
  <2> HIDE DEF F
  <2>4. QED  BY <2>2, <2>3 DEF WordByWord
<1>6. QED  BY <1>3, <1>4, <1>5

(* An answer to a request of the current path, of which the first n          *)
(* instructions are fetched.                                                 *)
LEMMA HeadLive ==
  ASSUME IInv, inflight # <<>>, Live(Head(inflight))
  PROVE  /\ Head(inflight) \in RequestType /\ Head(inflight) = inflight[1]
         /\ 1 \in DOMAIN inflight /\ InReach(Head(inflight))
         /\ \A i \in DOMAIN inflight : inflight[i].thread = Head(inflight).thread => Live(inflight[i])
<1>1. TypeOK /\ inflight \in Seq(RequestType)  BY DEF IInv, TypeOK
<1>2. /\ Len(inflight) \in Nat \ {0} /\ DOMAIN inflight = 1 .. Len(inflight)
      /\ Head(inflight) = inflight[1] /\ \A i \in 1 .. Len(inflight) : inflight[i] \in RequestType
  BY <1>1
<1>3. 1 \in DOMAIN inflight  BY <1>2
<1>4. ASSUME NEW i \in DOMAIN inflight, inflight[i].thread = inflight[1].thread PROVE Live(inflight[i])
  <2>1. i = 1 \/ 1 < i  BY <1>2
  <2>2. QED  BY <1>2, <1>3, <1>4, <2>1 DEF IInv, LiveLast
<1>5. QED  BY <1>2, <1>3, <1>4 DEF IInv, EpochsInReach

LEMMA FetchedStep ==
  ASSUME IInv, inflight # <<>>, Live(Head(inflight)), inflight' = Tail(inflight),
         epoch' = epoch, delivered' = delivered, int_in_process' = int_in_process,
         NEW n \in 1 .. count_read(Head(inflight).pc), NEW target \in PC,
         fetched' = <<Instructions(Head(inflight), n, target)>>,
         \A i \in DOMAIN inflight' : InReach(inflight[i])'
  PROVE  EpochsInReach'
<1> DEFINE r == Head(inflight)
           b == Instructions(r, n, target)
<1>1. /\ r \in RequestType /\ r = inflight[1] /\ InReach(r)
      /\ \A i \in DOMAIN inflight : inflight[i].thread = r.thread => Live(inflight[i])
  BY HeadLive
<1>2. b # <<>> /\ b[1].thread = r.thread /\ b[1].epoch = r.epoch
  <2>1. n \in Nat \ {0}  BY <1>1, InstructionsAre
  <2>2. 1 \in 1 .. n  BY <2>1
  <2>3. QED  BY <1>1, <2>2, InstructionsAre
<1>3. fetched' # <<>> /\ fetched'[1] = b
  <2> HIDE DEF b
  <2>1. QED  BY DEF b
<1> HIDE DEF b
<1>4. InReach(fetched[1][1])'
  BY <1>1, <1>2, <1>3 DEF InReach, Behind, Reach
<1>5. ASSUME NEW i \in DOMAIN inflight', inflight'[i].thread = r.thread
      PROVE  inflight'[i].epoch = r.epoch
  <2>1. /\ Len(inflight) \in Nat \ {0} /\ DOMAIN inflight = 1 .. Len(inflight)
        /\ DOMAIN inflight' = 1 .. Len(inflight) - 1 /\ inflight'[i] = inflight[i + 1]
    BY Answered DEF IInv
  <2>2. i + 1 \in DOMAIN inflight  BY <2>1
  <2>3. Live(inflight[i + 1]) /\ Live(r)  BY <1>1, <1>5, <2>1, <2>2
  <2>4. QED  BY <1>5, <2>1, <2>3 DEF Live
<1>6. QED  BY <1>2, <1>3, <1>4, <1>5 DEF EpochsInReach

(* What was fetched.                                                         *)
LEMMA FetchedIs ==
  ASSUME IInv, fetched # <<>>
  PROVE  /\ fetched[1] \in Seq(FetchedInstruction) /\ fetched[1] # <<>>
         /\ fetched[1][1] \in FetchedInstruction
<1>1. fetched \in Seq(Seq(FetchedInstruction)) /\ fetched[1] # <<>>
  BY DEF IInv, TypeOK, EpochsInReach
<1>2. fetched[1] \in Seq(FetchedInstruction)  BY <1>1
<1> DEFINE b == fetched[1]
<1>3. b \in Seq(FetchedInstruction) /\ b # <<>>  BY <1>1, <1>2
<1> HIDE DEF b
<1>4. b[1] \in FetchedInstruction  BY <1>3
<1>5. QED  BY <1>3, <1>4 DEF b

(* Decode hands on what was fetched.                                         *)
LEMMA DecodeStep ==
  ASSUME IInv, decode
  PROVE  EpochsInReach' /\ LiveLast' /\ WordByWord'
<1> DEFINE f == fetched[1][1]
<1>1. /\ fetched # <<>> /\ fetched' = <<>>
      /\ delivered' = [delivered EXCEPT ![f.thread] = @ \/ f.epoch = epoch[f.thread]]
      /\ pc' = pc /\ epoch' = epoch /\ local_epoch' = local_epoch /\ inflight' = inflight
      /\ int_in_process' = int_in_process
  BY DEF decode
<1>2. LiveLast'  BY <1>1 DEF IInv, LiveLast, Live
<1>3. WordByWord'  BY <1>1 DEF IInv, WordByWord, Follows, Live
<1>4. ASSUME NEW i \in DOMAIN inflight PROVE InReach(inflight[i])'
  <2>1. inflight[i] \in RequestType /\ delivered \in [Thread -> BOOLEAN]
           /\ epoch \in [Thread -> 0 .. EPOCHS - 1]
    BY DEF IInv, TypeOK
  <2> DEFINE t == inflight[i].thread
  <2>2. t \in Thread /\ epoch[t] \in Nat  BY <2>1 DEF RequestType
  <2>3. InReach(inflight[i])  BY DEF IInv, EpochsInReach
  <2>4. CASE delivered'[t] = delivered[t]
    BY <1>1, <2>3, <2>4 DEF InReach, Behind, Reach
  <2>5. CASE delivered'[t] # delivered[t]
    <3>1. t = f.thread /\ f.epoch = epoch[t]
      <4>1. t = f.thread  BY <1>1, <2>1, <2>2, <2>5
      <4>2. f.epoch # epoch[t] => delivered'[t] = delivered[t]
        BY Zenon, <1>1, <2>1, <2>2, <4>1
      <4>3. QED  BY <2>5, <4>1, <4>2
    <3>2. inflight[i].epoch = epoch[t]  BY <1>1, <3>1 DEF IInv, EpochsInReach
    <3>3. (Behind(t, inflight[i].epoch) <= Reach(t))'  BY <1>1, <2>2, <3>2 DEF Behind, Reach
    <3>4. QED  BY <1>1, <3>3 DEF InReach
  <2>6. QED  BY <2>4, <2>5
<1>5. EpochsInReach'  BY <1>1, <1>4 DEF EpochsInReach
<1>6. QED  BY <1>2, <1>3, <1>5

(* After a redirect nothing that was requested or fetched before has the     *)
(* epoch of its thread.                                                      *)
LEMMA RedirectStep ==
  ASSUME IInv, NEW t \in Thread, redirect_instruction(t) \/ redirect_interrupt(t)
  PROVE  /\ EpochsInReach' /\ LiveLast' /\ WordByWord'
         /\ \A i \in DOMAIN inflight' :
              Live(inflight[i])' <=> inflight[i].thread # t /\ Live(inflight[i])
<1>1. /\ epoch' = [epoch EXCEPT ![t] = (@ + 1) % EPOCHS]
      /\ delivered' = [delivered EXCEPT ![t] = FALSE]
      /\ local_epoch' = local_epoch /\ inflight' = inflight /\ fetched' = fetched
      /\ \E target : pc' = [pc EXCEPT ![t] = target]
  BY DEF redirect_instruction, redirect_interrupt, redirect
<1>2. \/ delivered[t]
      \/ ~int_in_process[t] /\ int_in_process'[t]
  BY DEF redirect_instruction, redirect_interrupt, IInv, TypeOK
<1>3. \A u \in Thread \ {t} : int_in_process'[u] = int_in_process[u]
  BY Zenon DEF redirect_instruction, redirect_interrupt, IInv, TypeOK
<1>4. /\ epoch \in [Thread -> 0 .. EPOCHS - 1] /\ delivered \in [Thread -> BOOLEAN]
      /\ pc \in [Thread -> PC] /\ EPOCHS \in Nat /\ EPOCHS >= 3
  BY EpochAssumption DEF IInv, TypeOK
<1>5. /\ ~delivered'[t] /\ epoch'[t] = IF epoch[t] + 1 = EPOCHS THEN 0 ELSE epoch[t] + 1
      /\ epoch[t] \in 0 .. EPOCHS - 1
      /\ \A u \in Thread \ {t} : epoch'[u] = epoch[u] /\ delivered'[u] = delivered[u] /\ pc'[u] = pc[u]
  <2>1. EPOCHS >= 2  BY <1>4
  <2>2. epoch[t] \in 0 .. EPOCHS - 1  BY <1>4
  <2>3. (epoch[t] + 1) % EPOCHS = IF epoch[t] + 1 = EPOCHS THEN 0 ELSE epoch[t] + 1
    BY <1>4, <2>1, <2>2, NextEpoch
  <2>4. QED  BY <1>1, <1>4, <2>2, <2>3
<1>6. ASSUME NEW q, q.thread \in Thread, q.epoch \in 0 .. EPOCHS - 1, InReach(q)
      PROVE  InReach(q)' /\ (q.thread = t => q.epoch # epoch'[t])
  <2>1. CASE q.thread # t
    BY <1>3, <1>5, <1>6, <2>1 DEF InReach, Behind, Reach
  <2>2. CASE q.thread = t
    <3>1. Behind(t, q.epoch) <= Reach(t)  BY <1>6, <2>2 DEF InReach
    <3>2. /\ Behind(t, q.epoch) = IF epoch[t] >= q.epoch THEN epoch[t] - q.epoch
                                 ELSE epoch[t] + EPOCHS - q.epoch
          /\ Behind(t, q.epoch) \in Int
      BY <1>4, <1>5, <1>6 DEF Behind
    <3>3. Behind(t, q.epoch) <= 1 /\ (~int_in_process'[t] => Behind(t, q.epoch) <= 0)
      <4>1. CASE delivered[t]
        <5>1. Reach(t) = 0  BY <4>1 DEF Reach
        <5>2. QED  BY <3>1, <3>2, <5>1
      <4>2. CASE ~delivered[t]
        <5>1. int_in_process'[t] /\ Reach(t) = 1  BY <1>2, <4>2 DEF Reach
        <5>2. QED  BY <3>1, <5>1
      <4>3. QED  BY <4>1, <4>2
    <3>4. /\ Behind(t, q.epoch)' = Behind(t, q.epoch) + 1
          /\ q.epoch # epoch'[t]
      <4>1. Behind(t, q.epoch)' = IF epoch'[t] >= q.epoch THEN epoch'[t] - q.epoch
                                  ELSE epoch'[t] + EPOCHS - q.epoch
        BY DEF Behind
      <4>2. QED  BY <1>4, <1>5, <1>6, <3>2, <3>3, <4>1
    <3>5. Reach(t)' = IF int_in_process'[t] THEN 2 ELSE 1  BY <1>5 DEF Reach
    <3>6. (Behind(t, q.epoch) <= Reach(t))'  BY <3>2, <3>3, <3>4, <3>5
    <3>7. QED  BY <2>2, <3>4, <3>6 DEF InReach
  <2>3. QED  BY <2>1, <2>2
<1>7. ASSUME NEW i \in DOMAIN inflight
      PROVE  /\ InReach(inflight[i])'
             /\ Live(inflight[i])' <=> inflight[i].thread # t /\ Live(inflight[i])
  <2>1. inflight[i] \in RequestType /\ InReach(inflight[i])  BY DEF IInv, TypeOK, EpochsInReach
  <2>2. inflight[i].thread \in Thread /\ inflight[i].epoch \in 0 .. EPOCHS - 1
    BY <2>1 DEF RequestType
  <2>3. InReach(inflight[i])'
    BY <1>1, <1>6, <2>1, <2>2 DEF InReach, Behind, Reach
  <2>4. CASE inflight[i].thread = t  BY <1>1, <1>6, <2>1, <2>2, <2>3, <2>4 DEF Live
  <2>5. CASE inflight[i].thread # t  BY <1>1, <1>5, <2>2, <2>3, <2>5 DEF Live
  <2>6. QED  BY <2>4, <2>5
<1>8. EpochsInReach'
  <2>1. ASSUME fetched # <<>>
        PROVE  /\ fetched[1] # <<>> /\ InReach(fetched[1][1])'
               /\ (fetched[1][1].epoch = epoch[fetched[1][1].thread])' =>
                    \A i \in DOMAIN inflight : inflight[i].thread = fetched[1][1].thread
                                                 => inflight[i].epoch = fetched[1][1].epoch
    <3> DEFINE f == fetched[1][1]
    <3>1. f \in FetchedInstruction /\ InReach(f) /\ fetched[1] # <<>>
      BY <2>1, FetchedIs DEF IInv, EpochsInReach
    <3>2. f.thread \in Thread /\ f.epoch \in 0 .. EPOCHS - 1  BY <3>1 DEF FetchedInstruction
    <3>3. InReach(f)' /\ (f.thread = t => f.epoch # epoch'[t])
      <4>1. f' = f  BY <1>1
      <4> HIDE DEF f
      <4>2. QED  BY <1>6, <3>1, <3>2, <4>1 DEF InReach, Behind, Reach
    <3>4. QED  BY <1>1, <1>5, <2>1, <3>1, <3>2, <3>3 DEF IInv, EpochsInReach
  <2>2. QED  BY <1>1, <1>7, <2>1 DEF EpochsInReach
<1>9. LiveLast'  BY <1>1, <1>7 DEF IInv, LiveLast
<1>10. WordByWord'
  <2>1. \A i \in DOMAIN inflight : inflight[i].thread \in Thread
    <3>1. \A i \in DOMAIN inflight : inflight[i] \in RequestType  BY DEF IInv, TypeOK
    <3>2. QED  BY <3>1 DEF RequestType
  <2>2. \A i, j : Follows(i, j)' <=> Follows(i, j)  BY <1>1 DEF Follows
  <2>3. QED  BY <1>1, <1>5, <1>7, <2>1, <2>2 DEF IInv, WordByWord
<1>11. QED  BY <1>1, <1>7, <1>8, <1>9, <1>10

-----------------------------------------------------------------------------
(* Where the path of a thread continues, as PredictedPath sees it.           *)
NextOf == [t \in Thread |-> IF LiveOf(t) = {} THEN pc[t] ELSE inflight[First(LiveOf(t))].pc]

LEMMA LiveOfType ==
  ASSUME TypeOK, NEW t \in Thread
  PROVE  LiveOf(t) \subseteq 1 .. Len(inflight) /\ LiveOf(t) \subseteq Nat /\ NextOf[t] \in PC
<1>1. /\ inflight \in Seq(RequestType) /\ DOMAIN inflight = 1 .. Len(inflight) /\ pc[t] \in PC
      /\ \A i \in DOMAIN inflight : inflight[i] \in RequestType
  BY DEF TypeOK
<1>2. LiveOf(t) \subseteq 1 .. Len(inflight) /\ LiveOf(t) \subseteq Nat  BY <1>1 DEF LiveOf
<1>3. CASE LiveOf(t) = {}  BY <1>1, <1>2, <1>3 DEF NextOf
<1>4. CASE LiveOf(t) # {}
  <2>1. First(LiveOf(t)) \in LiveOf(t)  BY <1>2, <1>4, FirstIs
  <2>2. NextOf[t] = inflight[First(LiveOf(t))].pc  BY <1>4 DEF NextOf
  <2>3. QED  BY <1>1, <1>2, <2>1, <2>2 DEF RequestType
<1>5. QED  BY <1>3, <1>4

(* A request does not change it.                                             *)
LEMMA RequestPath ==
  ASSUME IInv, NEW t \in Thread, requestRead(t)
  PROVE  NextOf' = NextOf
<1> DEFINE n == Len(inflight)
           r == [pc |-> pc[t], epoch |-> epoch[t], local_epoch |-> local_epoch[t], thread |-> t]
<1>1. /\ TypeOK /\ r \in RequestType /\ inflight' = Append(inflight, r)
      /\ pc' = [pc EXCEPT ![t] = NextWord(@)] /\ pc \in [Thread -> PC]
      /\ epoch' = epoch /\ local_epoch' = local_epoch
  BY DEF IInv, TypeOK, RequestType, requestRead
<1>2. /\ n \in Nat /\ DOMAIN inflight = 1 .. n /\ DOMAIN inflight' = 1 .. n + 1
      /\ \A i \in 1 .. n : inflight'[i] = inflight[i]
      /\ inflight'[n + 1] = r
  BY <1>1, Queued
<1>3. r.pc = pc[t] /\ r.epoch = epoch[t] /\ r.local_epoch = local_epoch[t] /\ r.thread = t
  OBVIOUS
<1> HIDE DEF n, r
<1>4. ASSUME NEW u \in Thread PROVE NextOf'[u] = NextOf[u]
  <2>1. LiveOf(u)' = {i \in DOMAIN inflight' : inflight'[i].thread = u /\ Live(inflight'[i])}
    BY <1>1 DEF LiveOf, Live
  <2>2. LiveOf(u)' = IF u = t THEN LiveOf(u) \cup {n + 1} ELSE LiveOf(u)
    <3>1. LiveOf(u) = {i \in 1 .. n : inflight[i].thread = u /\ Live(inflight[i])}
      BY <1>2 DEF LiveOf
    <3>2. Live(r)  BY <1>3 DEF Live
    <3>3. QED  BY <1>2, <1>3, <2>1, <3>1, <3>2
  <2>3. NextOf'[u] = IF LiveOf(u)' = {} THEN pc'[u] ELSE inflight'[First(LiveOf(u)')].pc
    BY DEF NextOf
  <2>4. LiveOf(u) \subseteq 1 .. n /\ LiveOf(u) \subseteq Nat  BY <1>1, LiveOfType DEF n
  <2>5. CASE LiveOf(u) # {}
    <3>1. First(LiveOf(u)) \in LiveOf(u) /\ \A j \in LiveOf(u) : First(LiveOf(u)) <= j
      BY <2>4, <2>5, FirstIs
    <3> DEFINE S == LiveOf(u)'
               m == First(LiveOf(u))
    <3>2. m \in 1 .. n  BY <2>4, <3>1
    <3>3. S \subseteq Nat /\ m \in S /\ \A j \in S : m <= j
      BY <1>2, <2>2, <2>4, <3>1, <3>2
    <3> HIDE DEF S, m
    <3>4. First(S) = m /\ S # {}  BY <3>3, FirstOf
    <3>5. inflight'[m].pc = inflight[m].pc  BY <1>2, <3>2
    <3>6. NextOf[u] = inflight[m].pc  BY <2>5 DEF NextOf, m
    <3>7. QED  BY <2>3, <3>4, <3>5, <3>6 DEF S
  <2>6. CASE LiveOf(u) = {} /\ u = t
    <3>1. LiveOf(u)' = {n + 1}  BY <2>2, <2>6
    <3> DEFINE S == LiveOf(u)'
    <3>2. S \subseteq Nat /\ n + 1 \in S /\ \A j \in S : n + 1 <= j  BY <1>2, <3>1
    <3> HIDE DEF S
    <3>3. First(S) = n + 1 /\ S # {}  BY <3>2, FirstOf
    <3>4. NextOf[u] = pc[t]  BY <2>6 DEF NextOf
    <3>5. QED  BY <1>2, <1>3, <2>3, <3>3, <3>4 DEF S
  <2>7. CASE LiveOf(u) = {} /\ u # t
    <3>1. LiveOf(u)' = {}  BY <2>2, <2>7
    <3>2. NextOf[u] = pc[u] /\ pc'[u] = pc[u]  BY <1>1, <2>7 DEF NextOf
    <3>3. QED  BY <2>3, <3>1, <3>2
  <2>8. QED  BY <2>5, <2>6, <2>7
<1>5. NextOf = [u \in Thread |-> NextOf[u]] /\ NextOf' = [u \in Thread |-> NextOf'[u]]
  BY DEF NextOf
<1>6. QED  BY <1>4, <1>5

(* Nor does an answer to a request that is not on the path.                  *)
LEMMA OtherPath ==
  ASSUME IInv, inflight # <<>>, inflight' = Tail(inflight), NEW u \in Thread, 1 \notin LiveOf(u),
         pc'[u] = pc[u],
         LiveOf(u)' = {i \in DOMAIN inflight' : inflight'[i].thread = u /\ Live(inflight'[i])}
  PROVE  NextOf'[u] = NextOf[u]
<1> DEFINE n == Len(inflight)
<1>1. /\ n \in Nat \ {0} /\ DOMAIN inflight = 1 .. n /\ DOMAIN inflight' = 1 .. n - 1
      /\ \A i \in 1 .. n - 1 : inflight'[i] = inflight[i + 1]
  BY Answered DEF IInv
<1> HIDE DEF n
<1>2. NextOf'[u] = IF LiveOf(u)' = {} THEN pc'[u] ELSE inflight'[First(LiveOf(u)')].pc
  BY DEF NextOf
<1>3. LiveOf(u) \subseteq 1 .. n /\ LiveOf(u) \subseteq Nat  BY LiveOfType DEF n, IInv
<1>4. \A i \in LiveOf(u)' : i \in 1 .. n - 1 /\ i + 1 \in LiveOf(u)
  <2>1. \A i \in 1 .. n - 1 : i + 1 \in 1 .. n  BY <1>1
  <2>2. QED  BY <1>1, <2>1 DEF LiveOf
<1>5. \A i \in LiveOf(u) : i - 1 \in LiveOf(u)' /\ i - 1 \in 1 .. n - 1
  <2>1. \A i \in LiveOf(u) : i - 1 \in 1 .. n - 1 /\ (i - 1) + 1 = i  BY <1>1, <1>3
  <2>2. QED  BY <1>1, <2>1 DEF LiveOf
<1>6. CASE LiveOf(u) = {}
  <2>1. LiveOf(u)' = {}  BY <1>4, <1>6
  <2>2. QED  BY <1>2, <1>6, <2>1 DEF NextOf
<1>7. CASE LiveOf(u) # {}
  <2> DEFINE S == LiveOf(u)'
             m == First(LiveOf(u))
  <2>1. m \in LiveOf(u) /\ \A j \in LiveOf(u) : m <= j  BY <1>3, <1>7, FirstIs
  <2>2. m - 1 \in S /\ m - 1 \in 1 .. n - 1  BY <1>5, <2>1
  <2>3. S \subseteq Nat  BY <1>1, <1>4
  <2>4. \A j \in S : m <= j + 1 /\ j \in Nat /\ m \in Nat  BY <1>3, <1>4, <2>1, <2>3
  <2>5. NextOf[u] = inflight[m].pc  BY <1>7 DEF NextOf
  <2>6. (m - 1) + 1 = m  BY <1>3, <2>1
  <2> HIDE DEF S, m
  <2>7. \A j \in S : m - 1 <= j  BY <2>4
  <2>8. First(S) = m - 1 /\ S # {}  BY <2>2, <2>3, <2>7, FirstOf
  <2>9. inflight'[m - 1] = inflight[m]  BY <1>1, <2>2, <2>6
  <2>10. QED  BY <1>2, <2>5, <2>8, <2>9 DEF S
<1>8. QED  BY <1>6, <1>7

(* A word that is answered whole is followed by the next word of the thread. *)
LEMMA StraightPath ==
  ASSUME IInv, inflight # <<>>, inflight' = Tail(inflight), Live(Head(inflight)),
         pc' = pc, epoch' = epoch, local_epoch' = local_epoch,
         NEW t \in Thread, t = Head(inflight).thread
  PROVE  NextOf'[t] = NextWord(Head(inflight).pc)
<1> DEFINE n == Len(inflight)
           r == inflight[1]
<1>1. /\ n \in Nat \ {0} /\ DOMAIN inflight = 1 .. n /\ DOMAIN inflight' = 1 .. n - 1
      /\ \A i \in 1 .. n - 1 : inflight'[i] = inflight[i + 1]
  BY Answered DEF IInv
<1>2. /\ r \in RequestType /\ r = Head(inflight) /\ 1 \in DOMAIN inflight /\ r.thread = t
      /\ \A i \in DOMAIN inflight : inflight[i].thread = t => Live(inflight[i])
  BY HeadLive
<1>3. /\ \A j \in 1 .. n : Follows(1, j) /\ (\A k \in 1 .. n : Follows(1, k) => j <= k)
                            => inflight[j].pc = NextWord(r.pc)
      /\ (\A j \in 1 .. n : ~Follows(1, j)) => pc[t] = NextWord(r.pc)
  <2>1. Live(inflight[1])  BY <1>2
  <2>2. QED  BY <1>1, <1>2, <2>1 DEF IInv, WordByWord
<1> DEFINE S == LiveOf(t)'
<1>4. NextOf'[t] = IF S = {} THEN pc[t] ELSE inflight'[First(S)].pc
  BY DEF NextOf
<1>5. S = {i \in 1 .. n - 1 : inflight[i + 1].thread = t /\ Live(inflight[i + 1])}
  <2>1. S = {i \in DOMAIN inflight' : inflight'[i].thread = t /\ Live(inflight'[i])}
    BY <1>2 DEF LiveOf, Live
  <2>2. QED  BY <1>1, <2>1
<1>6. S \subseteq Nat  BY <1>1, <1>5
<1> HIDE DEF S
<1>7. ASSUME NEW k \in 1 .. n, Follows(1, k) PROVE k - 1 \in S
  <2>1. k - 1 \in 1 .. n - 1 /\ (k - 1) + 1 = k /\ inflight[k].thread = t
    BY <1>1, <1>7 DEF Follows
  <2>2. QED  BY <1>1, <1>2, <1>5, <2>1
<1>8. CASE S = {}  BY <1>2, <1>3, <1>4, <1>7, <1>8
<1>9. CASE S # {}
  <2> DEFINE m == First(S)
  <2>1. m \in S /\ \A j \in S : m <= j  BY <1>6, <1>9, FirstIs
  <2>2. m \in 1 .. n - 1 /\ inflight[m + 1].thread = t  BY <1>5, <2>1
  <2> HIDE DEF m
  <2>3. m + 1 \in 1 .. n /\ Follows(1, m + 1)  BY <1>1, <2>2 DEF Follows
  <2>4. ASSUME NEW k \in 1 .. n, Follows(1, k) PROVE m + 1 <= k
    <3>1. m <= k - 1  BY <1>7, <2>1, <2>4
    <3>2. QED  BY <1>1, <2>2, <3>1
  <2>5. inflight[m + 1].pc = NextWord(r.pc)  BY <1>3, <2>3, <2>4
  <2>6. QED  BY <1>1, <1>2, <1>4, <1>9, <2>2, <2>5 DEF m
<1>10. QED  BY <1>8, <1>9

-----------------------------------------------------------------------------
(* A request of an old path is dropped.                                      *)
LEMMA DropStep ==
  ASSUME IInv, dropReadResp
  PROVE  EpochsInReach' /\ LiveLast' /\ WordByWord' /\ NextOf' = NextOf
<1>1. /\ inflight # <<>> /\ ~Live(Head(inflight)) /\ inflight' = Tail(inflight)
      /\ pc' = pc /\ epoch' = epoch /\ local_epoch' = local_epoch /\ fetched' = fetched
      /\ delivered' = delivered /\ int_in_process' = int_in_process
  BY DEF dropReadResp
<1>2. PICK X : X = {}  OBVIOUS
<1>3. (\A i \in DOMAIN inflight' : InReach(inflight[i])') /\ LiveLast' /\ WordByWord'
  <2>1. \A i \in DOMAIN inflight' : Live(inflight[i])' <=> inflight'[i].thread \notin X /\ Live(inflight'[i])
    BY <1>1, <1>2 DEF Live
  <2>2. \A u \in Thread \ X : pc'[u] = pc[u]  BY <1>1
  <2>3. QED  BY <1>1, <2>1, <2>2, TailStep
<1>4. /\ Len(inflight) \in Nat \ {0} /\ DOMAIN inflight = 1 .. Len(inflight)
      /\ DOMAIN inflight' = 1 .. Len(inflight) - 1 /\ Head(inflight) = inflight[1]
      /\ \A i \in 1 .. Len(inflight) - 1 : inflight'[i] = inflight[i + 1]
      /\ \A i \in DOMAIN inflight' : i + 1 \in DOMAIN inflight
  BY <1>1, Answered DEF IInv
<1>5. EpochsInReach'
  <2>1. \A q : InReach(q)' <=> InReach(q)  BY <1>1 DEF InReach, Behind, Reach
  <2>2. ASSUME fetched # <<>>
        PROVE  /\ fetched[1] # <<>> /\ InReach(fetched[1][1])
               /\ fetched[1][1].epoch = epoch[fetched[1][1].thread] =>
                    \A i \in DOMAIN inflight' : inflight'[i].thread = fetched[1][1].thread
                                                  => inflight'[i].epoch = fetched[1][1].epoch
    BY <1>4, <2>2 DEF IInv, EpochsInReach
  <2>3. QED  BY <1>1, <1>3, <2>1, <2>2 DEF EpochsInReach
<1>6. ASSUME NEW u \in Thread PROVE NextOf'[u] = NextOf[u]
  <2>1. 1 \notin LiveOf(u)  BY <1>1, <1>4 DEF LiveOf
  <2>2. LiveOf(u)' = {i \in DOMAIN inflight' : inflight'[i].thread = u /\ Live(inflight'[i])}
    BY <1>1 DEF LiveOf, Live
  <2>3. QED  BY <1>1, <2>1, <2>2, OtherPath
<1>7. NextOf' = NextOf
  <2>1. NextOf = [u \in Thread |-> NextOf[u]] /\ NextOf' = [u \in Thread |-> NextOf'[u]]
    BY DEF NextOf
  <2>2. QED  BY <1>6, <2>1
<1>8. QED  BY <1>3, <1>5, <1>7

(* The path of thread t goes on from the instructions b.                     *)
Extends(t, b) ==
  /\ fetched = <<>> /\ fetched' = <<b>> /\ epoch' = epoch
  /\ b # <<>> /\ b[1].pc = NextOf[t]
  /\ \A i \in DOMAIN b : b[i].thread = t /\ b[i].epoch = epoch[t]
  /\ \A i \in 2 .. Len(b) : b[i].pc = b[i - 1].next_pc
  /\ NextOf' = [NextOf EXCEPT ![t] = b[Len(b)].next_pc]

(* The next request of the path is answered, and the path goes on at target. *)
LEMMA AnswerStep ==
  ASSUME IInv, inflight # <<>>, Live(Head(inflight)), fetched = <<>>,
         inflight' = Tail(inflight), epoch' = epoch,
         NEW n \in 1 .. count_read(Head(inflight).pc), NEW target \in PC,
         fetched' = <<Instructions(Head(inflight), n, target)>>,
         NEW t \in Thread, t = Head(inflight).thread,
         NextOf'[t] = target,
         \A u \in Thread \ {t} : pc'[u] = pc[u] /\ local_epoch'[u] = local_epoch[u]
  PROVE  \E b : Extends(t, b)
<1> DEFINE r == Head(inflight)
           b == Instructions(r, n, target)
<1>1. r \in RequestType /\ r = inflight[1] /\ 1 \in DOMAIN inflight  BY HeadLive
<1>2. 1 \in LiveOf(t)  BY <1>1 DEF LiveOf
<1>3. NextOf[t] = r.pc
  <2>1. LiveOf(t) \subseteq Nat /\ LiveOf(t) \subseteq 1 .. Len(inflight)
    BY LiveOfType DEF IInv
  <2>2. \A j \in LiveOf(t) : 1 <= j  BY <2>1
  <2>3. First(LiveOf(t)) = 1  BY <1>2, <2>1, <2>2, FirstOf
  <2>4. QED  BY <1>1, <1>2, <2>3 DEF NextOf
<1>4. ASSUME NEW u \in Thread \ {t} PROVE NextOf'[u] = NextOf[u]
  <2>1. 1 \notin LiveOf(u)  BY <1>1 DEF LiveOf
  <2>2. LiveOf(u)' = {i \in DOMAIN inflight' : inflight'[i].thread = u /\ Live(inflight'[i])}
    BY DEF LiveOf, Live
  <2>3. QED  BY <2>1, <2>2, OtherPath
<1>5. /\ Len(b) = n /\ DOMAIN b = 1 .. n /\ b # <<>>
      /\ b[1].pc = r.pc /\ b[n].next_pc = target
      /\ \A i \in 1 .. n : b[i].thread = r.thread /\ b[i].epoch = r.epoch
      /\ \A i \in 2 .. n : b[i].pc = b[i - 1].next_pc
  BY <1>1, InstructionsAre
<1>6. NextOf' = [NextOf EXCEPT ![t] = target]
  <2>1. NextOf = [u \in Thread |-> NextOf[u]] /\ NextOf' = [u \in Thread |-> NextOf'[u]]
    BY DEF NextOf
  <2>2. \A u \in Thread : NextOf'[u] = IF u = t THEN target ELSE NextOf[u]  BY <1>4
  <2>3. NextOf' = [u \in Thread |-> IF u = t THEN target ELSE NextOf[u]]  BY <2>1, <2>2
  <2>4. [NextOf EXCEPT ![t] = target] = [u \in Thread |-> IF u = t THEN target ELSE NextOf[u]]
    BY DEF NextOf
  <2>5. QED  BY <2>3, <2>4
<1>7. r.epoch = epoch[t]  BY DEF Live
<1> HIDE DEF b
<1>8. Extends(t, b)
  <2>1. fetched' = <<b>>  BY DEF b
  <2>2. b[Len(b)].next_pc = target  BY <1>5
  <2>3. QED  BY <1>3, <1>5, <1>6, <1>7, <2>1, <2>2 DEF Extends
<1>9. QED  BY <1>8

LEMMA StraightStep ==
  ASSUME IInv, getStraight
  PROVE  EpochsInReach' /\ LiveLast' /\ WordByWord' /\ \E t \in Thread : \E b : Extends(t, b)
<1> DEFINE r == Head(inflight)
<1>1. /\ inflight # <<>> /\ Live(r) /\ fetched = <<>> /\ inflight' = Tail(inflight)
      /\ fetched' = <<Instructions(r, count_read(r.pc), Follow(r.pc, count_read(r.pc)))>>
      /\ pc' = pc /\ epoch' = epoch /\ local_epoch' = local_epoch
      /\ delivered' = delivered /\ int_in_process' = int_in_process
  BY DEF getStraight
<1>2. r \in RequestType  BY <1>1, HeadLive
<1>3. r.pc \in PC  BY <1>2 DEF RequestType
<1>4. PICK n \in 1 .. count_read(r.pc), target \in PC :
        /\ n = count_read(r.pc) /\ target = Follow(r.pc, count_read(r.pc)) /\ target = NextWord(r.pc)
  <2>1. count_read(r.pc) \in 1 .. IFUINST /\ NextWord(r.pc) \in PC
           /\ Follow(r.pc, count_read(r.pc)) = NextWord(r.pc)
    BY <1>3, Words
  <2>2. count_read(r.pc) \in 1 .. count_read(r.pc)  BY <2>1, SizeAssumption
  <2>3. QED  BY <2>1, <2>2
<1>5. PICK t \in Thread : t = r.thread  BY <1>2 DEF RequestType
<1>6. fetched' = <<Instructions(Head(inflight), n, target)>>  BY <1>1, <1>4
<1>7. PICK X : X = {}  OBVIOUS
<1>8. (\A i \in DOMAIN inflight' : InReach(inflight[i])') /\ LiveLast' /\ WordByWord'
  <2>1. \A i \in DOMAIN inflight' : Live(inflight[i])' <=> inflight'[i].thread \notin X /\ Live(inflight'[i])
    BY <1>1, <1>7 DEF Live
  <2>2. \A u \in Thread \ X : pc'[u] = pc[u]  BY <1>1
  <2>3. QED  BY <1>1, <2>1, <2>2, TailStep
<1>9. EpochsInReach'  BY <1>1, <1>6, <1>8, FetchedStep
<1>10. NextOf'[t] = target  BY <1>1, <1>4, <1>5, StraightPath
<1>11. \A u \in Thread \ {t} : pc'[u] = pc[u] /\ local_epoch'[u] = local_epoch[u]  BY <1>1
<1>12. \E b : Extends(t, b)  BY <1>1, <1>5, <1>6, <1>10, <1>11, AnswerStep
<1>13. QED  BY <1>8, <1>9, <1>12

(* A jump: the requests still on their way are of an old path now.           *)
LEMMA TakenStep ==
  ASSUME IInv, getTaken
  PROVE  EpochsInReach' /\ LiveLast' /\ WordByWord' /\ \E t \in Thread : \E b : Extends(t, b)
<1> DEFINE r == Head(inflight)
<1>1. /\ inflight # <<>> /\ Live(r) /\ fetched = <<>> /\ inflight' = Tail(inflight)
      /\ local_epoch' = [local_epoch EXCEPT ![r.thread] = (@ + 1) % LOCAL_EPOCHS]
      /\ epoch' = epoch /\ delivered' = delivered /\ int_in_process' = int_in_process
  BY DEF getTaken
<1>2. PICK n \in 1 .. count_read(r.pc), target \in Targets :
        /\ fetched' = <<Instructions(r, n, target)>>
        /\ pc' = [pc EXCEPT ![r.thread] = target]
  BY DEF getTaken
<1>3. target \in PC  BY SizeAssumption
<1>4. r \in RequestType /\ \A i \in DOMAIN inflight : inflight[i].thread = r.thread => Live(inflight[i])
  BY <1>1, HeadLive
<1>5. PICK t \in Thread : t = r.thread  BY <1>4 DEF RequestType
<1>6. /\ local_epoch'[t] # local_epoch[t] /\ pc'[t] = target
      /\ \A u \in Thread \ {t} : pc'[u] = pc[u] /\ local_epoch'[u] = local_epoch[u]
  <2>1. local_epoch \in [Thread -> 0 .. LOCAL_EPOCHS - 1] /\ pc \in [Thread -> PC]
    BY DEF IInv, TypeOK
  <2>2. local_epoch[t] \in 0 .. LOCAL_EPOCHS - 1 /\ local_epoch'[t] = (local_epoch[t] + 1) % LOCAL_EPOCHS
    BY <1>1, <1>5, <2>1
  <2>3. local_epoch'[t] # local_epoch[t]  BY <2>2, NextEpoch, EpochAssumption
  <2>4. QED  BY <1>1, <1>2, <1>5, <2>1, <2>3
<1>7. /\ DOMAIN inflight' = 1 .. Len(inflight) - 1 /\ DOMAIN inflight = 1 .. Len(inflight)
      /\ Len(inflight) \in Nat
      /\ \A i \in DOMAIN inflight' : i + 1 \in DOMAIN inflight /\ inflight'[i] = inflight[i + 1]
      /\ \A i \in DOMAIN inflight : inflight[i] \in RequestType
  BY <1>1, Answered DEF IInv
<1>8. PICK X : X = {t}  OBVIOUS
<1>9. \A i \in DOMAIN inflight' : Live(inflight[i])' <=> inflight'[i].thread \notin X /\ Live(inflight'[i])
  <2> TAKE i \in DOMAIN inflight'
  <2>1. inflight'[i] = inflight[i + 1] /\ inflight[i + 1].thread \in Thread
    BY <1>7 DEF RequestType
  <2>2. CASE inflight[i + 1].thread = t
    <3>1. Live(inflight[i + 1])  BY <1>4, <1>5, <1>7, <2>2
    <3>2. inflight[i + 1].local_epoch = local_epoch[t]  BY <2>2, <3>1 DEF Live
    <3>3. ~Live(inflight[i])'  BY <1>6, <2>1, <2>2, <3>2 DEF Live
    <3>4. QED  BY <1>8, <2>1, <2>2, <3>3
  <2>3. CASE inflight[i + 1].thread # t
    BY <1>1, <1>6, <1>8, <2>1, <2>3 DEF Live
  <2>4. QED  BY <2>2, <2>3
<1>10. (\A i \in DOMAIN inflight' : InReach(inflight[i])') /\ LiveLast' /\ WordByWord'
  <2>1. \A u \in Thread \ X : pc'[u] = pc[u]  BY <1>6, <1>8
  <2>2. QED  BY <1>1, <1>9, <2>1, TailStep
<1>11. EpochsInReach'  BY <1>1, <1>2, <1>3, <1>10, FetchedStep
<1>12. NextOf'[t] = target
  <2>1. LiveOf(t)' = {}  BY <1>8, <1>9 DEF LiveOf
  <2>2. QED  BY <1>6, <2>1 DEF NextOf
<1>13. \E b : Extends(t, b)  BY <1>1, <1>2, <1>3, <1>5, <1>6, <1>12, AnswerStep
<1>14. QED  BY <1>10, <1>11, <1>13

(* A redirect starts another path.                                           *)
LEMMA RedirectPath ==
  ASSUME IInv, NEW t \in Thread, redirect_instruction(t) \/ redirect_interrupt(t)
  PROVE  /\ NextOf' \in [Thread -> PC] /\ \A u \in Thread \ {t} : NextOf'[u] = NextOf[u]
         /\ epoch' = [epoch EXCEPT ![t] = (@ + 1) % EPOCHS] /\ fetched' = fetched
<1>1. PICK target \in Targets : pc' = [pc EXCEPT ![t] = target]
  BY DEF redirect_instruction, redirect_interrupt, redirect
<1>2. /\ epoch' = [epoch EXCEPT ![t] = (@ + 1) % EPOCHS]
      /\ inflight' = inflight /\ fetched' = fetched
  BY DEF redirect_instruction, redirect_interrupt, redirect
<1>3. \A i \in DOMAIN inflight : Live(inflight[i])' <=> inflight[i].thread # t /\ Live(inflight[i])
  BY <1>2, RedirectStep
<1>4. pc \in [Thread -> PC] /\ target \in PC /\ TypeOK  BY SizeAssumption DEF IInv, TypeOK
<1>5. ASSUME NEW u \in Thread \ {t} PROVE NextOf'[u] = NextOf[u] /\ NextOf[u] \in PC
  <2>1. LiveOf(u)' = LiveOf(u)  BY <1>2, <1>3 DEF LiveOf
  <2>2. pc'[u] = pc[u]  BY <1>1, <1>4
  <2>3. QED  BY <1>2, <1>4, <2>1, <2>2, LiveOfType DEF NextOf
<1>6. NextOf'[t] \in PC
  <2>1. LiveOf(t)' = {}  BY <1>2, <1>3 DEF LiveOf
  <2>2. QED  BY <1>1, <1>4, <2>1 DEF NextOf
<1>7. NextOf' = [u \in Thread |-> NextOf'[u]]  BY DEF NextOf
<1>8. \A u \in Thread : NextOf'[u] \in PC  BY <1>5, <1>6
<1>9. NextOf' \in [Thread -> PC]  BY <1>7, <1>8
<1>10. QED  BY <1>2, <1>5, <1>9

-----------------------------------------------------------------------------
(* The invariant: commit redirects by at most two epochs before it sees an   *)
(* instruction of the newest, so that three values tell them apart; and two  *)
(* values of the local epoch are enough, because a jump is only found in an  *)
(* answer of the current path, when all older ones are gone.                 *)
THEOREM EpochsTellPaths == Spec => []IInv
<1>1. Init => IInv
  <2> SUFFICES ASSUME Init PROVE IInv  OBVIOUS
  <2>1. TypeOK
    <3>1. 0 \in PC /\ 0 \in 0 .. EPOCHS - 1 /\ 0 \in 0 .. LOCAL_EPOCHS - 1
      BY SizeAssumption, EpochAssumption DEF PC
    <3>2. <<>> \in Seq(RequestType) /\ <<>> \in Seq(Seq(FetchedInstruction)) /\ Len(<<>>) = 0
      OBVIOUS
    <3>3. QED  BY <3>1, <3>2, SizeAssumption DEF Init, TypeOK
  <2>2. inflight = <<>> /\ fetched = <<>>  BY DEF Init
  <2>3. QED  BY <2>1, <2>2 DEF IInv, EpochsInReach, LiveLast, WordByWord
<1>2. IInv /\ [Next]_vars => IInv'
  <2> SUFFICES ASSUME IInv, [Next]_vars PROVE IInv'  OBVIOUS
  <2>1. TypeOK'  BY TypeStep DEF IInv
  <2>2. CASE Next
    <3>1. EpochsInReach' /\ LiveLast' /\ WordByWord'
      BY <2>2, RequestStep, DropStep, StraightStep, TakenStep, DecodeStep, RedirectStep
         DEF Next, getReadResp
    <3>2. QED  BY <2>1, <3>1 DEF IInv
  <2>3. CASE UNCHANGED vars
    BY <2>1, <2>3 DEF vars, IInv, EpochsInReach, InReach, Behind, Reach, LiveLast, Live,
                      WordByWord, Follows
  <2>4. QED  BY <2>2, <2>3
<1>3. QED  BY <1>1, <1>2, PTL DEF Spec

(* The registers keep their ranges, and no more requests are on their way    *)
(* than the FIFOs beside them have rows.                                     *)
THEOREM TypeCorrect == Spec => []TypeOK
<1>1. IInv => TypeOK  BY DEF IInv
<1>2. QED  BY <1>1, EpochsTellPaths, PTL

(* What decode gets of a thread is a path along its predictions, with any    *)
(* number of threads and of requests on their way.                           *)
THEOREM FetchFollows == Spec => FollowsPredictions
<1>1. Init => Promise!Init
  <2> SUFFICES ASSUME Init PROVE Promise!Init  OBVIOUS
  <2>1. /\ pc = [t \in Thread |-> 0] /\ epoch = [t \in Thread |-> 0]
        /\ inflight = <<>> /\ fetched = <<>> /\ 0 \in PC
    BY SizeAssumption DEF Init, PC
  <2>2. \A t \in Thread : LiveOf(t) = {}  BY <2>1 DEF LiveOf
  <2>3. NextOf \in [Thread -> PC]  BY <2>1, <2>2 DEF NextOf
  <2>4. QED  BY <2>1, <2>3 DEF Promise!Init, NextOf
<1>2. IInv /\ [Next]_vars => [Promise!Next]_(Promise!vars)
  <2> SUFFICES ASSUME IInv, [Next]_vars PROVE [Promise!Next]_(Promise!vars)  OBVIOUS
  <2>1. ASSUME NextOf' = NextOf, epoch' = epoch, fetched' = fetched
        PROVE  UNCHANGED Promise!vars
    BY <2>1 DEF Promise!vars, NextOf
  <2>2. ASSUME NEW t \in Thread, NEW b, Extends(t, b) PROVE Promise!Next
    <3>1. Promise!IsPath(b, t)  BY <2>2 DEF Extends, Promise!IsPath, NextOf
    <3>2. fetched'[1] = b /\ fetched' # <<>> /\ fetched = <<>> /\ epoch' = epoch
      BY <2>2 DEF Extends
    <3>3. NextOf' = [NextOf EXCEPT ![t] = b[Len(b)].next_pc]  BY <2>2 DEF Extends
    <3>4. Promise!Extend(t)  BY <3>1, <3>2, <3>3 DEF Promise!Extend, NextOf
    <3>5. QED  BY <3>4 DEF Promise!Next
  <2>3. ASSUME NEW t \in Thread, requestRead(t) PROVE UNCHANGED Promise!vars
    BY <2>1, <2>3, RequestPath DEF requestRead
  <2>4. ASSUME dropReadResp PROVE UNCHANGED Promise!vars
    BY <2>1, <2>4, DropStep DEF dropReadResp
  <2>5. ASSUME getReadResp PROVE Promise!Next
    BY <2>2, <2>5, StraightStep, TakenStep DEF getReadResp
  <2>6. ASSUME decode PROVE Promise!Next
    <3>1. /\ fetched' = <<>> /\ pc' = pc /\ epoch' = epoch /\ local_epoch' = local_epoch
          /\ inflight' = inflight
      BY <2>6 DEF decode
    <3>2. NextOf' = NextOf  BY <3>1 DEF NextOf, LiveOf, Live
    <3>3. Promise!Take  BY <3>1, <3>2 DEF Promise!Take, NextOf
    <3>4. QED  BY <3>3 DEF Promise!Next
  <2>7. ASSUME NEW t \in Thread, redirect_instruction(t) \/ redirect_interrupt(t) PROVE Promise!Next
    <3>1. /\ NextOf' \in [Thread -> PC] /\ \A u \in Thread \ {t} : NextOf'[u] = NextOf[u]
          /\ epoch' = [epoch EXCEPT ![t] = (@ + 1) % EPOCHS] /\ fetched' = fetched
      BY <2>7, RedirectPath
    <3>2. Promise!Redirect(t)  BY <3>1 DEF Promise!Redirect, NextOf
    <3>3. QED  BY <3>2 DEF Promise!Next
  <2>8. CASE UNCHANGED vars
    <3>1. /\ fetched' = fetched /\ pc' = pc /\ epoch' = epoch /\ local_epoch' = local_epoch
          /\ inflight' = inflight
      BY <2>8 DEF vars
    <3>2. NextOf' = NextOf  BY <3>1 DEF NextOf, LiveOf, Live
    <3>3. QED  BY <2>1, <3>1, <3>2
  <2>9. QED  BY <2>3, <2>4, <2>5, <2>6, <2>7, <2>8 DEF Next
<1>3. QED  BY <1>1, <1>2, EpochsTellPaths, PTL DEF Spec, FollowsPredictions, Promise!Spec
=============================================================================
