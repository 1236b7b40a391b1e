--------------------------- MODULE PeripheryProofs ---------------------------
(***************************************************************************)
(* Proofs about the interrupt controller for any number of harts,          *)
(* processors, sources and levels: a source is handled by one hart at a    *)
(* time, although what is pending is looked at a cycle late; and, with two *)
(* processors, about the bus: an answer reaches the hart that read it.     *)
(***************************************************************************)
EXTENDS Periphery, SequenceTheorems, FiniteSetTheorems, WellFoundedInduction, TLAPS

OneProcessor == \A g, h \in Hart : cpu_of[g] = cpu_of[h]

(* The inductive invariant.                                                  *)
Registers ==
  /\ handled \subseteq Source /\ pending_reg \subseteq Source /\ twice \subseteq Source
  /\ holds \in [Hart -> SUBSET Source] /\ last \in Source \cup {0}
  /\ dmem_r_rq = <<>> \/ \E r \in Request : dmem_r_rq = <<r>>

(* What a hart holds is marked as handled, unless another that had claimed   *)
(* it as well has completed it.                                              *)
HeldIsHandled == \A h \in Hart : \A s \in holds[h] : s \in handled \cup twice

Exclusive == \A g, h \in Hart : \A s \in holds[g] \cap holds[h] : s \in twice \/ g = h

(* Only what was claimed in the last cycle may be pending again.             *)
LastIsPending == handled \cap pending_reg \subseteq {last}

(* The reads of one processor do not follow each other so closely.           *)
ClaimsApart == OneProcessor => (last # 0 => dmem_r_rq = <<>>) /\ twice = {}

IInv == Registers /\ HeldIsHandled /\ Exclusive /\ LastIsPending /\ ClaimsApart

-----------------------------------------------------------------------------
(* A set of numbers that is not empty has a least one.                      *)
LEMMA Least ==
  ASSUME NEW S, S \subseteq Nat, S # {}
  PROVE  \E s \in S : \A t \in S : s <= t
<1> DEFINE R == OpToRel(<, Nat)
<1>1. IsWellFoundedOn(R, Nat)  BY NatLessThanWellFounded
<1>2. \A x, y \in Nat : y < x => <<y, x>> \in R  BY DEF OpToRel
<1> HIDE DEF R
<1>3. PICK x \in S : \A y \in S : ~(<<y, x>> \in R)  BY <1>1, WFMin
<1>4. \A y \in S : x <= y
  <2>1. \A y \in S : y \in Nat /\ x \in Nat /\ ~(y < x)  BY <1>2, <1>3
  <2>2. QED  BY <2>1
<1>5. QED  BY <1>4

(* Sources count from one; 0 stands for none.                               *)
LEMMA Sources == Source \subseteq Nat /\ 0 \notin Source
<1>1. num_periphery \in Nat  BY SizeAssumption
<1>2. \A s \in Source : s \in Nat /\ s # 0  BY <1>1 DEF Source
<1>3. QED  BY <1>2

(* What is claimed is pending.                                               *)
LEMMA ClaimsPending ==
  ASSUME Registers, NEW h
  PROVE  selected_max_interrupt(h) \in pending_reg \cup {0}
<1> DEFINE S == periphery_with_highest_irq(h)
<1>1. S \subseteq pending_reg  BY DEF periphery_with_highest_irq, irq_matrix
<1>2. S \subseteq Nat /\ 0 \notin S
  <2>1. S \subseteq Source  BY <1>1 DEF Registers
  <2> HIDE DEF S
  <2>2. QED  BY <2>1, Sources
<1> HIDE DEF S
<1>3. CASE S = {}
  <2>1. selected_max_interrupt(h) = CHOOSE s \in {0} : s = 0
    BY <1>3 DEF selected_max_interrupt, S
  <2>2. QED  BY <2>1
<1>4. CASE S # {}
  <2>1. \E s \in S \cup {0} : s # 0 /\ \A t \in S : s <= t  BY <1>2, <1>4, Least
  <2>2. selected_max_interrupt(h) = CHOOSE s \in S \cup {0} : s # 0 /\ \A t \in S : s <= t
    BY <1>4 DEF selected_max_interrupt, S
  <2> DEFINE P(s) == s # 0 /\ \A t \in S : s <= t
  <2>3. (CHOOSE s \in S \cup {0} : P(s)) \in S \cup {0}  BY <2>1
  <2>4. QED  BY <1>1, <2>2, <2>3
<1>5. QED  BY <1>3, <1>4

(* A cycle of the bus and the controller, with one completion at most.       *)
ACycle(ask, takes, answers, writes, completes) ==
  /\ ask \in AtMostOne({r \in Request : MayAsk(r.hart)})
  /\ completes \in AtMostOne(Completable)
  /\ Cycle(ask, takes, answers, writes, completes)

(* A cycle keeps the invariant, whatever is claimed and completed in it.     *)
LEMMA CycleStep ==
  ASSUME IInv, NEW ask, NEW takes, NEW answers, NEW writes, NEW completes,
         ACycle(ask, takes, answers, writes, completes)
  PROVE  IInv'
<1> DEFINE s == Claimed(takes)
           by == dmem_r_rq[1].hart
<1>1. /\ handled' = (handled \cup ({s} \ {0})) \ {c[2] : c \in completes}
      /\ holds' = [h \in Hart |->
           (holds[h] \cup (IF s # 0 /\ by = h THEN {s} ELSE {}))
             \ {c[2] : c \in {d \in completes : d[1] = h}}]
      /\ last' = s
      /\ twice' = {t \in twice \cup ({s, last} \ {0}) :
                     /\ t \in twice \/ (t = s /\ t = last)
                     /\ \E h \in Hart : t \in holds'[h]}
  BY DEF ACycle, Cycle, Write
<1>2. PICK lines \in SUBSET Source :
        pending_reg' = (pending_reg \cup lines) \ handled /\ UNCHANGED cpu_of
  BY DEF ACycle, Cycle, calculate_pending_ints
<1>3. /\ s \in pending_reg \cup {0}
      /\ s # 0 => \E r \in Request : dmem_r_rq = <<r>> /\ by = r.hart /\ Forwards(takes)
  <2>1. CASE ForwardsTo("PLIC", takes) /\ dmem_r_rq[1].reg = "claim"
    <3>1. s = selected_max_interrupt(by)  BY <2>1 DEF Claimed
    <3>2. Forwards(takes) /\ dmem_r_rq # <<>>  BY <2>1 DEF ForwardsTo, Forwards
    <3>3. QED  BY <3>1, <3>2, ClaimsPending DEF IInv, Registers
  <2>2. CASE ~(ForwardsTo("PLIC", takes) /\ dmem_r_rq[1].reg = "claim")  BY <2>2 DEF Claimed
  <2>3. QED  BY <2>1, <2>2
<1>4. s # 0 => by \in Hart  BY <1>3 DEF Request
<1>5. /\ holds \in [Hart -> SUBSET Source] /\ 0 \notin Source /\ s \in Source \cup {0}
      /\ handled \subseteq Source /\ pending_reg \subseteq Source /\ twice \subseteq Source
  BY <1>3, Sources DEF IInv, Registers
<1>6. completes = {} \/ \E g \in Hart, x \in Source :
        completes = {<<g, x>>} /\ x \in holds[g] /\ g \notin Asking
  BY DEF ACycle, AtMostOne, Completable
<1>7. s # 0 => by \in Asking
  <2>1. ASSUME s # 0 PROVE \E i \in DOMAIN dmem_r_rq : dmem_r_rq[i].hart = by
    <3>1. PICK r \in Request : dmem_r_rq = <<r>>  BY <1>3, <2>1
    <3>2. 1 \in DOMAIN dmem_r_rq  BY <3>1
    <3>3. QED  BY <3>2
  <2>2. QED  BY <2>1 DEF Asking
<1> HIDE DEF s, by
(* What a hart holds afterwards it held or has claimed.                      *)
<1>8. ASSUME NEW h \in Hart, NEW x \in holds'[h]
      PROVE  /\ x \in Source /\ (x \in twice => x \in twice')
             /\ \/ x \in holds[h]
                \/ x = s /\ s # 0 /\ by = h /\ x \in pending_reg
             /\ x \notin {c[2] : c \in {d \in completes : d[1] = h}}
  <2>1. x \in (holds[h] \cup (IF s # 0 /\ by = h THEN {s} ELSE {}))
                 \ {c[2] : c \in {d \in completes : d[1] = h}}
    BY <1>1
  <2>2. x \in twice => x \in twice'  BY <1>1
  <2>3. QED  BY <1>3, <1>5, <2>1, <2>2
(* What was handled and is claimed again is claimed twice in a row.          *)
<1>9. ASSUME NEW h \in Hart, s \in holds'[h], s # 0, s \in handled PROVE s \in twice'
  <2>1. s = last  BY <1>3, <1>9 DEF IInv, LastIsPending
  <2>2. QED  BY <1>1, <1>9, <2>1
<1>10. HeldIsHandled'
  <2> SUFFICES ASSUME NEW h \in Hart, NEW x \in holds'[h], x \notin twice'
               PROVE  x \in handled'
    BY DEF HeldIsHandled
  <2>1. x \notin twice /\ x \notin {c[2] : c \in {d \in completes : d[1] = h}}
    BY <1>8
  <2>2. CASE x \in holds[h]
    <3>1. x \in handled  BY <2>1, <2>2 DEF IInv, HeldIsHandled
    <3>2. x \notin {c[2] : c \in completes}
      <4>1. ASSUME NEW g \in Hart, completes = {<<g, x>>}, x \in holds[g] PROVE FALSE
        <5>1. g = h  BY <2>1, <2>2, <4>1 DEF IInv, Exclusive
        <5>2. <<g, x>> \in {d \in completes : d[1] = h}  BY <4>1, <5>1
        <5>3. <<g, x>>[2] = x  OBVIOUS
        <5>4. x \in {c[2] : c \in {d \in completes : d[1] = h}}  BY <5>2, <5>3
        <5>5. QED  BY <2>1, <5>4
      <4>2. QED  BY <1>6, <4>1
    <3>3. QED  BY <1>1, <3>1, <3>2
  <2>3. CASE x = s /\ s # 0 /\ by = h
    <3>1. x \notin handled  BY <1>9, <2>3
    <3>2. x \notin {c[2] : c \in completes}
      <4>1. ASSUME NEW g \in Hart, completes = {<<g, x>>}, x \in holds[g] PROVE FALSE
        BY <2>1, <3>1, <4>1 DEF IInv, HeldIsHandled
      <4>2. QED  BY <1>6, <4>1
    <3>3. QED  BY <1>1, <2>3, <3>2
  <2>4. QED  BY <1>8, <2>2, <2>3
<1>11. Exclusive'
  <2> SUFFICES ASSUME NEW g \in Hart, NEW h \in Hart, NEW x \in holds'[g] \cap holds'[h],
                      x \notin twice', g # h
               PROVE  FALSE
    BY DEF Exclusive
  <2>1. x \notin twice  BY <1>8
  <2>2. ~(x \in holds[g] /\ x \in holds[h])  BY <2>1 DEF IInv, Exclusive
  <2>3. ASSUME NEW j \in Hart, NEW k \in Hart, x \in holds'[j], x \in holds'[k],
               x \in holds[j], x \notin holds[k]
        PROVE  FALSE
    <3>1. x = s /\ s # 0  BY <1>8, <2>3
    <3>2. x \in handled  BY <2>1, <2>3 DEF IInv, HeldIsHandled
    <3>3. QED  BY <1>9, <2>3, <3>1, <3>2
  <2>4. ~(x \notin holds[g] /\ x \notin holds[h])  BY <1>8
  <2>5. QED  BY <2>2, <2>3, <2>4
<1>12. LastIsPending'  BY <1>1, <1>2 DEF LastIsPending
<1>13. Registers'
  <2>1. dmem_r_rq' = <<>> \/ \E r \in Request : dmem_r_rq' = <<r>>
    BY DEF ACycle, Cycle, Read, AtMostOne, IInv, Registers
  <2>2. handled' \subseteq Source /\ pending_reg' \subseteq Source /\ last' \in Source \cup {0}
    BY <1>1, <1>2, <1>5 DEF ACycle
  <2>3. holds' \in [Hart -> SUBSET Source]
    <3>1. \A h \in Hart : (holds[h] \cup (IF s # 0 /\ by = h THEN {s} ELSE {}))
                            \ {c[2] : c \in {d \in completes : d[1] = h}} \subseteq Source
      BY <1>5
    <3>2. QED  BY <1>1, <3>1
  <2>4. twice' \subseteq Source
    <3>1. \A h \in Hart : holds'[h] \subseteq Source  BY <2>3
    <3>2. QED  BY <1>1, <3>1
  <2>5. QED  BY <2>1, <2>2, <2>3, <2>4 DEF Registers
<1>14. ClaimsApart'
  <2> SUFFICES ASSUME OneProcessor PROVE (last' # 0 => dmem_r_rq' = <<>>) /\ twice' = {}
    BY <1>2 DEF ClaimsApart, OneProcessor
  <2>1. (last # 0 => dmem_r_rq = <<>>) /\ twice = {}  BY DEF IInv, ClaimsApart
  <2>2. ASSUME s # 0 PROVE dmem_r_rq' = <<>>
    <3>1. Forwards(takes) /\ by \in Asking /\ by \in Hart  BY <1>3, <1>4, <1>7, <2>2
    <3>2. \A r \in Request : ~MayAsk(r.hart)
      BY <3>1 DEF MayAsk, OneProcessor, Request
    <3>3. ask = {}  BY <3>2 DEF ACycle, AtMostOne
    <3>4. QED  BY <3>1, <3>3 DEF ACycle, Cycle, Read
  <2>3. ~(s # 0 /\ s = last)
    <3>1. s # 0 => dmem_r_rq # <<>>  BY <1>3
    <3>2. QED  BY <2>1, <3>1
  <2>4. twice' = {}  BY <1>1, <2>1, <2>3
  <2>5. QED  BY <1>1, <2>2, <2>4
<1>15. QED  BY <1>10, <1>11, <1>12, <1>13, <1>14 DEF IInv

-----------------------------------------------------------------------------
(* The inductive invariant of claims and completions.                        *)
THEOREM ClaimsAreKept == Spec => []IInv
<1>1. Init => IInv
  BY DEF Init, IInv, Registers, HeldIsHandled, Exclusive, LastIsPending, ClaimsApart
<1>2. IInv /\ [Next]_vars => IInv'
  <2> SUFFICES ASSUME IInv, [Next]_vars PROVE IInv'  OBVIOUS
  <2>1. CASE Next
    <3>1. PICK ask \in AtMostOne({r \in Request : MayAsk(r.hart)}),
               takes \in BOOLEAN, answers \in BOOLEAN :
            \/ \E completes \in AtMostOne(Completable) :
                 Cycle(ask, takes, answers, {}, completes)
            \/ \E w \in Settings : Cycle(ask, takes, answers, {w}, {})
      BY <2>1 DEF Next
    <3>2. \E writes : \E completes \in AtMostOne(Completable) :
            Cycle(ask, takes, answers, writes, completes)
      <4>1. {} \in AtMostOne(Completable)  BY DEF AtMostOne
      <4>2. QED  BY <3>1, <4>1
    <3>3. PICK writes : \E completes \in AtMostOne(Completable) :
            Cycle(ask, takes, answers, writes, completes)
      BY <3>2
    <3>4. PICK completes \in AtMostOne(Completable) :
            Cycle(ask, takes, answers, writes, completes)
      BY <3>3
    <3>5. ACycle(ask, takes, answers, writes, completes)  BY <3>4 DEF ACycle
    <3>6. QED  BY <3>5, CycleStep
  <2>2. CASE UNCHANGED vars
    BY <2>2 DEF vars, plic, bus, IInv, Registers, HeldIsHandled, Exclusive, LastIsPending,
                ClaimsApart, OneProcessor
  <2>3. QED  BY <2>1, <2>2
<1>3. QED  BY <1>1, <1>2, PTL DEF Spec

(* The processors of the harts are some of the processors.                   *)
LEMMA Topology == Spec => [](cpu_of \in [Hart -> CPU])
<1>1. Init => cpu_of \in [Hart -> CPU]  BY SetupAssumption DEF Init
<1>2. cpu_of \in [Hart -> CPU] /\ [Next]_vars => (cpu_of \in [Hart -> CPU])'
  <2>1. [Next]_vars => UNCHANGED cpu_of  BY DEF Next, Cycle, vars
  <2>2. QED  BY <2>1
<1>3. QED  BY <1>1, <1>2, PTL DEF Spec

(* For any number of harts on any number of processors, a source is handled  *)
(* by one hart at a time, unless it was claimed in two consecutive cycles,   *)
(* which the threads of one processor cannot do.                             *)
THEOREM HandledByOne == Spec => []OneHandler
<1>1. IInv /\ cpu_of \in [Hart -> CPU] => OneHandler
  <2> SUFFICES ASSUME IInv, cpu_of \in [Hart -> CPU] PROVE OneHandler  OBVIOUS
  <2>1. ASSUME NEW s \in Source, s \notin twice
        PROVE  Cardinality({h \in Hart : s \in holds[h]}) <= 1
    <3> DEFINE H == {h \in Hart : s \in holds[h]}
    <3>1. H = {} \/ \E h : H = {h}
      <4>1. \A g, h \in H : g = h  BY <2>1 DEF IInv, Exclusive
      <4> HIDE DEF H
      <4>2. ASSUME NEW h \in H PROVE H = {h}  BY <4>1
      <4>3. QED  BY <4>2
    <3> HIDE DEF H
    <3>2. Cardinality(H) = 0 \/ Cardinality(H) = 1  BY <3>1, FS_EmptySet, FS_Singleton
    <3>3. Cardinality(H) <= 1  BY <3>2
    <3>4. QED  BY <3>3 DEF H
  <2>2. ASSUME Cardinality({cpu_of[h] : h \in Hart}) = 1 PROVE twice = {}
    <3> DEFINE C == {cpu_of[h] : h \in Hart}
    <3>1. C \in SUBSET CPU  OBVIOUS
    <3>2. IsFiniteSet(C)  BY <3>1, CpuAssumption, FS_Subset
    <3>3. \E x : C = {x}  BY <2>2, <3>2, FS_Singleton
    <3>4. OneProcessor  BY <3>3 DEF OneProcessor
    <3>5. QED  BY <3>4 DEF IInv, ClaimsApart
  <2>3. QED  BY <2>1, <2>2 DEF OneHandler
<1>2. QED  BY <1>1, ClaimsAreKept, Topology, PTL
-----------------------------------------------------------------------------
(* What is read.  At most one read of a processor is on its way, so that     *)
(* with two processors two reads are: when one is forwarded to a device in   *)
(* which another waits for its answer, that answer leaves in this cycle.     *)
TwoProcessors ==
  \A f, g, h \in Hart : cpu_of[f] = cpu_of[g] \/ cpu_of[g] = cpu_of[h] \/ cpu_of[f] = cpu_of[h]

Queues == /\ inflight \in [Device -> Seq(Request)]
          /\ dmem_r_rq = <<>> \/ \E r \in Request : dmem_r_rq = <<r>>

OneReadEach ==
  /\ \A d, e \in Device : \A i \in DOMAIN inflight[d], j \in DOMAIN inflight[e] :
       cpu_of[inflight[d][i].hart] = cpu_of[inflight[e][j].hart] => d = e /\ i = j
  /\ \A i \in DOMAIN dmem_r_rq, d \in Device : \A j \in DOMAIN inflight[d] :
       cpu_of[dmem_r_rq[i].hart] # cpu_of[inflight[d][j].hart]

OneWaits == \A d \in Buffered : Len(inflight[d]) <= 1

ReadInv == /\ Queues /\ OneReadEach
           /\ TwoProcessors => OneWaits /\ AnswersTheRead

Left(d, answers)    == IF d \in Answering(answers) THEN 1 ELSE 0
Entered(d, takes)   == IF ForwardsTo(d, takes) THEN 1 ELSE 0

(* What a sequence is with an element more.                                 *)
LEMMA Appended ==
  ASSUME NEW S, NEW s \in Seq(S), NEW x \in S
  PROVE  /\ Append(s, x) \in Seq(S) /\ Len(Append(s, x)) = Len(s) + 1
         /\ \A i \in 1 .. Len(s) : Append(s, x)[i] = s[i]
         /\ Append(s, x)[Len(s) + 1] = x
OBVIOUS

(* A request is of a hart.                                                 *)
LEMMA Asker == \A r \in Request : r.hart \in Hart
BY DEF Request

(* The devices of the bus.                                                 *)
LEMMA TheDevices == Device = {"DMEM", "CLINT", "PLIC"}
<1>1. DOMAIN Devices = 1 .. 3 /\ 1 .. 3 = {1, 2, 3}  BY DEF Devices
<1>2. Device = {Devices[i] : i \in {1, 2, 3}}  BY <1>1 DEF Device
<1>3. Devices[1] = "DMEM" /\ Devices[2] = "CLINT" /\ Devices[3] = "PLIC"  BY DEF Devices
<1> HIDE DEF Device
<1>4. QED  BY <1>2, <1>3

(* A device that answers has something to answer, and one that has answers   *)
(* unless another has.                                                       *)
LEMMA Answers ==
  ASSUME NEW answers, NEW d \in Device
  PROVE  /\ d \in Answering(answers) => inflight[d] # <<>>
         /\ /\ d # "DMEM" /\ inflight[d] # <<>>
            /\ \A e \in Device \ {d} : inflight[e] = <<>>
            => d \in Answering(answers)
<1> DEFINE Ready == {i \in DOMAIN Devices : /\ inflight[Devices[i]] # <<>>
                                            /\ Devices[i] = "DMEM" => answers}
           First == {j \in Ready : \A k \in Ready : j <= k}
<1>1. /\ Answering(answers) = {Devices[i] : i \in First}
      /\ DOMAIN Devices = 1 .. 3
      /\ Devices[1] = "DMEM" /\ Devices[2] = "CLINT" /\ Devices[3] = "PLIC"
  BY DEF Answering, Devices
<1>2. Device = {"DMEM", "CLINT", "PLIC"}  BY TheDevices
<1>3. d \in Answering(answers) => inflight[d] # <<>>  BY <1>1
<1>4. ASSUME d # "DMEM", inflight[d] # <<>>, \A e \in Device \ {d} : inflight[e] = <<>>
      PROVE  d \in Answering(answers)
  <2>1. PICK i \in 2 .. 3 : Devices[i] = d  BY <1>1, <1>2, <1>4
  <2>2. i \in Ready  BY <1>1, <1>4, <2>1
  <2>3. ASSUME NEW k \in Ready PROVE k = i
    <3>1. k \in 1 .. 3 /\ Devices[k] \in Device /\ inflight[Devices[k]] # <<>>
      BY <1>1, <1>2
    <3>2. Devices[k] = d  BY <1>4, <3>1
    <3>3. QED  BY <1>1, <2>1, <3>1, <3>2
  <2>4. i \in First  BY <2>2, <2>3
  <2>5. QED  BY <1>1, <2>1, <2>4
<1>5. QED  BY <1>2, <1>3, <1>4

(* What becomes of the queue of a device.                                    *)
LEMMA QueueStep ==
  ASSUME Queues, NEW ask, NEW takes, NEW answers, Read(ask, takes, answers),
         NEW d \in Device
  PROVE  LET k == Left(d, answers)
             f == Entered(d, takes)
         IN  /\ k \in {0, 1} /\ f \in {0, 1} /\ k <= Len(inflight[d])
             /\ inflight'[d] \in Seq(Request) /\ Len(inflight'[d]) = Len(inflight[d]) - k + f
             /\ \A i \in 1 .. Len(inflight[d]) - k : inflight'[d][i] = inflight[d][i + k]
             /\ f = 1 => /\ inflight'[d][Len(inflight[d]) - k + 1] = dmem_r_rq[1]
                         /\ dmem_r_rq[1].dev = d /\ 1 \in DOMAIN dmem_r_rq
<1> DEFINE q == inflight[d]
           k == Left(d, answers)
           f == Entered(d, takes)
           rest == IF d \in Answering(answers) THEN Tail(q) ELSE q
           by == dmem_r_rq[1]
<1>1. q \in Seq(Request)  BY DEF Queues
<1>2. d \in Answering(answers) => q # <<>>  BY Answers
<1>3. inflight'[d] = IF ForwardsTo(d, takes) THEN Append(rest, by) ELSE rest
  BY DEF Read
<1>4. ForwardsTo(d, takes) =>
        by \in Request /\ dmem_r_rq[1].dev = d /\ 1 \in DOMAIN dmem_r_rq
  <2>1. ForwardsTo(d, takes) => dmem_r_rq # <<>> /\ dmem_r_rq[1].dev = d
    BY DEF ForwardsTo, Forwards
  <2>2. dmem_r_rq # <<>> => \E r \in Request : dmem_r_rq = <<r>>  BY DEF Queues
  <2>3. QED  BY <2>1, <2>2 DEF Request
<1>5. k \in {0, 1} /\ f \in {0, 1} /\ k <= Len(q)  BY <1>1, <1>2 DEF Left, Entered
<1>6. /\ rest \in Seq(Request) /\ Len(rest) = Len(q) - k
      /\ \A i \in 1 .. Len(q) - k : rest[i] = q[i + k]
  <2>1. CASE d \in Answering(answers)
    <3>1. k = 1 /\ rest = Tail(q) /\ q # <<>>  BY <1>2, <2>1 DEF Left
    <3> HIDE DEF q, k, rest
    <3>2. Tail(q) \in Seq(Request)  BY <1>1, <3>1, HeadTailProperties
    <3>3. Len(Tail(q)) = Len(q) - 1 /\ \A i \in 1 .. Len(Tail(q)) : Tail(q)[i] = q[i + 1]
      BY <1>1, <3>1, HeadTailProperties
    <3>4. QED  BY <3>1, <3>2, <3>3
  <2>2. CASE d \notin Answering(answers)
    <3>1. k = 0 /\ rest = q  BY <2>2 DEF Left
    <3> HIDE DEF q, k, rest
    <3>2. QED  BY <1>1, <3>1
  <2>3. QED  BY <2>1, <2>2
<1> HIDE DEF rest, by, k, q
<1>7. CASE ForwardsTo(d, takes)
  <2>1. f = 1  BY <1>7 DEF Entered
  <2>2. inflight'[d] = Append(rest, by) /\ by \in Request  BY <1>3, <1>4, <1>7
  <2>3. /\ inflight'[d] \in Seq(Request) /\ Len(inflight'[d]) = Len(rest) + 1
        /\ \A i \in 1 .. Len(rest) : inflight'[d][i] = rest[i]
        /\ inflight'[d][Len(rest) + 1] = by
    BY <1>6, <2>2, Appended
  <2>4. QED  BY <1>4, <1>5, <1>6, <1>7, <2>1, <2>3 DEF q, by, k
<1>8. CASE ~ForwardsTo(d, takes)
  <2>1. f = 0 /\ inflight'[d] = rest  BY <1>3, <1>8 DEF Entered
  <2>2. QED  BY <1>1, <1>5, <1>6, <2>1 DEF q, by, k
<1>9. QED  BY <1>7, <1>8

(* A processor that may ask has nothing on its way.                          *)
LEMMA OneReadStep ==
  ASSUME Queues, OneReadEach, NEW takes, NEW answers, UNCHANGED cpu_of,
         NEW ask \in AtMostOne({r \in Request : MayAsk(r.hart)}), Read(ask, takes, answers)
  PROVE  Queues' /\ OneReadEach'
<1> DEFINE by == dmem_r_rq[1]
(* Where an entry of a queue was before.                                     *)
<1>1. ASSUME NEW d \in Device, NEW i \in DOMAIN inflight'[d]
      PROVE  \/ /\ i + Left(d, answers) \in DOMAIN inflight[d]
                /\ inflight'[d][i] = inflight[d][i + Left(d, answers)]
             \/ /\ inflight'[d][i] = by /\ 1 \in DOMAIN dmem_r_rq /\ Entered(d, takes) = 1
                /\ i = Len(inflight'[d])
  <2> DEFINE k == Left(d, answers)
             f == Entered(d, takes)
             n == Len(inflight[d])
             m == Len(inflight'[d])
  <2>1. /\ k \in {0, 1} /\ f \in {0, 1} /\ k <= n
        /\ inflight'[d] \in Seq(Request) /\ m = n - k + f
        /\ \A j \in 1 .. n - k : inflight'[d][j] = inflight[d][j + k]
        /\ f = 1 => inflight'[d][n - k + 1] = by /\ 1 \in DOMAIN dmem_r_rq
    BY QueueStep
  <2>2. inflight[d] \in Seq(Request) /\ n \in Nat  BY DEF Queues
  <2>3. i \in 1 .. m /\ DOMAIN inflight[d] = 1 .. n  BY <2>1, <2>2
  <2> HIDE DEF k, f, n, m
  <2>4. i \in 1 .. n - k \/ (f = 1 /\ i = n - k + 1 /\ i = m)  BY <2>1, <2>2, <2>3
  <2>5. i \in 1 .. n - k => i + k \in 1 .. n  BY <2>1, <2>2
  <2>6. QED  BY <2>1, <2>3, <2>4, <2>5 DEF k, f, m
<1>2. ASSUME NEW d \in Device, NEW e \in Device, Entered(d, takes) = 1, Entered(e, takes) = 1
      PROVE  d = e
  BY <1>2 DEF Entered, ForwardsTo
<1>3. \A d \in Device : Left(d, answers) \in {0, 1}  BY DEF Left
<1> DEFINE Old(x) == \/ 1 \in DOMAIN dmem_r_rq /\ x = by
                     \/ \E d \in Device : \E i \in DOMAIN inflight[d] : x = inflight[d][i]
<1>4. ASSUME NEW d \in Device, NEW e \in Device,
             NEW i \in DOMAIN inflight'[d], NEW j \in DOMAIN inflight'[e],
             cpu_of[inflight'[d][i].hart] = cpu_of[inflight'[e][j].hart]
      PROVE  d = e /\ i = j
  <2> DEFINE k == Left(d, answers)
             l == Left(e, answers)
             x == inflight'[d][i]
             y == inflight'[e][j]
  <2>1. k \in {0, 1} /\ l \in {0, 1} /\ i \in Nat /\ j \in Nat /\ (d = e => k = l)
    <3>1. inflight'[d] \in Seq(Request) /\ inflight'[e] \in Seq(Request)  BY QueueStep
    <3>2. i \in Nat /\ j \in Nat  BY <3>1
    <3>3. QED  BY <1>3, <3>2
  <2>2. \/ i + k \in DOMAIN inflight[d] /\ x = inflight[d][i + k]
        \/ x = by /\ 1 \in DOMAIN dmem_r_rq /\ Entered(d, takes) = 1 /\ i = Len(inflight'[d])
    BY <1>1
  <2>3. \/ j + l \in DOMAIN inflight[e] /\ y = inflight[e][j + l]
        \/ y = by /\ 1 \in DOMAIN dmem_r_rq /\ Entered(e, takes) = 1 /\ j = Len(inflight'[e])
    BY <1>1
  <2>4. cpu_of[x.hart] = cpu_of[y.hart]  BY <1>4
  <2> HIDE DEF k, l, x, y, by
  <2>5. CASE i + k \in DOMAIN inflight[d] /\ x = inflight[d][i + k]
    <3>1. CASE j + l \in DOMAIN inflight[e] /\ y = inflight[e][j + l]
      <4>1. d = e /\ i + k = j + l  BY <2>4, <2>5, <3>1 DEF OneReadEach
      <4>2. QED  BY <2>1, <4>1
    <3>2. CASE y = by /\ 1 \in DOMAIN dmem_r_rq
      BY <2>4, <2>5, <3>2 DEF OneReadEach, by
    <3>3. QED  BY <2>3, <3>1, <3>2
  <2>6. CASE x = by /\ 1 \in DOMAIN dmem_r_rq /\ Entered(d, takes) = 1 /\ i = Len(inflight'[d])
    <3>1. CASE j + l \in DOMAIN inflight[e] /\ y = inflight[e][j + l]
      BY <2>4, <2>6, <3>1 DEF OneReadEach, by
    <3>2. CASE Entered(e, takes) = 1 /\ j = Len(inflight'[e])
      BY <1>2, <2>6, <3>2
    <3>3. QED  BY <2>3, <3>1, <3>2
  <2>7. QED  BY <2>2, <2>5, <2>6
(* The request that is on the bus afterwards.                                *)
<1>5. ASSUME NEW d \in Device, NEW j \in DOMAIN inflight'[d], NEW i \in DOMAIN dmem_r_rq'
      PROVE  cpu_of[dmem_r_rq'[i].hart] # cpu_of[inflight'[d][j].hart]
  <2> DEFINE y == inflight'[d][j]
  <2>1. Old(y)  BY <1>1
  <2>2. CASE ask # {}
    <3>1. PICK r \in Request : MayAsk(r.hart) /\ ask = {r}  BY <2>2 DEF AtMostOne
    <3>2. dmem_r_rq' = <<r>>  BY <2>2, <3>1 DEF Read
    <3>3. y.hart \in Asking  BY <2>1 DEF Asking
    <3>4. QED  BY <3>1, <3>2, <3>3 DEF MayAsk
  <2>3. CASE ask = {}
    <3>1. dmem_r_rq' = dmem_r_rq /\ ~Forwards(takes)  BY <1>5, <2>3 DEF Read
    <3>2. Entered(d, takes) = 0  BY <3>1 DEF Entered, ForwardsTo
    <3>3. j + Left(d, answers) \in DOMAIN inflight[d] /\ y = inflight[d][j + Left(d, answers)]
      BY <1>1, <3>2
    <3>4. QED  BY <1>5, <3>1, <3>3 DEF OneReadEach
  <2>4. QED  BY <2>2, <2>3
<1>6. Queues'
  <2>1. DOMAIN inflight' = Device /\ \A d \in Device : inflight'[d] \in Seq(Request)
    BY QueueStep DEF Read
  <2>2. inflight' \in [Device -> Seq(Request)]
    <3>1. inflight' = [d \in Device |-> inflight'[d]]  BY DEF Read
    <3>2. QED  BY <2>1, <3>1
  <2>3. dmem_r_rq' = <<>> \/ \E r \in Request : dmem_r_rq' = <<r>>
    BY DEF Read, AtMostOne, Queues
  <2>4. QED  BY <2>2, <2>3 DEF Queues
<1>7. QED  BY <1>4, <1>5, <1>6 DEF OneReadEach

(* With two processors, the device to which a read is forwarded has answered *)
(* the one before it, or answers it in this cycle.                           *)
LEMMA AnswersStep ==
  ASSUME ReadInv, TwoProcessors, NEW ask, NEW takes, NEW answers, Read(ask, takes, answers)
  PROVE  AnswersTheRead' /\ OneWaits'
<1> SUFFICES ASSUME NEW d \in Buffered
             PROVE  /\ inflight'[d] # <<>> /\ decodes(Head(inflight'[d]))
                          => read_val'[d] = <<Head(inflight'[d])>>
                    /\ Len(inflight'[d]) <= 1
  BY DEF AnswersTheRead, OneWaits
<1> DEFINE by == dmem_r_rq[1]
           q  == inflight[d]
           k  == Left(d, answers)
           f  == Entered(d, takes)
<1>1. d \in Device /\ d # "DMEM"  BY TheDevices DEF Buffered
<1>2. /\ q \in Seq(Request) /\ Len(q) <= 1
      /\ q # <<>> /\ decodes(Head(q)) => read_val[d] = <<Head(q)>>
  BY <1>1 DEF ReadInv, Queues, AnswersTheRead, OneWaits
<1>3. /\ k \in {0, 1} /\ f \in {0, 1} /\ k <= Len(q)
      /\ inflight'[d] \in Seq(Request) /\ Len(inflight'[d]) = Len(q) - k + f
      /\ \A i \in 1 .. Len(q) - k : inflight'[d][i] = q[i + k]
      /\ f = 1 => /\ inflight'[d][Len(q) - k + 1] = by
                  /\ dmem_r_rq[1].dev = d /\ 1 \in DOMAIN dmem_r_rq
  BY <1>1, QueueStep DEF ReadInv
<1>4. read_val'[d] = IF f = 1 /\ decodes(by) THEN dmem_r_rq ELSE read_val[d]
  BY <1>1 DEF Read, Entered
<1>7. f = 1 => /\ by.hart \in Hart /\ dmem_r_rq = <<by>>
               /\ \A e \in Device : \A i \in DOMAIN inflight[e] :
                    cpu_of[by.hart] # cpu_of[inflight[e][i].hart]
  <2>1. SUFFICES ASSUME f = 1
                 PROVE  /\ by.hart \in Hart /\ dmem_r_rq = <<by>>
                        /\ \A e \in Device : \A i \in DOMAIN inflight[e] :
                             cpu_of[by.hart] # cpu_of[inflight[e][i].hart]
    OBVIOUS
  <2>2. 1 \in DOMAIN dmem_r_rq  BY <1>3, <2>1
  <2>3. by.hart \in Hart /\ dmem_r_rq = <<by>>
    <3>1. PICK r \in Request : dmem_r_rq = <<r>>  BY <2>2 DEF ReadInv, Queues
    <3>2. QED  BY <3>1, Asker
  <2>4. QED  BY <2>2, <2>3 DEF ReadInv, OneReadEach
<1>8. f = 1 /\ q # <<>> => Len(q) = 1 /\ k = 1
  <2>1. SUFFICES ASSUME f = 1, q # <<>> PROVE Len(q) = 1 /\ k = 1  OBVIOUS
  <2>2. 1 \in DOMAIN q /\ Len(q) = 1 /\ q[1] \in Request
    <3>1. \A s \in Seq(Request) : s # <<>> /\ Len(s) <= 1
                                => 1 \in DOMAIN s /\ Len(s) = 1 /\ s[1] \in Request
      <4>1. SUFFICES ASSUME NEW s \in Seq(Request), s # <<>>, Len(s) <= 1
                     PROVE  1 \in DOMAIN s /\ Len(s) = 1 /\ s[1] \in Request
        OBVIOUS
      <4>2. Len(s) \in Nat \ {0}  BY <4>1, EmptySeq
      <4>3. \A n \in Nat \ {0} : n <= 1 => n = 1  OBVIOUS
      <4>4. Len(s) = 1  BY <4>1, <4>2, <4>3
      <4>5. DOMAIN s = 1 .. Len(s)  BY LenProperties
      <4>6. 1 \in 1 .. Len(s)  BY <4>4
      <4>7. QED  BY <4>4, <4>5, <4>6, ElementOfSeq
    <3>2. QED  BY <1>2, <2>1, <3>1
(* Three reads would be of three processors.                                 *)
  <2>4. ASSUME NEW e \in Device \ {d} PROVE inflight[e] = <<>>
    <3>1. inflight[e] \in Seq(Request)  BY DEF ReadInv, Queues
    <3>2. SUFFICES ASSUME inflight[e] # <<>> PROVE FALSE  OBVIOUS
    <3>3. 1 \in DOMAIN inflight[e]  BY <3>1, <3>2
    <3>4. inflight[e][1].hart \in Hart /\ q[1].hart \in Hart  BY <2>2, <3>1, <3>3, Asker
    <3>5. /\ cpu_of[by.hart] # cpu_of[inflight[e][1].hart] /\ by.hart \in Hart
          /\ cpu_of[by.hart] # cpu_of[q[1].hart]
      BY <1>1, <1>7, <2>1, <2>2, <3>3
    <3>6. cpu_of[inflight[e][1].hart] # cpu_of[q[1].hart]
      BY <1>1, <2>2, <3>3 DEF ReadInv, OneReadEach
    <3>7. QED  BY <3>4, <3>5, <3>6 DEF TwoProcessors
  <2>5. d \in Answering(answers)  BY <1>1, <2>1, <2>4, Answers
  <2>6. QED  BY <2>2, <2>5 DEF Left
<1> HIDE DEF k, f, by, q
<1>9. inflight'[d] # <<>> => Head(inflight'[d]) = inflight'[d][1] /\ Len(inflight'[d]) >= 1
  BY <1>3
<1>10. CASE f = 1
  <2>1. Len(q) - k = 0  BY <1>2, <1>3, <1>8, <1>10
  <2>2. inflight'[d][1] = by /\ Len(inflight'[d]) = 1  BY <1>2, <1>3, <1>10, <2>1
  <2>3. QED  BY <1>4, <1>7, <1>9, <1>10, <2>2
<1>11. CASE f = 0
  <2>1. Len(inflight'[d]) <= 1  BY <1>2, <1>3, <1>11
  <2>2. SUFFICES ASSUME inflight'[d] # <<>>, decodes(Head(inflight'[d]))
                 PROVE  read_val'[d] = <<Head(inflight'[d])>>
    BY <2>1
  <2>3. k = 0 /\ q # <<>>  BY <1>2, <1>3, <1>9, <1>11, <2>2
  <2>4. inflight'[d][1] = q[1]  BY <1>2, <1>3, <1>11, <2>3
  <2>5. QED  BY <1>2, <1>4, <1>9, <1>11, <2>2, <2>3, <2>4
<1>12. QED  BY <1>3, <1>10, <1>11

(* The registers of the bus, from cycle to cycle.                            *)
LEMMA ReadInvStep == ASSUME ReadInv, [Next]_vars PROVE ReadInv'
<1>1. CASE Next
  <2>1. PICK ask \in AtMostOne({r \in Request : MayAsk(r.hart)}),
             takes \in BOOLEAN, answers \in BOOLEAN :
          Read(ask, takes, answers) /\ UNCHANGED cpu_of
    BY <1>1 DEF Next, Cycle
  <2>2. Queues' /\ OneReadEach'  BY <2>1, OneReadStep DEF ReadInv
  <2>3. TwoProcessors' <=> TwoProcessors  BY <2>1 DEF TwoProcessors
  <2>4. TwoProcessors => AnswersTheRead' /\ OneWaits'  BY <2>1, AnswersStep
  <2>5. QED  BY <2>2, <2>3, <2>4 DEF ReadInv
<1>2. CASE UNCHANGED vars
  BY <1>2 DEF vars, bus, plic, ReadInv, Queues, OneReadEach, OneWaits, AnswersTheRead,
              TwoProcessors
<1>3. QED  BY <1>1, <1>2

(* On at most two processors, with any number of harts, a hart is answered   *)
(* with what its own read has found, if a register decodes it: the register  *)
(* of a device is not overwritten while the answer in it waits for another   *)
(* device, also not by reads that find nothing.                              *)
THEOREM AnswersAreOwn ==
  ASSUME \A u \in Setups : \A f, g, h \in Hart :
           u.cpu_of[f] = u.cpu_of[g] \/ u.cpu_of[g] = u.cpu_of[h] \/ u.cpu_of[f] = u.cpu_of[h]
  PROVE  Spec => []AnswersTheRead
<1>1. Init => ReadInv /\ TwoProcessors
  <2>1. SUFFICES ASSUME Init PROVE ReadInv /\ TwoProcessors  OBVIOUS
  <2>2. \A d \in Device : inflight[d] = <<>> /\ Len(inflight[d]) = 0  BY <2>1 DEF Init
  <2>3. Queues
    <3>1. <<>> \in Seq(Request)  OBVIOUS
    <3>2. QED  BY <2>1, <3>1, SetupAssumption DEF Init, Queues
  <2>4. \A d \in Buffered : d \in Device  BY TheDevices DEF Buffered
  <2>5. QED
    BY <2>1, <2>2, <2>3, <2>4
    DEF Init, ReadInv, OneReadEach, OneWaits, AnswersTheRead, TwoProcessors
<1>2. ReadInv /\ TwoProcessors /\ [Next]_vars => (ReadInv /\ TwoProcessors)'
  <2>1. [Next]_vars => UNCHANGED cpu_of  BY DEF Next, Cycle, vars
  <2>2. QED  BY <2>1, ReadInvStep DEF TwoProcessors
<1>3. ReadInv /\ TwoProcessors => AnswersTheRead  BY DEF ReadInv
<1>4. QED  BY <1>1, <1>2, <1>3, PTL DEF Spec
=============================================================================
