-------------------------- MODULE SpeculationProofs --------------------------
(***************************************************************************)
(* Proofs about the core, for every width, number of rows, delay of the    *)
(* result bus and program, and however redirects follow each other:        *)
(*                                                                         *)
(*   - an epoch names one path among the instructions in flight;           *)
(*   - the types; the result a station waits for is still to come;         *)
(*   - mscratch holds what a committed instruction wrote to it.            *)
(***************************************************************************)
EXTENDS SpeculationCore, SequenceTheorems, FiniteSetTheorems, TLAPS

(* The counter tells apart as many paths as instructions are in flight,      *)
(* which is how its width is chosen.                                         *)
EnoughEpochs == EPOCHS \in Nat /\ EPOCHS >= 1 + ROBDEPTH + INST_WINDOW

(* The width suffices for every core of up to 255 instructions in window and *)
(* reorder buffer, which is as far as EPOCHS counts.                        *)
LEMMA EpochsSuffice ==
  ASSUME 1 + ROBDEPTH + INST_WINDOW <= 256
  PROVE  EnoughEpochs
<1> DEFINE a == 1 + ROBDEPTH + INST_WINDOW
           P(n) == n >= a /\ \A k \in 0 .. 8 : 2 ^ k >= a => n <= 2 ^ k
<1>1. a \in Nat /\ a <= 256
  BY SizeAssumption
<1>2. /\ 2 ^ 0 = 1 /\ 2 ^ 1 = 2 /\ 2 ^ 2 = 4 /\ 2 ^ 3 = 8 /\ 2 ^ 4 = 16
      /\ 2 ^ 5 = 32 /\ 2 ^ 6 = 64 /\ 2 ^ 7 = 128 /\ 2 ^ 8 = 256
  OBVIOUS
<1>3. PICK pow : pow = [k \in 0 .. 8 |-> 2 ^ k]
  OBVIOUS
<1>4. /\ pow[0] = 1 /\ pow[1] = 2 /\ pow[2] = 4 /\ pow[3] = 8 /\ pow[4] = 16
      /\ pow[5] = 32 /\ pow[6] = 64 /\ pow[7] = 128 /\ pow[8] = 256
      /\ \A k \in 0 .. 8 : 2 ^ k = pow[k]
  BY <1>2, <1>3
<1> HIDE DEF a
<1>5. \E j \in 0 .. 8 : pow[j] >= a /\ \A k \in 0 .. 8 : pow[k] >= a => pow[j] <= pow[k]
  <2>1. \A k \in 0 .. 8 : \/ k = 0 \/ k = 1 \/ k = 2 \/ k = 3 \/ k = 4 \/ k = 5 \/ k = 6
                          \/ k = 7 \/ k = 8
    OBVIOUS
  <2>2. ASSUME NEW j \in 0 .. 8, pow[j] >= a, j = 0 \/ pow[j - 1] < a
        PROVE  \A k \in 0 .. 8 : pow[k] >= a => pow[j] <= pow[k]
    BY <1>1, <1>4, <2>1, <2>2
  <2>3. \E j \in 0 .. 8 : pow[j] >= a /\ (j = 0 \/ pow[j - 1] < a)
    BY <1>1, <1>4
  <2> QED
    BY <2>2, <2>3
<1>6. \E n \in {2 ^ k : k \in 0 .. 8} : P(n)
  BY <1>4, <1>5
<1>7. EPOCHS = CHOOSE n \in {2 ^ k : k \in 0 .. 8} : P(n)
  BY DEF EPOCHS, a
<1>8. EPOCHS \in {2 ^ k : k \in 0 .. 8} /\ P(EPOCHS)
  BY <1>6, <1>7
<1> QED
  BY <1>4, <1>8 DEF EnoughEpochs, a

-----------------------------------------------------------------------------
(* The inductive invariant.                                                  *)

Elements(s) == {s[k] : k \in DOMAIN s}

(* What the registers in question hold.                                      *)
Sequences ==
  /\ rob \in Seq(Elements(rob)) /\ decoded \in Seq(Elements(decoded))
  /\ \A k \in DOMAIN rob : {"epoch", "path"} \subseteq DOMAIN rob[k]
  /\ epoch \in 0 .. EPOCHS - 1 /\ path \in Nat /\ int_in_process_r \in BOOLEAN

(* How many redirects an instruction may have survived: after one of commit, *)
(* which happens at an instruction of the current path, all others are one   *)
(* redirect old; an interrupt may make it two, but no second follows         *)
(* before an mret of the current path has committed.                         *)
Reach == IF int_in_process_r THEN 2 ELSE 1

Survived(e) == path - e.path

EpochFits(e) ==
  /\ e.path \in Nat /\ e.path <= path /\ Survived(e) <= Reach
  /\ e.epoch = IF Survived(e) <= epoch THEN epoch - Survived(e)
               ELSE epoch + EPOCHS - Survived(e)

EpochsFit == \A k \in 1 .. Len(rob) + Len(decoded) : EpochFits(Flying[k])

(* Behind an instruction of the current path there are only such.            *)
CurrentLast ==
  \A i, k \in 1 .. Len(rob) + Len(decoded) :
    i <= k /\ Flying[i].path = path => Flying[k].path = path

IInv == Sequences /\ EpochsFit /\ CurrentLast

-----------------------------------------------------------------------------
LEMMA Indexed ==
  ASSUME NEW n \in Nat, NEW s, s = [k \in 1 .. n |-> s[k]]
  PROVE  s \in Seq(Elements(s)) /\ Len(s) = n /\ DOMAIN s = 1 .. n
<1>1. DOMAIN s = 1 .. n
  <2>1. DOMAIN [k \in 1 .. n |-> s[k]] = 1 .. n  OBVIOUS
  <2>2. QED  BY <2>1, Zenon
<1>2. \A k \in 1 .. n : s[k] \in Elements(s)  BY <1>1 DEF Elements
<1>3. s \in [1 .. n -> Elements(s)]  BY <1>2
<1>4. s \in Seq(Elements(s))  BY <1>3
<1>5. Len(s) = n  BY <1>1, <1>4
<1>6. QED  BY <1>1, <1>4, <1>5

LEMMA OwnElements ==
  ASSUME NEW E, NEW s \in Seq(E)
  PROVE  s \in Seq(Elements(s)) /\ Len(s) \in Nat /\ DOMAIN s = 1 .. Len(s)
<1>1. Len(s) \in Nat /\ s \in [1 .. Len(s) -> E] /\ DOMAIN s = 1 .. Len(s)  OBVIOUS
<1>2. s = [k \in 1 .. Len(s) |-> s[k]]  BY <1>1
<1>3. QED  BY <1>1, <1>2, Indexed

(* Two sequences put together.                                               *)
LEMMA Joined ==
  ASSUME NEW s, NEW t, s \in Seq(Elements(s)), t \in Seq(Elements(t))
  PROVE  /\ Len(s) \in Nat /\ Len(t) \in Nat /\ Len(s \o t) = Len(s) + Len(t)
         /\ s \o t \in Seq(Elements(s \o t)) /\ DOMAIN (s \o t) = 1 .. Len(s) + Len(t)
         /\ \A i \in 1 .. Len(s) + Len(t) :
              (s \o t)[i] = IF i <= Len(s) THEN s[i] ELSE t[i - Len(s)]
<1> DEFINE E == Elements(s) \cup Elements(t)
<1>1. s \in Seq(E) /\ t \in Seq(E)
  <2>1. Elements(s) \subseteq E /\ Elements(t) \subseteq E  OBVIOUS
  <2> HIDE DEF E
  <2>2. QED  BY <2>1
<1> HIDE DEF E
<1>2. /\ s \o t \in Seq(E) /\ Len(s \o t) = Len(s) + Len(t)
      /\ \A i \in 1 .. Len(s) + Len(t) :
           (s \o t)[i] = IF i <= Len(s) THEN s[i] ELSE t[i - Len(s)]
  BY <1>1, ConcatProperties, Zenon
<1>3. Len(s) \in Nat /\ Len(t) \in Nat  BY <1>1
<1>4. s \o t \in Seq(Elements(s \o t)) /\ DOMAIN (s \o t) = 1 .. Len(s \o t)
  BY <1>2, OwnElements
<1>5. QED  BY <1>2, <1>3, <1>4

(* What is in flight, from the reorder buffer to the window.                 *)
LEMMA InFlight ==
  ASSUME NEW r, NEW w, r \in Seq(Elements(r)), w \in Seq(Elements(w))
  PROVE  LET f == r \o [k \in 1 .. Len(w) |-> w[k]]
         IN  /\ Len(r) \in Nat /\ Len(w) \in Nat /\ Len(f) = Len(r) + Len(w)
             /\ \A k \in 1 .. Len(r) + Len(w) :
                  f[k] = IF k <= Len(r) THEN r[k] ELSE w[k - Len(r)]
<1> DEFINE d == [k \in 1 .. Len(w) |-> w[k]]
<1>1. Len(r) \in Nat /\ Len(w) \in Nat  OBVIOUS
<1>2. d \in Seq(Elements(d)) /\ Len(d) = Len(w)
  <2>1. d = [k \in 1 .. Len(w) |-> d[k]]  OBVIOUS
  <2> HIDE DEF d
  <2>2. QED  BY <1>1, <2>1, Indexed
<1>3. \A k \in 1 .. Len(w) : d[k] = w[k]  OBVIOUS
<1> HIDE DEF d
<1>4. /\ Len(r \o d) = Len(r) + Len(d)
      /\ \A k \in 1 .. Len(r) + Len(d) : (r \o d)[k] = IF k <= Len(r) THEN r[k] ELSE d[k - Len(r)]
  BY <1>2, Joined
<1>5. ASSUME NEW k \in 1 .. Len(r) + Len(w)
      PROVE  (r \o d)[k] = IF k <= Len(r) THEN r[k] ELSE w[k - Len(r)]
  <2>1. ~(k <= Len(r)) => k - Len(r) \in 1 .. Len(w)  BY <1>1
  <2>2. QED  BY <1>2, <1>3, <1>4, <2>1
<1>6. QED  BY <1>1, <1>2, <1>4, <1>5 DEF d

(* A cycle: the m oldest leave, the rest stays, with results, and what is    *)
(* issued changes from the window to the reorder buffer without changing its *)
(* place; what arrives is the last.                                          *)
Cycle(n, bus, m, new, interrupt) ==
  /\ n \in 0 .. ISSUEWIDTH /\ m \in 0 .. ISSUEWIDTH /\ interrupt \in BOOLEAN
  /\ may_issue(n) /\ may_consume(m) /\ bus \in SUBSET Results /\ may_complete(bus)
  /\ new \in {<<>>} \cup {<<Fetched(p)>> : p \in Predictions(fetch_pc)}
  /\ Clock(n, bus, m, new, interrupt)

LEMMA NextCycles ==
  ASSUME Next
  PROVE  \E n, bus, m, new, interrupt : Cycle(n, bus, m, new, interrupt)
<1>1. PICK n \in 0 .. ISSUEWIDTH, m \in 0 .. ISSUEWIDTH, interrupt \in BOOLEAN :
        /\ may_issue(n) /\ may_consume(m)
        /\ \E bus \in SUBSET Results :
             /\ may_complete(bus)
             /\ \E new \in {<<>>} \cup {<<Fetched(p)>> : p \in Predictions(fetch_pc)} :
                  Clock(n, bus, m, new, interrupt)
  BY DEF Next
<1>2. PICK bus \in SUBSET Results :
        /\ may_complete(bus)
        /\ \E new \in {<<>>} \cup {<<Fetched(p)>> : p \in Predictions(fetch_pc)} :
             Clock(n, bus, m, new, interrupt)
  BY <1>1
<1>3. PICK new \in {<<>>} \cup {<<Fetched(p)>> : p \in Predictions(fetch_pc)} :
        Clock(n, bus, m, new, interrupt)
  BY <1>2
<1>4. Cycle(n, bus, m, new, interrupt)
  BY <1>1, <1>2, <1>3 DEF Cycle
<1> QED
  BY <1>4

LEMMA Arriving ==
  ASSUME NEW new \in {<<>>} \cup {<<Fetched(p)>> : p \in Predictions(fetch_pc)}
  PROVE  /\ new \in Seq(Elements(new)) /\ Len(new) \in {0, 1} /\ DOMAIN new = 1 .. Len(new)
         /\ \A k \in 1 .. Len(new) : new[k].epoch = epoch /\ new[k].path = path
<1>1. CASE new = <<>>
  <2>1. new = [k \in 1 .. 0 |-> new[k]]  BY <1>1
  <2>2. QED  BY <2>1, Indexed
<1>2. CASE \E p \in Predictions(fetch_pc) : new = <<Fetched(p)>>
  <2>1. PICK p \in Predictions(fetch_pc) : new = <<Fetched(p)>>  BY <1>2
  <2>2. new = [k \in 1 .. 1 |-> new[k]] /\ new[1] = Fetched(p)  BY <2>1
  <2>3. new \in Seq(Elements(new)) /\ Len(new) = 1 /\ DOMAIN new = 1 .. 1  BY <2>2, Indexed
  <2>4. Fetched(p).epoch = epoch /\ Fetched(p).path = path  BY DEF Fetched
  <2>5. QED  BY <2>2, <2>3, <2>4
<1>3. QED  BY <1>1, <1>2

LEMMA WindowStep ==
  ASSUME Sequences, NEW n, NEW bus, NEW m, NEW new, NEW interrupt,
         Cycle(n, bus, m, new, interrupt)
  PROVE  /\ decoded' \in Seq(Elements(decoded'))
         /\ n \in 0 .. Len(decoded)
         /\ Len(decoded') = Len(decoded) - n + Len(new)
         /\ \A k \in 1 .. Len(decoded') :
              decoded'[k] = IF k <= Len(decoded) - n THEN decoded[k + n]
                            ELSE new[k - (Len(decoded) - n)]
<1> DEFINE rest == Suffix(decoded, n)
<1>1. /\ decoded \in Seq(Elements(decoded)) /\ Len(decoded) \in Nat
      /\ n \in Nat /\ n <= Len(decoded)
  BY SizeAssumption DEF Sequences, Cycle, may_issue
<1>2. decoded' = rest \o new  BY DEF Cycle, Clock, FrontendCycle
<1>3. /\ rest \in Seq(Elements(decoded)) /\ Len(rest) = Len(decoded) - n
      /\ \A k \in 1 .. Len(decoded) - n : rest[k] = decoded[k + n]
  BY <1>1 DEF Suffix
<1>4. rest \in Seq(Elements(rest))  BY <1>3, OwnElements
<1>5. new \in Seq(Elements(new))  BY Arriving DEF Cycle
<1> HIDE DEF rest
<1>6. /\ decoded' \in Seq(Elements(decoded')) /\ Len(decoded') = Len(rest) + Len(new)
      /\ \A k \in 1 .. Len(rest) + Len(new) :
           decoded'[k] = IF k <= Len(rest) THEN rest[k] ELSE new[k - Len(rest)]
  BY <1>2, <1>4, <1>5, Joined
<1>7. QED  BY <1>1, <1>3, <1>6

LEMMA Completed ==
  ASSUME NEW e, NEW bus, {"epoch", "path"} \subseteq DOMAIN e
  PROVE  /\ completed(e, bus).epoch = e.epoch /\ completed(e, bus).path = e.path
         /\ {"epoch", "path"} \subseteq DOMAIN completed(e, bus)
BY DEF completed

LEMMA RowsStep ==
  ASSUME Sequences, NEW n, NEW bus, NEW m, NEW new, NEW interrupt,
         Cycle(n, bus, m, new, interrupt)
  PROVE  /\ rob' \in Seq(Elements(rob'))
         /\ m \in 0 .. Len(rob) /\ n \in Nat
         /\ Len(rob') = Len(rob) - m + n /\ DOMAIN rob' = 1 .. Len(rob')
         /\ \A k \in 1 .. Len(rob') :
              LET old == IF k <= Len(rob) - m THEN rob[k + m] ELSE decoded[k - (Len(rob) - m)]
              IN  /\ rob'[k].epoch = old.epoch /\ rob'[k].path = old.path
                  /\ {"epoch", "path"} \subseteq DOMAIN rob'[k]
<1> DEFINE a == [k \in 1 .. Len(rob) - m |-> completed(rob[m + k], bus)]
           b == map_to_rob_entry(n)
<1>1. /\ Len(rob) \in Nat /\ m \in Nat /\ m <= Len(rob) /\ n \in Nat /\ n <= Len(decoded)
      /\ Len(decoded) \in Nat /\ DOMAIN rob = 1 .. Len(rob)
      /\ \A k \in DOMAIN rob : {"epoch", "path"} \subseteq DOMAIN rob[k]
  BY SizeAssumption DEF Sequences, Cycle, may_issue, may_consume
<1>2. rob' = a \o b  BY DEF Cycle, Clock, RobCycle
<1>3. a \in Seq(Elements(a)) /\ Len(a) = Len(rob) - m
  <2>1. a = [k \in 1 .. Len(rob) - m |-> a[k]]  OBVIOUS
  <2> HIDE DEF a
  <2>2. Len(rob) - m \in Nat  BY <1>1
  <2>3. QED  BY <2>1, <2>2, Indexed
<1>4. b \in Seq(Elements(b)) /\ Len(b) = n
  <2>1. b = [k \in 1 .. n |-> b[k]]  BY DEF map_to_rob_entry
  <2> HIDE DEF b
  <2>2. QED  BY <1>1, <2>1, Indexed
<1>5. ASSUME NEW k \in 1 .. Len(rob) - m
      PROVE  /\ a[k].epoch = rob[k + m].epoch /\ a[k].path = rob[k + m].path
             /\ {"epoch", "path"} \subseteq DOMAIN a[k]
  <2>1. a[k] = completed(rob[k + m], bus)
    <3>1. m + k = k + m  BY <1>1
    <3>2. QED  BY <3>1
  <2>2. k + m \in DOMAIN rob  BY <1>1
  <2> HIDE DEF a
  <2>3. QED  BY <1>1, <2>1, <2>2, Completed
<1>6. ASSUME NEW k \in 1 .. n
      PROVE  /\ b[k].epoch = decoded[k].epoch /\ b[k].path = decoded[k].path
             /\ {"epoch", "path"} \subseteq DOMAIN b[k]
  BY DEF map_to_rob_entry
<1> HIDE DEF a, b
<1>7. /\ rob' \in Seq(Elements(rob')) /\ Len(rob') = Len(a) + Len(b)
      /\ DOMAIN rob' = 1 .. Len(a) + Len(b)
      /\ \A k \in 1 .. Len(a) + Len(b) :
           rob'[k] = IF k <= Len(a) THEN a[k] ELSE b[k - Len(a)]
  BY <1>2, <1>3, <1>4, Joined
<1>8. ASSUME NEW k \in 1 .. Len(rob')
      PROVE  LET old == IF k <= Len(rob) - m THEN rob[k + m] ELSE decoded[k - (Len(rob) - m)]
             IN  /\ rob'[k].epoch = old.epoch /\ rob'[k].path = old.path
                 /\ {"epoch", "path"} \subseteq DOMAIN rob'[k]
  <2>1. CASE k <= Len(rob) - m
    <3>1. k \in 1 .. Len(rob) - m  BY <2>1
    <3>2. rob'[k] = a[k]  BY <1>3, <1>7, <2>1
    <3>3. QED  BY <1>5, <2>1, <3>1, <3>2
  <2>2. CASE ~(k <= Len(rob) - m)
    <3>1. k - (Len(rob) - m) \in 1 .. n  BY <1>1, <1>3, <1>4, <1>7, <2>2
    <3>2. rob'[k] = b[k - (Len(rob) - m)]  BY <1>3, <1>7, <2>2
    <3>3. QED  BY <1>6, <2>2, <3>1, <3>2
  <2>3. QED  BY <2>1, <2>2
<1>9. QED  BY <1>1, <1>3, <1>4, <1>7, <1>8

(* All that is in flight moves on by what has left.                          *)
LEMMA FlyingStep ==
  ASSUME Sequences, Sequences', NEW n, NEW bus, NEW m, NEW new, NEW interrupt,
         Cycle(n, bus, m, new, interrupt)
  PROVE  /\ m \in 0 .. Len(rob)
         /\ Len(rob') + Len(decoded') = Len(rob) + Len(decoded) - m + Len(new)
         /\ \A k \in 1 .. Len(rob) + Len(decoded) - m :
              /\ Flying'[k].epoch = Flying[k + m].epoch /\ Flying'[k].path = Flying[k + m].path
         /\ \A k \in 1 .. Len(rob') + Len(decoded') : k > Len(rob) + Len(decoded) - m =>
              /\ Flying'[k].epoch = epoch /\ Flying'[k].path = path
<1> DEFINE L == Len(rob)
           D == Len(decoded)
<1>1. /\ L \in Nat /\ D \in Nat
      /\ \A k \in 1 .. L + D : Flying[k] = IF k <= L THEN rob[k] ELSE decoded[k - L]
  BY InFlight DEF Sequences, Flying
<1>2. /\ Len(rob') \in Nat /\ Len(decoded') \in Nat
      /\ \A k \in 1 .. Len(rob') + Len(decoded') :
           Flying'[k] = IF k <= Len(rob') THEN rob'[k] ELSE decoded'[k - Len(rob')]
  BY InFlight DEF Sequences, Flying
<1>3. /\ m \in 0 .. L /\ n \in Nat /\ Len(rob') = L - m + n
      /\ \A k \in 1 .. Len(rob') :
           LET old == IF k <= L - m THEN rob[k + m] ELSE decoded[k - (L - m)]
           IN  rob'[k].epoch = old.epoch /\ rob'[k].path = old.path
  BY RowsStep
<1>4. /\ n \in 0 .. D /\ Len(decoded') = D - n + Len(new)
      /\ \A k \in 1 .. Len(decoded') :
           decoded'[k] = IF k <= D - n THEN decoded[k + n] ELSE new[k - (D - n)]
  BY WindowStep
<1>5. /\ Len(new) \in {0, 1}
      /\ \A k \in 1 .. Len(new) : new[k].epoch = epoch /\ new[k].path = path
  BY Arriving DEF Cycle
<1> HIDE DEF L, D
<1>0. /\ L \in Nat /\ D \in Nat /\ m \in 0 .. L /\ n \in 0 .. D /\ Len(new) \in {0, 1}
      /\ Len(rob') = L - m + n /\ Len(decoded') = D - n + Len(new)
  BY <1>1, <1>3, <1>4, <1>5
<1>6. ASSUME NEW k \in 1 .. L + D - m
      PROVE  Flying'[k].epoch = Flying[k + m].epoch /\ Flying'[k].path = Flying[k + m].path
  <2>1. k \in 1 .. Len(rob') + Len(decoded') /\ k + m \in 1 .. L + D
    BY <1>0
  <2>2. CASE k <= L - m
    <3>1. k \in 1 .. Len(rob') /\ k + m <= L  BY <1>1, <1>3, <2>2
    <3>2. Flying'[k] = rob'[k] /\ Flying[k + m] = rob[k + m]  BY <1>1, <1>2, <2>1, <3>1
    <3>3. QED  BY <1>3, <2>2, <3>1, <3>2
  <2>3. CASE ~(k <= L - m) /\ k <= L - m + n
    <3>1. k \in 1 .. Len(rob') /\ ~(k + m <= L) /\ k + m - L = k - (L - m)
      BY <1>0, <2>3
    <3>2. Flying'[k] = rob'[k]  BY <1>2, <2>1, <3>1
    <3>3. Flying[k + m] = decoded[k - (L - m)]
      <4>1. Flying[k + m] = decoded[(k + m) - L]  BY <1>1, <2>1, <3>1
      <4>2. QED  BY <1>0, <3>1, <4>1
    <3>4. QED  BY <1>3, <2>3, <3>1, <3>2, <3>3
  <2>4. CASE ~(k <= L - m + n)
    <3> DEFINE q == k - Len(rob')
    <3>1. /\ ~(k <= Len(rob')) /\ q \in 1 .. Len(decoded') /\ q <= D - n
          /\ ~(k + m <= L) /\ k + m - L = q + n
      BY <1>0, <2>4
    <3>2. Flying'[k] = decoded'[q]  BY <1>2, <2>1, <3>1
    <3>3. Flying[k + m] = decoded[q + n]
      <4>1. Flying[k + m] = decoded[(k + m) - L]  BY <1>1, <2>1, <3>1
      <4>2. QED  BY <1>0, <3>1, <4>1
    <3>4. decoded'[q] = decoded[q + n]  BY <1>4, <3>1
    <3>5. QED  BY <3>2, <3>3, <3>4
  <2>5. QED  BY <2>2, <2>3, <2>4
<1>7. ASSUME NEW k \in 1 .. Len(rob') + Len(decoded'), k > L + D - m
      PROVE  Flying'[k].epoch = epoch /\ Flying'[k].path = path
  <2> DEFINE q == k - Len(rob')
  <2>1. /\ ~(k <= Len(rob')) /\ q \in 1 .. Len(decoded') /\ ~(q <= D - n)
        /\ q - (D - n) \in 1 .. Len(new)
    BY <1>0, <1>7
  <2>2. Flying'[k] = decoded'[q] /\ decoded'[q] = new[q - (D - n)]
    BY <1>2, <1>4, <2>1
  <2>3. QED  BY <1>5, <2>1, <2>2
<1>8. QED  BY <1>0, <1>6, <1>7 DEF L, D

(* What commits is of the current epoch, and was among what left.            *)
LEMMA Commits ==
  ASSUME Sequences, NEW m \in Nat, Committed(m) # <<>>
  PROVE  \E k \in 1 .. m : rob[k].epoch = epoch
<1>1. CASE Counted(m) = {}
  <2>1. Cardinality(Counted(m)) = 0  BY <1>1, FS_EmptySet
  <2>2. Committed(m) = <<>>  BY <2>1 DEF Committed, InTurn
  <2>3. QED  BY <2>2
<1>2. CASE Counted(m) # {}  BY <1>2 DEF Counted, counts
<1>3. QED  BY <1>1, <1>2

(* A redirect begins a new path under a new epoch.                           *)
LEMMA PathStep ==
  ASSUME Sequences, EnoughEpochs, NEW n, NEW bus, NEW m, NEW new, NEW interrupt,
         Cycle(n, bus, m, new, interrupt)
  PROVE  \E flush \in BOOLEAN :
           /\ path' = IF flush THEN path + 1 ELSE path
           /\ epoch' = IF ~flush THEN epoch ELSE IF epoch + 1 = EPOCHS THEN 0 ELSE epoch + 1
           /\ int_in_process_r' \in BOOLEAN
           /\ \/ Committed(m) # <<>>
              \/ flush /\ ~int_in_process_r /\ int_in_process_r'
              \/ ~flush /\ int_in_process_r' = int_in_process_r
<1> DEFINE c == Committed(m)
           flush == interrupt \/ (c # <<>> /\ redirects(c[Len(c)]))
<1>1. /\ interrupt \in BOOLEAN /\ int_in_process_r \in BOOLEAN /\ epoch \in 0 .. EPOCHS - 1
      /\ EPOCHS \in Nat /\ EPOCHS >= 2
  BY SizeAssumption DEF Sequences, Cycle, EnoughEpochs
<1>2. path' = IF flush THEN path + 1 ELSE path
  BY DEF Cycle, Clock, History
<1>3. next_epoch = IF epoch + 1 = EPOCHS THEN 0 ELSE epoch + 1
  BY <1>1 DEF next_epoch
<1>4. in_process_now(c) \in BOOLEAN /\ (c = <<>> => in_process_now(c) = int_in_process_r)
  BY <1>1 DEF in_process_now
<1>5. CASE interrupt
  <2>1. ~in_process_now(c) /\ int_in_process_r' = TRUE /\ epoch' = next_epoch
    BY <1>5 DEF Cycle, Clock, redirect_on_interrupt, may_interrupt
  <2>2. flush = TRUE  BY <1>5
  <2> HIDE DEF c, flush
  <2>3. QED  BY <1>1, <1>2, <1>3, <1>4, <1>5, <2>1, <2>2 DEF c
<1>6. CASE ~interrupt
  <2>1. /\ int_in_process_r' = in_process_now(c)
        /\ epoch' = IF c # <<>> /\ redirects(c[Len(c)]) THEN next_epoch ELSE epoch
    BY <1>6 DEF Cycle, Clock, redirect_on_no_interrupt
  <2>2. flush \in BOOLEAN /\ (flush <=> c # <<>> /\ redirects(c[Len(c)]))
    BY <1>1, <1>6 DEF redirects
  <2>3. flush => c # <<>>  BY <2>2
  <2>4. epoch' = IF flush THEN next_epoch ELSE epoch  BY <2>1, <2>2
  <2> HIDE DEF c, flush
  <2>5. QED  BY <1>2, <1>3, <1>4, <2>1, <2>2, <2>3, <2>4 DEF c
<1>7. QED  BY <1>1, <1>5, <1>6

-----------------------------------------------------------------------------
LEMMA SequencesStep ==
  ASSUME Sequences, EnoughEpochs, NEW n, NEW bus, NEW m, NEW new, NEW interrupt,
         Cycle(n, bus, m, new, interrupt)
  PROVE  Sequences'
<1>1. /\ epoch' \in 0 .. EPOCHS - 1 /\ path' \in Nat /\ int_in_process_r' \in BOOLEAN
  BY PathStep DEF Sequences, EnoughEpochs
<1>2. \A k \in DOMAIN rob' : {"epoch", "path"} \subseteq DOMAIN rob'[k]
  BY RowsStep
<1>3. rob' \in Seq(Elements(rob')) /\ decoded' \in Seq(Elements(decoded'))
  BY RowsStep, WindowStep
<1>4. QED  BY <1>1, <1>2, <1>3 DEF Sequences, Elements

(* If anything has committed, what is left is of the current path.           *)
LEMMA LeftIsCurrent ==
  ASSUME IInv, EnoughEpochs, NEW m \in 0 .. Len(rob), Committed(m) # <<>>
  PROVE  \A k \in m + 1 .. Len(rob) + Len(decoded) : Flying[k].path = path
<1>1. /\ Len(rob) \in Nat /\ Len(decoded) \in Nat /\ m \in Nat
      /\ \A k \in 1 .. Len(rob) + Len(decoded) :
           Flying[k] = IF k <= Len(rob) THEN rob[k] ELSE decoded[k - Len(rob)]
  BY InFlight DEF IInv, Sequences, Flying
<1>2. PICK i \in 1 .. m : rob[i].epoch = epoch  BY <1>1, Commits DEF IInv
<1>3. i \in 1 .. Len(rob) + Len(decoded) /\ i <= Len(rob)  BY <1>1
<1>4. Flying[i] = rob[i]  BY <1>1, <1>3
<1>5. EpochFits(Flying[i])  BY <1>3 DEF IInv, EpochsFit
<1>6. Flying[i].path = path
  <2> DEFINE p == Flying[i].path
             x == Flying[i].epoch
  <2>1. /\ p \in Nat /\ p <= path /\ path - p <= Reach
        /\ x = IF path - p <= epoch THEN epoch - (path - p) ELSE epoch + EPOCHS - (path - p)
    BY <1>5 DEF EpochFits, Survived
  <2>2. x = epoch  BY <1>2, <1>4
  <2>3. /\ path \in Nat /\ Reach \in {1, 2} /\ epoch \in 0 .. EPOCHS - 1
        /\ EPOCHS \in Nat /\ EPOCHS >= 3
    BY SizeAssumption DEF Reach, IInv, Sequences, EnoughEpochs
  <2> HIDE DEF p, x
  <2>4. p = path  BY <2>1, <2>2, <2>3
  <2>5. QED  BY <2>4 DEF p
<1>7. QED
  <2> TAKE k \in m + 1 .. Len(rob) + Len(decoded)
  <2>1. k \in 1 .. Len(rob) + Len(decoded) /\ i <= k  BY <1>1
  <2>2. QED  BY <1>3, <1>6, <2>1 DEF IInv, CurrentLast

LEMMA PathsStep ==
  ASSUME IInv, EnoughEpochs, NEW n, NEW bus, NEW m, NEW new, NEW interrupt,
         Cycle(n, bus, m, new, interrupt)
  PROVE  IInv'
<1> DEFINE N == Len(rob) + Len(decoded)
           M == Len(rob') + Len(decoded')
<1>1. Sequences /\ Sequences'  BY SequencesStep DEF IInv
<1>2. /\ epoch \in 0 .. EPOCHS - 1 /\ path \in Nat /\ int_in_process_r \in BOOLEAN
      /\ EPOCHS \in Nat /\ EPOCHS >= 3
  BY <1>1, SizeAssumption DEF Sequences, EnoughEpochs
<1>3. /\ N \in Nat /\ m \in 0 .. N /\ m \in 0 .. Len(rob) /\ Len(new) \in {0, 1}
      /\ M = N - m + Len(new)
      /\ \A k \in 1 .. N - m :
           Flying'[k].epoch = Flying[k + m].epoch /\ Flying'[k].path = Flying[k + m].path
      /\ \A k \in 1 .. M : k > N - m => Flying'[k].epoch = epoch /\ Flying'[k].path = path
  <2>1. Len(rob) \in Nat /\ Len(decoded) \in Nat  BY <1>1 DEF Sequences
  <2>2. Len(new) \in {0, 1}  BY Arriving DEF Cycle
  <2>3. QED  BY <1>1, <2>1, <2>2, FlyingStep
<1>4. PICK flush \in BOOLEAN :
        /\ path' = IF flush THEN path + 1 ELSE path
        /\ epoch' = IF ~flush THEN epoch ELSE IF epoch + 1 = EPOCHS THEN 0 ELSE epoch + 1
        /\ int_in_process_r' \in BOOLEAN
        /\ \/ Committed(m) # <<>>
           \/ flush /\ ~int_in_process_r /\ int_in_process_r'
           \/ ~flush /\ int_in_process_r' = int_in_process_r
  BY <1>1, PathStep
<1>5. Committed(m) # <<>> => \A k \in m + 1 .. N : Flying[k].path = path
  BY <1>3, LeftIsCurrent
<1>6. \A k \in 1 .. N : EpochFits(Flying[k])  BY DEF IInv, EpochsFit
<1>7. \A i, k \in 1 .. N : i <= k /\ Flying[i].path = path => Flying[k].path = path
  BY DEF IInv, CurrentLast
<1> HIDE DEF N, M
(* What an instruction in flight was before the cycle.                       *)
<1>8. ASSUME NEW k \in 1 .. M
      PROVE  /\ Flying'[k].path \in Nat /\ Flying'[k].path <= path
             /\ path - Flying'[k].path <= Reach
             /\ Committed(m) # <<>> => Flying'[k].path = path
             /\ LET d == path - Flying'[k].path
                IN  Flying'[k].epoch = IF d <= epoch THEN epoch - d ELSE epoch + EPOCHS - d
  <2>1. CASE k <= N - m
    <3>1. k \in 1 .. N - m /\ k + m \in 1 .. N /\ k + m \in m + 1 .. N  BY <1>3, <2>1
    <3>2. Flying'[k].epoch = Flying[k + m].epoch /\ Flying'[k].path = Flying[k + m].path
      BY <1>3, <3>1
    <3>3. EpochFits(Flying[k + m])  BY <1>6, <3>1
    <3>4. QED  BY <1>5, <3>1, <3>2, <3>3 DEF EpochFits, Survived
  <2>2. CASE ~(k <= N - m)
    <3>1. k > N - m  BY <1>3, <2>2
    <3>2. Flying'[k].epoch = epoch /\ Flying'[k].path = path  BY <1>3, <3>1
    <3>3. Reach \in {1, 2}  BY DEF Reach
    <3>4. QED  BY <1>2, <3>2, <3>3
  <2>3. QED  BY <2>1, <2>2
<1>9. EpochsFit'
  <2> SUFFICES ASSUME NEW k \in 1 .. M PROVE EpochFits(Flying[k])'
    BY DEF EpochsFit, M
  <2> DEFINE p == Flying'[k].path
             x == Flying'[k].epoch
  <2>1. /\ p \in Nat /\ p <= path /\ path - p <= Reach
        /\ Committed(m) # <<>> => p = path
        /\ x = IF path - p <= epoch THEN epoch - (path - p) ELSE epoch + EPOCHS - (path - p)
    BY <1>8
  <2> HIDE DEF p, x
  <2>2. p <= path' /\ path' - p <= Reach'
    <3>1. CASE Committed(m) # <<>>  BY <1>2, <1>4, <2>1, <3>1 DEF Reach
    <3>2. CASE Committed(m) = <<>>  BY <1>2, <1>4, <2>1, <3>2 DEF Reach
    <3>3. QED  BY <3>1, <3>2
  <2>3. path - p \in 0 .. 2  BY <1>2, <2>1 DEF Reach
  <2>4. x = IF path' - p <= epoch' THEN epoch' - (path' - p) ELSE epoch' + EPOCHS - (path' - p)
    <3>1. CASE ~flush  BY <1>4, <2>1, <3>1
    <3>2. CASE flush
      <4>1. path' - p = (path - p) + 1  BY <1>2, <1>4, <2>1, <3>2
      <4>2. epoch' = IF epoch + 1 = EPOCHS THEN 0 ELSE epoch + 1  BY <1>4, <3>2
      <4>3. QED  BY <1>2, <2>1, <2>3, <4>1, <4>2
    <3>3. QED  BY <3>1, <3>2
  <2>5. QED  BY <2>1, <2>2, <2>4 DEF EpochFits, Survived, p, x
<1>10. CurrentLast'
  <2> SUFFICES ASSUME NEW i \in 1 .. M, NEW k \in 1 .. M, i <= k, Flying'[i].path = path'
               PROVE  Flying'[k].path = path'
    BY DEF CurrentLast, M
  <2>1. ~flush /\ path' = path
    <3>1. Flying'[i].path <= path /\ Flying'[i].path \in Nat  BY <1>8
    <3>2. QED  BY <1>2, <1>4, <3>1
  <2>2. CASE k > N - m  BY <1>3, <2>1, <2>2
  <2>3. CASE ~(k > N - m)
    <3>1. /\ i \in 1 .. N - m /\ k \in 1 .. N - m /\ i + m \in 1 .. N /\ k + m \in 1 .. N
          /\ i + m <= k + m
      BY <1>3, <2>3
    <3>2. Flying'[i].path = Flying[i + m].path /\ Flying'[k].path = Flying[k + m].path
      BY <1>3, <3>1
    <3>3. QED  BY <1>7, <2>1, <3>1, <3>2
  <2>4. QED  BY <2>2, <2>3
<1>11. QED  BY <1>1, <1>9, <1>10 DEF IInv

-----------------------------------------------------------------------------
(* The inductive invariant, for every core: however mispredictions,          *)
(* exceptions, returns and interrupts follow each other, the epoch of what   *)
(* is in flight is as far behind that of commit as its path is, and nothing  *)
(* is more than two redirects behind.                                        *)
THEOREM EpochsKeepUp ==
  ASSUME EnoughEpochs
  PROVE  Spec => []IInv
<1>1. Init => IInv
  <2> SUFFICES ASSUME Init PROVE IInv  OBVIOUS
  <2>1. /\ rob = <<>> /\ decoded = <<>> /\ epoch = 0 /\ path = 0 /\ int_in_process_r = FALSE
        /\ EPOCHS \in Nat /\ EPOCHS >= 3
    BY SizeAssumption DEF Init, EnoughEpochs
  <2>2. Len(rob) = 0 /\ Len(decoded) = 0  BY <2>1
  <2>3. Sequences
    <3>1. rob = [k \in 1 .. 0 |-> rob[k]] /\ decoded = [k \in 1 .. 0 |-> decoded[k]]
      BY <2>1
    <3>2. /\ rob \in Seq(Elements(rob)) /\ DOMAIN rob = {}
          /\ decoded \in Seq(Elements(decoded))
      BY <3>1, Indexed
    <3>3. epoch \in 0 .. EPOCHS - 1 /\ path \in Nat  BY <2>1
    <3>4. int_in_process_r \in BOOLEAN  BY <2>1
    <3>5. \A k \in DOMAIN rob : {"epoch", "path"} \subseteq DOMAIN rob[k]  BY <3>2
    <3>6. QED  BY <3>2, <3>3, <3>4, <3>5 DEF Sequences
  <2>4. 1 .. Len(rob) + Len(decoded) = {}  BY <2>2
  <2>5. QED  BY <2>3, <2>4 DEF IInv, EpochsFit, CurrentLast
<1>2. IInv /\ [Next]_vars => IInv'
  <2> SUFFICES ASSUME IInv, [Next]_vars PROVE IInv'  OBVIOUS
  <2>1. CASE Next
    <3>1. PICK n, bus, m, new, interrupt : Cycle(n, bus, m, new, interrupt)
      BY <2>1, NextCycles
    <3>2. QED  BY <3>1, PathsStep
  <2>2. CASE UNCHANGED vars
    <3>1. UNCHANGED <<rob, decoded, epoch, path, int_in_process_r>>
      BY <2>2 DEF vars, frontend, backend, history
    <3>2. Flying' = Flying  BY <3>1 DEF Flying
    <3>3. Sequences'  BY <3>1 DEF IInv, Sequences, Elements
    <3>4. EpochsFit'
      BY <3>1, <3>2 DEF IInv, EpochsFit, EpochFits, Survived, Reach
    <3>5. CurrentLast'  BY <3>1, <3>2 DEF IInv, CurrentLast
    <3>6. QED  BY <3>3, <3>4, <3>5 DEF IInv
  <2>3. QED  BY <2>1, <2>2
<1>3. QED  BY <1>1, <1>2, PTL DEF Spec

(* Exactly the instructions fetched since the last redirect carry the        *)
(* current epoch: no instruction of an abandoned path is ever taken for one  *)
(* of the current path, for every size of the core.                          *)
THEOREM EpochsNamePaths ==
  ASSUME EnoughEpochs
  PROVE  Spec => []EpochNamesPath
<1>1. IInv => EpochNamesPath
  <2> SUFFICES ASSUME IInv, NEW k \in 1 .. Len(Flying)
               PROVE  /\ Flying[k].epoch = epoch <=> Flying[k].path = path
                      /\ path - Flying[k].path <= 2
    BY DEF EpochNamesPath
  <2> DEFINE p == Flying[k].path
             x == Flying[k].epoch
  <2>1. Len(Flying) = Len(rob) + Len(decoded)  BY InFlight DEF IInv, Sequences, Flying
  <2>2. EpochFits(Flying[k])  BY <2>1 DEF IInv, EpochsFit
  <2>3. /\ p \in Nat /\ path \in Nat /\ p <= path /\ path - p <= 2
        /\ x = IF path - p <= epoch THEN epoch - (path - p) ELSE epoch + EPOCHS - (path - p)
        /\ epoch \in 0 .. EPOCHS - 1 /\ EPOCHS \in Nat /\ EPOCHS >= 3
    BY <2>2, SizeAssumption DEF EpochFits, Survived, Reach, IInv, Sequences, EnoughEpochs
  <2> HIDE DEF p, x
  <2>4. (x = epoch <=> p = path) /\ path - p <= 2  BY <2>3
  <2>5. QED  BY <2>4 DEF p, x
<1>2. QED  BY <1>1, EpochsKeepUp, PTL

-----------------------------------------------------------------------------
(* The rows K are each in turn once.                                        *)
LEMMA RowsInTurn ==
  ASSUME NEW m \in Nat, NEW K \in SUBSET (1 .. m)
  PROVE  /\ Cardinality(K) \in Nat
         /\ InTurn(K) = [i \in 1 .. Cardinality(K) |-> InTurn(K)[i]]
         /\ \A i \in 1 .. Cardinality(K) : \E k \in K : InTurn(K)[i] = rob[k]
         /\ \A k \in K : \E i \in 1 .. Cardinality(K) : InTurn(K)[i] = rob[k]
<1> DEFINE rank == [k \in K |-> Cardinality({j \in K : j < k})]
           c == Cardinality(K)
<1>1. IsFiniteSet(1 .. m)
  BY FS_Interval
<1>2. IsFiniteSet(K) /\ c \in Nat
  BY <1>1, FS_Subset, FS_CardinalityType
<1>3. ASSUME NEW k \in K
      PROVE  rank[k] \in 0 .. c - 1 /\ rank[k] = Cardinality({j \in K : j < k})
  <2>1. {j \in K : j < k} \in SUBSET K /\ {j \in K : j < k} # K
    OBVIOUS
  <2>2. /\ IsFiniteSet({j \in K : j < k}) /\ Cardinality({j \in K : j < k}) <= c
        /\ Cardinality({j \in K : j < k}) # c
    BY <1>2, <2>1, FS_Subset
  <2>3. Cardinality({j \in K : j < k}) \in Nat
    BY <2>2, FS_CardinalityType
  <2> QED
    BY <1>2, <2>2, <2>3
<1>4. ASSUME NEW j \in K, NEW k \in K, j < k
      PROVE  rank[j] < rank[k]
  <2> DEFINE J == {i \in K : i < j}
             L == {i \in K : i < k}
  <2>1. J \in SUBSET L /\ J # L
    <3>1. j \in L /\ j \notin J
      BY <1>4
    <3>2. \A i \in K : i < j => i < k
      BY <1>4
    <3> QED
      BY <3>1, <3>2
  <2>2. L \in SUBSET K
    OBVIOUS
  <2>3. IsFiniteSet(L)
    BY <1>2, <2>2, FS_Subset
  <2> HIDE DEF J, L
  <2>4. Cardinality(J) <= Cardinality(L) /\ Cardinality(J) # Cardinality(L)
    BY <2>1, <2>3, FS_Subset
  <2>5. rank[j] = Cardinality(J) /\ rank[k] = Cardinality(L)
    BY DEF J, L
  <2>6. rank[j] \in Nat /\ rank[k] \in Nat
    BY <1>2, <1>3
  <2> QED
    BY <2>4, <2>5, <2>6
<1>5. rank \in Surjection(K, 0 .. c - 1)
  <2>1. rank \in [K -> 0 .. c - 1]
    BY <1>3
  <2>2. \A j, k \in K : rank[j] = rank[k] => j = k
    <3>1. ASSUME NEW j \in K, NEW k \in K, rank[j] = rank[k], j # k
          PROVE  FALSE
      <4>1. j < k \/ k < j
        BY <3>1
      <4>2. rank[j] < rank[k] \/ rank[k] < rank[j]
        BY <1>4, <4>1
      <4>3. rank[j] \in Nat /\ rank[k] \in Nat
        BY <1>2, <1>3
      <4> QED
        BY <3>1, <4>2, <4>3
    <3> QED
      BY <3>1
  <2> HIDE DEF rank
  <2>3. rank \in Injection(K, 0 .. c - 1)
    BY <2>1, <2>2 DEF Injection, IsInjective
  <2>4. IsFiniteSet(0 .. c - 1) /\ Cardinality(0 .. c - 1) = c
    <3>1. IsFiniteSet(0 .. c - 1) /\ Cardinality(0 .. c - 1) = IF 0 > c - 1 THEN 0 ELSE c - 1 - 0 + 1
      BY <1>2, FS_Interval
    <3> QED
      BY <1>2, <3>1
  <2>5. Cardinality(K) = Cardinality(0 .. c - 1)
    BY <2>4
  <2> QED
    BY <2>3, <2>4, <2>5, FS_Injection
<1>6. \A i \in 1 .. c : \E k \in K : rank[k] = i - 1
  <2>1. \A i \in 1 .. c : i - 1 \in 0 .. c - 1
    BY <1>2
  <2> HIDE DEF rank, c
  <2> QED
    BY <1>5, <2>1 DEF Surjection
<1>7. \A i \in 1 .. c : InTurn(K)[i] = rob[CHOOSE k \in K : Cardinality({j \in K : j < k}) = i - 1]
  BY DEF InTurn
<1>8. InTurn(K) = [i \in 1 .. c |-> InTurn(K)[i]]
  BY <1>7 DEF InTurn
<1>9. ASSUME NEW i \in 1 .. c
      PROVE  LET k == CHOOSE k \in K : Cardinality({j \in K : j < k}) = i - 1
             IN  k \in K /\ rank[k] = i - 1
  <2>1. \E k \in K : Cardinality({j \in K : j < k}) = i - 1
    BY <1>3, <1>6
  <2> QED
    BY <2>1
<1>10. ASSUME NEW k \in K
       PROVE  \E i \in 1 .. c : InTurn(K)[i] = rob[k]
  <2>1. rank[k] + 1 \in 1 .. c /\ (rank[k] + 1) - 1 = rank[k]
    BY <1>2, <1>3
  <2>2. PICK i : i = rank[k] + 1
    OBVIOUS
  <2>3. i \in 1 .. c /\ i - 1 = rank[k]
    BY <2>1, <2>2
  <2>4. PICK l : l = CHOOSE p \in K : Cardinality({j \in K : j < p}) = i - 1
    OBVIOUS
  <2>5. l \in K /\ rank[l] = i - 1
    BY <1>9, <2>3, <2>4
  <2>6. l = k
    <3>1. ~(l < k) /\ ~(k < l)
      <4>1. rank[l] \in Nat /\ rank[k] \in Nat
        BY <1>2, <1>3, <2>5
      <4>2. ~(rank[l] < rank[k]) /\ ~(rank[k] < rank[l])
        BY <2>3, <2>5, <4>1
      <4> QED
        BY <1>4, <2>5, <4>2
    <3> QED
      BY <2>5, <3>1
  <2> QED
    BY <1>7, <2>3, <2>4, <2>6
<1> HIDE DEF rank
<1> QED
  BY <1>2, <1>7, <1>8, <1>9, <1>10

-----------------------------------------------------------------------------
(* From issue to commit: tags, operands and results.                        *)
Flight    == [id : Value, pc : PC, pred_pc : PC, epoch : 0 .. EPOCHS - 1, path : Nat]
RobEntry  == [id : Value, pc : PC, pred_pc : PC, epoch : 0 .. EPOCHS - 1, path : Nat, tag : Tag,
              done : BOOLEAN, src : Value, next_pc : PC, except : BOOLEAN]
Result    == [tag : Tag, value : Value, src : Value, next_pc : PC, except : BOOLEAN]
Loopback  == [tag : Tag, value : Value]
Waiting   == [tag : Tag, rs1 : Regs!OperandRS]
RegWrite  == [addr : Register \cup {0}, data : Value]

(* TypeOK in parts.                                                         *)
FrontTypes ==
  /\ text \in Programs /\ fetch_pc \in PC /\ fetched \in Value
  /\ decoded \in Seq(Flight) /\ Len(decoded) <= INST_WINDOW
CoreTypes ==
  /\ stations \subseteq Waiting
  /\ delay_bus_rs \in Seq(SUBSET Loopback) /\ Len(delay_bus_rs) = RESBUS_ADDED_DELAY
  /\ csr_unit \in {<<>>} \cup {<<u>> : u \in [tag : Tag, out : BOOLEAN]}
  /\ out_wr \in {<<>>} \cup {<<v>> : v \in Value}
RobTypes == rob_idx \in Tag /\ rob \in Seq(RobEntry) /\ Len(rob) <= ROBDEPTH
RegTypes ==
  /\ registers \in [Register -> Regs!EvoEntry] /\ regs \in [Register -> Value]
  /\ out_buffer \in Seq(RegWrite)
CommitTypes ==
  /\ epoch \in 0 .. EPOCHS - 1 /\ next_pc_r \in {<<>>} \cup {<<a>> : a \in PC}
  /\ int_in_process_r \in BOOLEAN /\ mepc \in PC /\ mscratch \in Value
  /\ csr_writer \in Value /\ csr_torn \in BOOLEAN

LEMMA TypeParts == TypeOK <=> FrontTypes /\ CoreTypes /\ RobTypes /\ RegTypes /\ CommitTypes
BY DEF TypeOK, FrontTypes, CoreTypes, RobTypes, RegTypes, CommitTypes, Flight, RobEntry, Loopback,
       Waiting, RegWrite, Regs!RegistersOK

(* The rows have consecutive tags, up to the next one to give.              *)
Back(b) == IF b <= rob_idx THEN rob_idx - b ELSE rob_idx + ROBDEPTH - b
InRing  == \A k \in 1 .. Len(rob) : rob[k].tag = Back(Len(rob) - k + 1)

(* An instruction with this tag has no result yet.                          *)
Undone(t) == \E k \in 1 .. Len(rob) : rob[k].tag = t /\ ~rob[k].done

StationsWait == \A s \in stations : Undone(s.tag)
Reserved     == \A r \in Register : registers[r].is = "Tag" => Undone(registers[r].tag)

(* What a station waits for is to come from an older instruction, or is on   *)
(* its way.                                                                 *)
Coming(s) ==
  \/ \E j, k \in 1 .. Len(rob) : /\ j < k /\ rob[k].tag = s.tag
                                 /\ rob[j].tag = s.rs1.tag /\ ~rob[j].done
  \/ \E d \in 1 .. RESBUS_ADDED_DELAY : \E r \in delay_bus_rs[d] : r.tag = s.rs1.tag

WakeUps == \A s \in stations : s.rs1.is = "Tag" => Coming(s)

(* What is in the CSR unit is the oldest.                                    *)
CsrAtHead ==
  csr_unit # <<>> => /\ rob # <<>> /\ rob[1].tag = csr_unit[1].tag
                     /\ ~rob[1].done /\ system(rob[1])

CoreInv == TypeOK /\ InRing /\ StationsWait /\ Reserved /\ WakeUps /\ CsrAtHead

-----------------------------------------------------------------------------
(* mscratch.  Only the oldest may have passed the CSR unit.                  *)
SystemsAtHead == \A k \in 2 .. Len(rob) : system(rob[k]) => ~rob[k].done

(* An instruction that is to count when it commits, as things stand.         *)
CsrNow == rob # <<>> /\ inst(rob[1]).kind = "csr" /\ rob[1].epoch = epoch

Answers == csr_unit # <<>> /\ csr_unit[1].out

(* What is sent to the CSR file is what the CSR unit answers with.           *)
WriteSent ==
  /\ Answers /\ CsrNow => out_wr = <<rob[1].id>>
  /\ out_wr # <<>> => Answers /\ (~csr_torn => CsrNow)

WriteCommits ==
  ~csr_torn => mscratch = IF CsrNow /\ rob[1].done THEN rob[1].id ELSE csr_writer

CsrInv == SystemsAtHead /\ WriteSent /\ WriteCommits

-----------------------------------------------------------------------------
(* The greatest of some indices.                                            *)
LEMMA Greatest ==
  ASSUME NEW n \in Nat, NEW S \in SUBSET (1 .. n), S # {}
  PROVE  \E s \in S : \A t \in S : t <= s
<1> DEFINE R == OpToRel(<, Nat)
           D == {d \in Nat : n - d \in S}
<1>1. IsWellFoundedOn(R, Nat)
  BY NatLessThanWellFounded
<1>2. \A x, y \in Nat : y < x => <<y, x>> \in R
  BY DEF OpToRel
<1>3. D # {} /\ D \subseteq Nat
  <2>1. PICK s \in S : TRUE
    OBVIOUS
  <2>2. n - s \in Nat /\ n - (n - s) = s
    OBVIOUS
  <2>3. n - s \in D
    BY <2>1, <2>2
  <2> QED
    BY <2>3
<1> HIDE DEF R
<1>4. PICK x \in D : \A y \in D : ~(<<y, x>> \in R)
  <2> HIDE DEF D
  <2> QED
    BY <1>1, <1>3, WFMin
<1>5. ASSUME NEW t \in S
      PROVE  t <= n - x
  <2>1. n - t \in Nat /\ n - (n - t) = t
    OBVIOUS
  <2>2. n - t \in D
    BY <2>1
  <2>3. ~(n - t < x)
    BY <1>2, <1>4, <2>2
  <2> QED
    BY <1>4, <2>3
<1> QED
  BY <1>4, <1>5

LEMMA Tags ==
  ASSUME RobTypes
  PROVE  /\ ROBDEPTH \in Nat \ {0} /\ rob_idx \in Nat /\ rob_idx < ROBDEPTH /\ Len(rob) \in Nat
         /\ DOMAIN rob = 1 .. Len(rob)
         /\ \A k \in 1 .. Len(rob) : rob[k] \in RobEntry
         /\ \A a \in 0 .. ROBDEPTH :
              rollover_add(rob_idx, a) = IF rob_idx + a < ROBDEPTH THEN rob_idx + a
                                         ELSE rob_idx + a - ROBDEPTH
<1>1. /\ ROBDEPTH \in Nat \ {0} /\ rob_idx \in 0 .. ROBDEPTH - 1 /\ Len(rob) \in Nat
      /\ DOMAIN rob = 1 .. Len(rob)
  BY SizeAssumption DEF RobTypes, Tag
<1>2. \A k \in 1 .. Len(rob) : rob[k] \in RobEntry
  BY ElementOfSeq DEF RobTypes
<1> QED
  BY <1>1, <1>2 DEF rollover_add

(* A tag names one row.                                                     *)
LEMMA OneRow ==
  ASSUME RobTypes, InRing
  PROVE  \A j, k \in 1 .. Len(rob) : rob[j].tag = rob[k].tag => j = k
<1> SUFFICES ASSUME NEW j \in 1 .. Len(rob), NEW k \in 1 .. Len(rob), rob[j].tag = rob[k].tag
             PROVE  j = k
  OBVIOUS
<1>1. Back(Len(rob) - j + 1) = Back(Len(rob) - k + 1)
  BY DEF InRing
<1>2. /\ ROBDEPTH \in Nat \ {0} /\ rob_idx \in Nat /\ rob_idx < ROBDEPTH /\ Len(rob) \in Nat
      /\ Len(rob) <= ROBDEPTH
  BY Tags DEF RobTypes
<1> QED
  BY <1>1, <1>2 DEF Back

(* A row is found by its tag.                                               *)
LEMMA EntryIs ==
  ASSUME RobTypes, InRing, NEW k \in 1 .. Len(rob)
  PROVE  Entry(rob[k].tag) = rob[k]
<1>1. PICK j : j = CHOOSE i \in 1 .. Len(rob) : rob[i].tag = rob[k].tag
  OBVIOUS
<1>2. j \in 1 .. Len(rob) /\ rob[j].tag = rob[k].tag
  BY <1>1
<1>3. j = k
  BY <1>2, OneRow
<1> QED
  BY <1>1, <1>3 DEF Entry

(* The instruction at an address.                                           *)
LEMMA Instructions ==
  ASSUME FrontTypes
  PROVE  /\ \A a \in PC : text[a] \in InstType /\ Follow(a) \in PC
         /\ 0 \in PC /\ TVEC \in PC /\ 0 \in Value
<1>1. Size \in Nat \ {0} /\ MaxFetched \in Nat /\ TVEC \in PC
  BY SizeAssumption, ProgramAssumption
<1>2. text \in [PC -> InstType]
  BY ProgramAssumption DEF FrontTypes
<1> QED
  BY <1>1, <1>2 DEF PC, Follow, Value

(* What is on the bus is the result of a row that had none.                 *)
LEMMA BusIs ==
  ASSUME TypeOK, InRing, StationsWait, NEW bus \in SUBSET Results
  PROVE  /\ \A r \in bus : r \in Result /\ Undone(r.tag)
         /\ loopback(bus) \subseteq Loopback
         /\ \A r \in loopback(bus) : \E q \in bus : q.tag = r.tag
         /\ \A q \in bus : \E r \in loopback(bus) : q.tag = r.tag
<1>1. FrontTypes /\ CoreTypes /\ RobTypes
  BY TypeParts
<1>2. ASSUME NEW r \in bus
      PROVE  r \in Result /\ Undone(r.tag)
  <2>1. PICK s \in ready : \E o \in Outcomes(Entry(s.tag)) : r = result(s, o)
    BY DEF Results
  <2>2. PICK o \in Outcomes(Entry(s.tag)) : r = result(s, o)
    BY <2>1
  <2>3. s \in stations /\ s \in Waiting /\ s.rs1.is = "Value"
    BY <1>1 DEF ready, CoreTypes
  <2>4. s.tag \in Tag /\ s.rs1.value \in Value
    BY <2>3 DEF Waiting, Regs!OperandRS
  <2>5. PICK k \in 1 .. Len(rob) : rob[k].tag = s.tag /\ ~rob[k].done
    BY <2>3 DEF StationsWait, Undone
  <2>6. Entry(s.tag) = rob[k] /\ rob[k] \in RobEntry
    BY <1>1, <2>5, EntryIs, Tags
  <2>7. /\ rob[k].pc \in PC /\ rob[k].id \in Value
        /\ inst(rob[k]) \in InstType /\ Follow(rob[k].pc) \in PC
    BY <1>1, <2>6, Instructions DEF RobEntry, inst
  <2>8. o.next_pc \in PC /\ o.except \in BOOLEAN
    <3>1. PICK on : on = [next_pc |-> Follow(rob[k].pc), except |-> FALSE]
      OBVIOUS
    <3>2. inst(rob[k]).target \in PC
      BY <2>7 DEF InstType
    <3>3. /\ on.next_pc \in PC /\ on.except = FALSE
          /\ [on EXCEPT !.next_pc = inst(rob[k]).target].next_pc \in PC
          /\ [on EXCEPT !.next_pc = inst(rob[k]).target].except = FALSE
          /\ [on EXCEPT !.except = TRUE].next_pc \in PC
          /\ [on EXCEPT !.except = TRUE].except = TRUE
      BY <2>7, <3>1, <3>2
    <3>4. o \in {on, [on EXCEPT !.next_pc = inst(rob[k]).target], [on EXCEPT !.except = TRUE]}
      BY <2>2, <2>6, <3>1 DEF Outcomes
    <3> QED
      BY <3>3, <3>4
  <2>9. r \in Result /\ r.tag = s.tag
    BY <2>2, <2>4, <2>6, <2>7, <2>8 DEF result, Result
  <2> QED
    BY <2>3, <2>9 DEF StationsWait
<1>3. \A r \in bus : [tag |-> r.tag, value |-> r.value] \in Loopback /\ [tag |-> r.tag, value |-> r.value].tag = r.tag
  BY <1>2 DEF Result, Loopback
<1> QED
  BY <1>2, <1>3 DEF loopback

-----------------------------------------------------------------------------
(* What the bus does to an operand, or to the entry of a register.          *)
LEMMA Latched ==
  ASSUME NEW b \in SUBSET Loopback, NEW e \in Regs!EvoEntry
  PROVE  /\ Regs!latch(e, b) \in Regs!EvoEntry
         /\ e \in Regs!OperandRS => Regs!latch(e, b) \in Regs!OperandRS
         /\ Regs!latch(e, b).is = "Tag" => /\ e.is = "Tag" /\ Regs!latch(e, b) = e
                                           /\ \A r \in b : r.tag # e.tag
<1>1. CASE e.is = "Tag" /\ \E r \in b : r.tag = e.tag
  <2>1. PICK r : r = CHOOSE q \in b : q.tag = e.tag
    OBVIOUS
  <2>2. r \in b /\ r \in Loopback
    BY <1>1, <2>1
  <2>3. Regs!latch(e, b) = Regs!AsValue(r.value)
    BY <1>1, <2>1 DEF Regs!latch
  <2>4. r.value \in Value
    BY <2>2 DEF Loopback
  <2> QED
    BY <2>3, <2>4 DEF Regs!AsValue, Regs!EvoEntry, Regs!OperandRS
<1>2. CASE ~(e.is = "Tag" /\ \E r \in b : r.tag = e.tag)
  <2>1. Regs!latch(e, b) = e
    BY <1>2 DEF Regs!latch
  <2> QED
    BY <1>2, <2>1
<1> QED
  BY <1>1, <1>2

LEMMA IssuedAre ==
  ASSUME FrontTypes, RobTypes, NEW n \in 0 .. Len(decoded), n <= ROBDEPTH
  PROVE  /\ Issued(n) = [k \in 1 .. n |-> Issued(n)[k]] /\ Len(Issued(n)) = n
         /\ \A k \in 1 .. n : /\ Issued(n)[k].tag = rollover_add(rob_idx, k - 1)
                              /\ Issued(n)[k].tag \in Tag
                              /\ Issued(n)[k].rd \in Register \cup {0}
                              /\ Issued(n)[k].rs \in Register \cup {0}
                              /\ decoded[k] \in Flight
<1>1. Len(decoded) \in Nat /\ \A k \in 1 .. n : decoded[k] \in Flight
  BY ElementOfSeq DEF FrontTypes
<1>2. /\ Issued(n) = [k \in 1 .. n |-> Issued(n)[k]] /\ Len(Issued(n)) = n
  BY <1>1 DEF Issued
<1>3. ASSUME NEW k \in 1 .. n
      PROVE  /\ Issued(n)[k].tag = rollover_add(rob_idx, k - 1)
             /\ Issued(n)[k].rd = inst(decoded[k]).rd /\ Issued(n)[k].rs = inst(decoded[k]).rs
  BY DEF Issued
<1>4. ASSUME NEW k \in 1 .. n
      PROVE  rollover_add(rob_idx, k - 1) \in Tag
  <2>1. k - 1 \in 0 .. ROBDEPTH /\ k - 1 < ROBDEPTH
    BY <1>1, Tags
  <2> QED
    BY <2>1, Tags DEF Tag
<1>5. ASSUME NEW k \in 1 .. n
      PROVE  inst(decoded[k]).rd \in Register \cup {0} /\ inst(decoded[k]).rs \in Register \cup {0}
  <2>1. decoded[k].pc \in PC
    BY <1>1 DEF Flight
  <2>2. inst(decoded[k]) \in InstType
    BY <2>1, Instructions DEF inst
  <2> QED
    BY <2>2 DEF InstType
<1> QED
  BY <1>1, <1>2, <1>3, <1>4, <1>5

(* Where the operand of an instruction comes from.                          *)
LEMMA Gathered ==
  ASSUME FrontTypes, RobTypes, RegTypes, NEW n \in 0 .. Len(decoded), n <= ROBDEPTH,
         NEW b \in SUBSET Loopback, NEW k \in 1 .. n
  PROVE  LET o == Regs!gather_operand(Issued(n), k, b)
         IN  /\ o \in Regs!OperandRS
             /\ o.is = "Tag" =>
                  \/ \E j \in 1 .. k - 1 : o.tag = rollover_add(rob_idx, j - 1)
                  \/ \E r \in Register : /\ registers[r].is = "Tag" /\ registers[r].tag = o.tag
                                         /\ \A q \in b : q.tag # o.tag
<1> DEFINE o == Regs!gather_operand(Issued(n), k, b)
           W == Regs!cross_dependant(Issued(n), k)
           s == Issued(n)[k].rs
<1>1. Len(decoded) \in Nat
  BY DEF FrontTypes
<1>2. CASE W # {}
  <2>1. W \in SUBSET (1 .. k - 1) /\ k - 1 \in Nat
    BY <1>1 DEF Regs!cross_dependant
  <2>2. \E j \in W : \A i \in W : i <= j
    <3> HIDE DEF W
    <3> QED
      BY <1>2, <2>1, Greatest
  <2>3. PICK j : j = CHOOSE l \in W : \A i \in W : i <= l
    OBVIOUS
  <2>4. j \in W
    BY <2>2, <2>3
  <2>5. o = Regs!AsTag(Issued(n)[j].tag)
    BY <1>2, <2>3 DEF Regs!gather_operand
  <2>6. j \in 1 .. k - 1 /\ j \in 1 .. n
    BY <1>1, <2>1, <2>4
  <2>7. Issued(n)[j].tag \in Tag /\ Issued(n)[j].tag = rollover_add(rob_idx, j - 1)
    BY <2>6, IssuedAre
  <2>8. o.is = "Tag" /\ o.tag = Issued(n)[j].tag /\ o \in Regs!OperandRS
    BY <2>5, <2>7 DEF Regs!AsTag, Regs!OperandRS
  <2> QED
    BY <2>6, <2>7, <2>8
<1>3. CASE W = {}
  <2>1. o = Regs!read_registers(s, b)
    BY <1>3 DEF Regs!gather_operand
  <2>2. s \in Register \cup {0}
    BY IssuedAre
  <2> HIDE DEF s
  <2>3. CASE s = 0
    <3>1. o = Regs!AsValue(0) /\ 0 \in Value
      BY <2>1, <2>3, Instructions DEF Regs!read_registers
    <3> QED
      BY <3>1 DEF Regs!AsValue, Regs!OperandRS
  <2>4. CASE s # 0
    <3>1. s \in Register /\ registers[s] \in Regs!EvoEntry /\ regs[s] \in Value
      BY <2>2, <2>4 DEF RegTypes
    <3>2. Regs!result_bus(b)[s] = Regs!latch(registers[s], b)
      BY <3>1 DEF Regs!result_bus
    <3>3. PICK e : e = Regs!latch(registers[s], b)
      OBVIOUS
    <3>4. o = IF e = Regs!Invalid THEN Regs!AsValue(regs[s]) ELSE e
      BY <2>1, <2>4, <3>2, <3>3 DEF Regs!read_registers
    <3>5. CASE e = Regs!Invalid
      BY <3>1, <3>4, <3>5 DEF Regs!AsValue, Regs!OperandRS
    <3>6. CASE e # Regs!Invalid
      <4>1. e \in Regs!OperandRS
        BY <3>1, <3>3, <3>6, Latched DEF Regs!EvoEntry
      <4>2. e.is = "Tag" => /\ registers[s].is = "Tag" /\ e = registers[s]
                            /\ \A q \in b : q.tag # registers[s].tag
        BY <3>1, <3>3, Latched
      <4> QED
        BY <3>1, <3>4, <3>6, <4>1, <4>2
    <3> QED
      BY <3>5, <3>6
  <2> QED
    BY <2>3, <2>4
<1> QED
  BY <1>2, <1>3

-----------------------------------------------------------------------------
(* A cycle, row by row.                                                     *)
LEMMA Taken ==
  ASSUME CoreInv, NEW n, NEW bus, NEW m, NEW new, NEW interrupt,
         Cycle(n, bus, m, new, interrupt)
  PROVE  /\ n \in 0 .. Len(decoded) /\ Len(decoded) \in Nat /\ n \in Nat
         /\ ROBDEPTH \in Nat \ {0} /\ Len(rob) \in Nat /\ Len(rob) + n <= ROBDEPTH /\ n <= ROBDEPTH
         /\ m \in 0 .. Len(rob) /\ m \in Nat
         /\ \A k \in 1 .. m : rob[k].done
         /\ bus \in SUBSET Results
<1>1. RobTypes /\ FrontTypes
  BY TypeParts DEF CoreInv
<1>2. /\ ROBDEPTH \in Nat \ {0} /\ Len(rob) \in Nat /\ Len(rob) <= ROBDEPTH
      /\ Len(decoded) \in Nat /\ ISSUEWIDTH \in Nat
  BY <1>1, SizeAssumption DEF RobTypes, FrontTypes
<1> QED
  BY <1>2 DEF Cycle, may_issue, may_consume

(* A result enters the row of its tag.                                      *)
LEMMA CompletedIs ==
  ASSUME NEW e \in RobEntry, NEW bus, \A r \in bus : r \in Result
  PROVE  /\ completed(e, bus) \in RobEntry
         /\ completed(e, bus).tag = e.tag /\ completed(e, bus).id = e.id
         /\ completed(e, bus).pc = e.pc /\ completed(e, bus).epoch = e.epoch
         /\ completed(e, bus).path = e.path
         /\ (\A r \in bus : r.tag # e.tag) => completed(e, bus) = e
         /\ (\E r \in bus : r.tag = e.tag) => completed(e, bus).done
<1>1. CASE \E r \in bus : r.tag = e.tag
  <2>1. PICK r : r = CHOOSE q \in bus : q.tag = e.tag
    OBVIOUS
  <2>2. r \in Result
    BY <1>1, <2>1
  <2>3. completed(e, bus) = [e EXCEPT !.done = TRUE, !.src = r.src, !.next_pc = r.next_pc,
                                      !.except = r.except]
    BY <1>1, <2>1 DEF completed
  <2>4. r.src \in Value /\ r.next_pc \in PC /\ r.except \in BOOLEAN
    BY <2>2 DEF Result
  <2>5. completed(e, bus) \in RobEntry
    BY <2>3, <2>4 DEF RobEntry
  <2> QED
    BY <1>1, <2>3, <2>5 DEF RobEntry
<1>2. CASE ~ \E r \in bus : r.tag = e.tag
  <2>1. completed(e, bus) = e
    BY <1>2 DEF completed
  <2> QED
    BY <1>2, <2>1
<1> QED
  BY <1>1, <1>2

LEMMA RowsAre ==
  ASSUME CoreInv, NEW n, NEW bus, NEW m, NEW new, NEW interrupt,
         Cycle(n, bus, m, new, interrupt)
  PROVE  /\ rob' \in Seq(RobEntry) /\ Len(rob') = Len(rob) - m + n
         /\ \A k \in 1 .. Len(rob) - m : rob'[k] = completed(rob[k + m], bus)
         /\ \A i \in 1 .. n : LET e == rob'[Len(rob) - m + i]
                              IN  /\ e.epoch = decoded[i].epoch /\ e.path = decoded[i].path
                                  /\ e.tag = rollover_add(rob_idx, i - 1) /\ ~e.done
<1> DEFINE a == [k \in 1 .. Len(rob) - m |-> completed(rob[m + k], bus)]
           b == map_to_rob_entry(n)
           L == Len(rob) - m
<1>1. /\ n \in 0 .. Len(decoded) /\ Len(decoded) \in Nat /\ n \in Nat /\ n <= ROBDEPTH
      /\ Len(rob) \in Nat /\ m \in 0 .. Len(rob) /\ bus \in SUBSET Results /\ L \in Nat
  BY Taken
<1>2. FrontTypes /\ RobTypes /\ TypeOK /\ InRing /\ StationsWait
  BY TypeParts DEF CoreInv
<1>3. \A r \in bus : r \in Result
  BY <1>1, <1>2, BusIs
<1>4. rob' = a \o b
  BY DEF Cycle, Clock, RobCycle
<1>5. ASSUME NEW k \in 1 .. L
      PROVE  a[k] = completed(rob[k + m], bus) /\ a[k] \in RobEntry
  <2>1. m + k = k + m /\ k + m \in 1 .. Len(rob)
    BY <1>1
  <2>2. rob[k + m] \in RobEntry
    BY <1>2, <2>1, Tags
  <2>3. a[k] = completed(rob[k + m], bus)
    BY <2>1
  <2> QED
    BY <1>3, <2>2, <2>3, CompletedIs
<1>6. a \in Seq(RobEntry) /\ Len(a) = L
  <2>1. a = [k \in 1 .. L |-> a[k]]
    OBVIOUS
  <2> HIDE DEF a, L
  <2>2. a \in [1 .. L -> RobEntry]
    BY <1>5, <2>1
  <2> QED
    BY <1>1, <2>2
<1>7. ASSUME NEW i \in 1 .. n
      PROVE  /\ b[i] = [id |-> decoded[i].id, pc |-> decoded[i].pc, pred_pc |-> decoded[i].pred_pc,
                        epoch |-> decoded[i].epoch, path |-> decoded[i].path,
                        tag |-> rollover_add(rob_idx, i - 1),
                        done |-> FALSE, src |-> 0, next_pc |-> 0, except |-> FALSE]
             /\ b[i] \in RobEntry
             /\ b[i].epoch = decoded[i].epoch /\ b[i].path = decoded[i].path
             /\ b[i].tag = rollover_add(rob_idx, i - 1) /\ ~b[i].done
  <2>1. b[i] = [id |-> decoded[i].id, pc |-> decoded[i].pc, pred_pc |-> decoded[i].pred_pc,
                epoch |-> decoded[i].epoch, path |-> decoded[i].path,
                tag |-> rollover_add(rob_idx, i - 1),
                done |-> FALSE, src |-> 0, next_pc |-> 0, except |-> FALSE]
    BY DEF map_to_rob_entry
  <2>2. decoded[i] \in Flight /\ rollover_add(rob_idx, i - 1) \in Tag
    BY <1>1, <1>2, IssuedAre
  <2>3. 0 \in Value /\ 0 \in PC
    BY <1>2, Instructions
  <2> HIDE DEF b
  <2>4. b[i] \in RobEntry
    BY <2>1, <2>2, <2>3 DEF Flight, RobEntry
  <2>5. /\ b[i].epoch = decoded[i].epoch /\ b[i].path = decoded[i].path
        /\ b[i].tag = rollover_add(rob_idx, i - 1) /\ ~b[i].done
    BY <2>1
  <2> QED
    BY <2>1, <2>4, <2>5
<1>8. b \in Seq(RobEntry) /\ Len(b) = n
  <2>1. b = [i \in 1 .. n |-> b[i]]
    BY DEF map_to_rob_entry
  <2> HIDE DEF b
  <2>2. b \in [1 .. n -> RobEntry]
    BY <1>7, <2>1
  <2> QED
    BY <1>1, <2>2
<1> HIDE DEF a, b, L
<1>9. /\ a \o b \in Seq(RobEntry) /\ Len(a \o b) = L + n
      /\ \A k \in 1 .. L + n : (a \o b)[k] = IF k <= L THEN a[k] ELSE b[k - L]
  BY <1>6, <1>8, ConcatProperties, Zenon
<1>10. \A k \in 1 .. L : rob'[k] = a[k]
  BY <1>1, <1>4, <1>9
<1>11. ASSUME NEW i \in 1 .. n
       PROVE  LET e == rob'[L + i]
              IN  /\ e.epoch = decoded[i].epoch /\ e.path = decoded[i].path
                  /\ e.tag = rollover_add(rob_idx, i - 1) /\ ~e.done
  <2>1. L + i \in 1 .. L + n /\ ~(L + i <= L) /\ (L + i) - L = i
    BY <1>1
  <2>2. rob'[L + i] = b[i]
    BY <1>4, <1>9, <2>1
  <2> QED
    BY <1>7, <2>2
<1> QED
  BY <1>4, <1>5, <1>9, <1>10, <1>11 DEF L

(* The rows keep consecutive tags.                                          *)
LEMMA RobStep ==
  ASSUME CoreInv, NEW n, NEW bus, NEW m, NEW new, NEW interrupt,
         Cycle(n, bus, m, new, interrupt)
  PROVE  RobTypes' /\ InRing'
<1>1. /\ n \in Nat /\ n <= ROBDEPTH /\ ROBDEPTH \in Nat
      /\ Len(rob) \in Nat /\ m \in 0 .. Len(rob) /\ Len(rob) + n <= ROBDEPTH
      /\ n \in 0 .. Len(decoded) /\ bus \in SUBSET Results
  BY Taken
<1>2. RobTypes /\ InRing /\ FrontTypes /\ TypeOK /\ StationsWait
  BY TypeParts DEF CoreInv
<1>3. /\ rob' \in Seq(RobEntry) /\ Len(rob') = Len(rob) - m + n
      /\ \A k \in 1 .. Len(rob) - m : rob'[k] = completed(rob[k + m], bus)
  BY RowsAre
<1>11. \A i \in 1 .. n : rob'[Len(rob) - m + i].tag = rollover_add(rob_idx, i - 1)
  BY RowsAre
<1>4. /\ ROBDEPTH \in Nat \ {0} /\ rob_idx \in Nat /\ rob_idx < ROBDEPTH
      /\ \A a \in 0 .. ROBDEPTH :
           rollover_add(rob_idx, a) = IF rob_idx + a < ROBDEPTH THEN rob_idx + a
                                      ELSE rob_idx + a - ROBDEPTH
  BY <1>2, Tags
<1>5. rob_idx' = rollover_add(rob_idx, n)
  BY DEF Cycle, Clock
<1>6. rob_idx' = IF rob_idx + n < ROBDEPTH THEN rob_idx + n ELSE rob_idx + n - ROBDEPTH
  BY <1>1, <1>4, <1>5
<1>7. RobTypes'
  <2>1. rob_idx' \in Tag
    BY <1>1, <1>4, <1>6 DEF Tag
  <2>2. Len(rob') <= ROBDEPTH
    BY <1>1, <1>3
  <2> QED
    BY <1>3, <2>1, <2>2 DEF RobTypes
<1>8. \A r \in bus : r \in Result
  BY <1>1, <1>2, BusIs
<1>9. ASSUME NEW k \in 1 .. Len(rob')
      PROVE  rob'[k].tag = IF Len(rob') - k + 1 <= rob_idx' THEN rob_idx' - (Len(rob') - k + 1)
                           ELSE rob_idx' + ROBDEPTH - (Len(rob') - k + 1)
  <2>1. CASE k <= Len(rob) - m
    <3>1. k \in 1 .. Len(rob) - m /\ k + m \in 1 .. Len(rob)
      BY <1>1, <2>1
    <3>2. rob[k + m] \in RobEntry
      BY <1>2, <3>1, Tags
    <3>3. rob'[k].tag = rob[k + m].tag
      BY <1>3, <1>8, <3>1, <3>2, CompletedIs
    <3>4. rob[k + m].tag = Back(Len(rob) - (k + m) + 1)
      BY <1>2, <3>1 DEF InRing
    <3>5. PICK b : b = Len(rob) - (k + m) + 1
      OBVIOUS
    <3>6. b \in Nat /\ Len(rob') - k + 1 = b + n /\ b + n <= ROBDEPTH
      BY <1>1, <1>3, <3>1, <3>5
    <3>7. rob'[k].tag = IF b <= rob_idx THEN rob_idx - b ELSE rob_idx + ROBDEPTH - b
      BY <3>3, <3>4, <3>5 DEF Back
    <3>8. rob'[k].tag = IF b + n <= rob_idx' THEN rob_idx' - (b + n)
                        ELSE rob_idx' + ROBDEPTH - (b + n)
      BY <1>1, <1>4, <1>6, <3>6, <3>7
    <3> QED
      BY <3>6, <3>8
  <2>2. CASE ~(k <= Len(rob) - m)
    <3>1. PICK i \in 1 .. n : k = Len(rob) - m + i
      <4>1. k - (Len(rob) - m) \in 1 .. n /\ k = Len(rob) - m + (k - (Len(rob) - m))
        BY <1>1, <1>3, <2>2
      <4> QED
        BY <4>1
    <3>2. rob'[k].tag = rollover_add(rob_idx, i - 1)
      BY <1>11, <3>1
    <3>3. i - 1 \in 0 .. ROBDEPTH
      BY <1>1, <3>1
    <3>4. rob'[k].tag = IF rob_idx + (i - 1) < ROBDEPTH THEN rob_idx + (i - 1)
                        ELSE rob_idx + (i - 1) - ROBDEPTH
      BY <1>4, <3>2, <3>3
    <3>5. Len(rob') - k + 1 = n - i + 1
      BY <1>1, <1>3, <3>1
    <3>6. rob'[k].tag = IF n - i + 1 <= rob_idx' THEN rob_idx' - (n - i + 1)
                        ELSE rob_idx' + ROBDEPTH - (n - i + 1)
      BY <1>1, <1>4, <1>6, <3>4
    <3> QED
      BY <3>5, <3>6
  <2> QED
    BY <2>1, <2>2
<1>10. InRing'
  BY <1>9 DEF InRing, Back
<1> QED
  BY <1>7, <1>10

(* What has no result, and gets none, has none after the cycle; nor has what *)
(* is issued.                                                               *)
LEMMA StillUndone ==
  ASSUME CoreInv, NEW n, NEW bus, NEW m, NEW new, NEW interrupt,
         Cycle(n, bus, m, new, interrupt)
  PROVE  /\ \A k \in 1 .. Len(rob) : ~rob[k].done /\ (\A r \in bus : r.tag # rob[k].tag) =>
              k - m \in 1 .. Len(rob) - m /\ k - m \in 1 .. Len(rob') /\ rob'[k - m] = rob[k]
         /\ \A i \in 1 .. n : /\ Len(rob) - m + i \in 1 .. Len(rob')
                              /\ rob'[Len(rob) - m + i].tag = rollover_add(rob_idx, i - 1)
                              /\ ~rob'[Len(rob) - m + i].done
         /\ \A t : Undone(t) /\ (\A r \in bus : r.tag # t) => Undone(t)'
         /\ \A t : (\E i \in 1 .. n : t = rollover_add(rob_idx, i - 1)) => Undone(t)'
<1>1. /\ n \in Nat /\ Len(rob) \in Nat /\ m \in 0 .. Len(rob) /\ bus \in SUBSET Results
      /\ \A k \in 1 .. m : rob[k].done
  BY Taken
<1>2. RobTypes /\ InRing /\ TypeOK /\ StationsWait
  BY TypeParts DEF CoreInv
<1>3. /\ Len(rob') = Len(rob) - m + n
      /\ \A k \in 1 .. Len(rob) - m : rob'[k] = completed(rob[k + m], bus)
  BY RowsAre
<1>9. ASSUME NEW i \in 1 .. n
      PROVE  /\ rob'[Len(rob) - m + i].tag = rollover_add(rob_idx, i - 1)
             /\ ~rob'[Len(rob) - m + i].done
  BY RowsAre
<1>4. \A r \in bus : r \in Result
  BY <1>1, <1>2, BusIs
<1>5. ASSUME NEW k \in 1 .. Len(rob), ~rob[k].done, \A r \in bus : r.tag # rob[k].tag
      PROVE  k - m \in 1 .. Len(rob) - m /\ k - m \in 1 .. Len(rob') /\ rob'[k - m] = rob[k]
  <2>1. ~(k <= m)
    BY <1>1, <1>5
  <2>2. k - m \in 1 .. Len(rob) - m /\ k - m \in 1 .. Len(rob') /\ (k - m) + m = k
    BY <1>1, <1>3, <2>1
  <2>3. rob[k] \in RobEntry
    BY <1>2, Tags
  <2>4. completed(rob[k], bus) = rob[k]
    BY <1>4, <1>5, <2>3, CompletedIs
  <2> QED
    BY <1>3, <2>2, <2>4
<1>6. \A i \in 1 .. n : Len(rob) - m + i \in 1 .. Len(rob')
  BY <1>1, <1>3
<1>7. ASSUME NEW t, Undone(t), \A r \in bus : r.tag # t
      PROVE  Undone(t)'
  <2>1. PICK k \in 1 .. Len(rob) : rob[k].tag = t /\ ~rob[k].done
    BY <1>7 DEF Undone
  <2>2. k - m \in 1 .. Len(rob') /\ rob'[k - m] = rob[k]
    BY <1>5, <1>7, <2>1
  <2> QED
    BY <2>1, <2>2 DEF Undone
<1>8. ASSUME NEW t, NEW i \in 1 .. n, t = rollover_add(rob_idx, i - 1)
      PROVE  Undone(t)'
  <2>1. \E k \in 1 .. Len(rob') : rob'[k].tag = t /\ ~rob'[k].done
    BY <1>6, <1>8, <1>9
  <2> QED
    BY <2>1 DEF Undone
<1> QED
  BY <1>5, <1>6, <1>7, <1>8, <1>9

-----------------------------------------------------------------------------
(* A register that holds a tag after the cycle took it from the bundle, or   *)
(* has held it and the bus did not name it.                                 *)
LEMMA RegisterStep ==
  ASSUME CoreInv, NEW n, NEW bus, NEW m, NEW new, NEW interrupt,
         Cycle(n, bus, m, new, interrupt)
  PROVE  registers' \in [Register -> Regs!EvoEntry] /\ Reserved'
<1> DEFINE b == loopback(bus)
           W(r) == {k \in 1 .. Len(Issued(n)) : Issued(n)[k].rd = r /\ Issued(n)[k].epoch = epoch}
           flush == interrupt \/ (Committed(m) # <<>> /\ redirects(Committed(m)[Len(Committed(m))]))
<1>1. n \in 0 .. Len(decoded) /\ n \in Nat /\ n <= ROBDEPTH /\ bus \in SUBSET Results
  BY Taken
<1>2. FrontTypes /\ RobTypes /\ RegTypes /\ TypeOK /\ InRing /\ StationsWait /\ Reserved
  BY TypeParts DEF CoreInv
<1>3. b \in SUBSET Loopback /\ \A q \in bus : \E r \in b : q.tag = r.tag
  BY <1>1, <1>2, BusIs
<1>4. registers' = IF flush THEN [r \in Register |-> Regs!Invalid]
                   ELSE Regs!reserve_registers(Issued(n), b, epoch)
  BY DEF Cycle, Clock, Regs!RegisterCycle
<1>5. CASE flush
  <2>1. registers' = [r \in Register |-> Regs!Invalid]
    BY <1>4, <1>5
  <2>2. Regs!Invalid \in Regs!EvoEntry /\ Regs!Invalid.is # "Tag"
    BY DEF Regs!EvoEntry, Regs!Invalid
  <2>3. \A r \in Register : registers'[r] = Regs!Invalid
    BY <2>1
  <2> QED
    BY <2>1, <2>2, <2>3 DEF Reserved
<1>6. CASE ~flush
  <2>1. registers' = Regs!reserve_registers(Issued(n), b, epoch)
    BY <1>4, <1>6
  <2>2. registers' = [r \in Register |-> registers'[r]]
    BY <2>1 DEF Regs!reserve_registers
  <2>3. ASSUME NEW r \in Register
        PROVE  /\ registers'[r] \in Regs!EvoEntry
               /\ \A t : registers'[r].is = "Tag" /\ t = registers'[r].tag => Undone(t)'
    <3>1. registers'[r] = IF W(r) = {} THEN Regs!result_bus(b)[r]
                          ELSE Regs!AsTag(Issued(n)[CHOOSE k \in W(r) : \A j \in W(r) : j <= k].tag)
      BY <2>1 DEF Regs!reserve_registers
    <3>2. CASE W(r) = {}
      <4>1. registers'[r] = Regs!latch(registers[r], b)
        BY <3>1, <3>2 DEF Regs!result_bus
      <4>2. registers[r] \in Regs!EvoEntry
        BY <1>2 DEF RegTypes
      <4> HIDE DEF b
      <4>3. registers'[r] \in Regs!EvoEntry
        BY <1>3, <4>1, <4>2, Latched
      <4>4. ASSUME NEW t, registers'[r].is = "Tag", t = registers'[r].tag
            PROVE  Undone(t)'
        <5>1. /\ registers[r].is = "Tag" /\ registers'[r] = registers[r]
              /\ \A q \in b : q.tag # registers[r].tag
          BY <1>3, <4>1, <4>2, <4>4, Latched
        <5>2. \A q \in bus : q.tag # registers[r].tag
          BY <1>3, <5>1
        <5>3. Undone(registers[r].tag)
          BY <1>2, <5>1 DEF Reserved
        <5>4. t = registers[r].tag
          BY <4>4, <5>1
        <5> QED
          BY <5>2, <5>3, <5>4, StillUndone
      <4> QED
        BY <4>3, <4>4
    <3>3. CASE W(r) # {}
      <4>1. Len(Issued(n)) = n
        BY <1>1, <1>2, IssuedAre
      <4>2. W(r) \in SUBSET (1 .. n)
        BY <4>1
      <4>3. PICK w : w = CHOOSE k \in W(r) : \A j \in W(r) : j <= k
        OBVIOUS
      <4>4. registers'[r] = Regs!AsTag(Issued(n)[w].tag)
        BY <3>1, <3>3, <4>3
      <4> HIDE DEF W
      <4>5. \E k \in W(r) : \A j \in W(r) : j <= k
        BY <1>1, <3>3, <4>2, Greatest
      <4>6. w \in 1 .. n
        BY <4>2, <4>3, <4>5
      <4>7. Issued(n)[w].tag = rollover_add(rob_idx, w - 1) /\ Issued(n)[w].tag \in Tag
        BY <1>1, <1>2, <4>6, IssuedAre
      <4>8. PICK t : t = Issued(n)[w].tag
        OBVIOUS
      <4>9. registers'[r].tag = t /\ registers'[r] \in Regs!EvoEntry
        BY <4>4, <4>7, <4>8 DEF Regs!AsTag, Regs!EvoEntry, Regs!OperandRS
      <4>10. Undone(t)'
        BY <4>6, <4>7, <4>8, StillUndone
      <4> QED
        BY <4>9, <4>10
    <3> QED
      BY <3>2, <3>3
  <2>4. registers' \in [Register -> Regs!EvoEntry]
    BY <2>2, <2>3
  <2>5. Reserved'
    BY <2>3 DEF Reserved, Undone
  <2> QED
    BY <2>4, <2>5
<1> QED
  BY <1>5, <1>6

(* A station after the cycle: one that was waiting, with an operand the bus  *)
(* may have brought, or an issued instruction.                              *)
LEMMA StationIs ==
  ASSUME CoreInv, NEW n, NEW bus, NEW m, NEW new, NEW interrupt,
         Cycle(n, bus, m, new, interrupt), NEW s \in stations'
  PROVE  \/ \E q \in stations : /\ \A r \in bus : r.tag # q.tag
                                /\ s.tag = q.tag /\ s.rs1 = Regs!latch(q.rs1, arrived(bus))
                                /\ s = [tag |-> s.tag, rs1 |-> s.rs1] /\ s \in Waiting
         \/ \E k \in 1 .. n : /\ s.tag = rollover_add(rob_idx, k - 1) /\ s.tag \in Tag
                              /\ s.rs1 = Regs!gather_operand(Issued(n), k, loopback(bus))
                              /\ s = [tag |-> s.tag, rs1 |-> s.rs1] /\ s \in Waiting
<1>1. n \in 0 .. Len(decoded) /\ n \in Nat /\ n <= ROBDEPTH /\ bus \in SUBSET Results
  BY Taken
<1>2. FrontTypes /\ CoreTypes /\ RobTypes /\ RegTypes /\ TypeOK /\ InRing /\ StationsWait
  BY TypeParts DEF CoreInv
<1>3. loopback(bus) \in SUBSET Loopback
  BY <1>1, <1>2, BusIs
<1>4. stations' = {[s1 EXCEPT !.rs1 = Regs!latch(s1.rs1, arrived(bus))] :
                     s1 \in {q \in stations : \A r \in bus : r.tag # q.tag}}
                  \cup map_to_issued(n, loopback(bus))
  BY DEF Cycle, Clock, StationCycle
<1>5. arrived(bus) \in SUBSET Loopback
  <2>1. CASE RESBUS_ADDED_DELAY = 0
    BY <1>3, <2>1 DEF arrived
  <2>2. CASE RESBUS_ADDED_DELAY # 0
    <3>1. 1 \in 1 .. Len(delay_bus_rs) /\ delay_bus_rs \in Seq(SUBSET Loopback)
      BY <1>2, <2>2, SizeAssumption DEF CoreTypes
    <3>2. delay_bus_rs[1] \in SUBSET Loopback
      BY <3>1, ElementOfSeq
    <3> QED
      BY <2>2, <3>2 DEF arrived
  <2> QED
    BY <2>1, <2>2
<1>6. ASSUME NEW q \in stations, \A r \in bus : r.tag # q.tag,
             s = [q EXCEPT !.rs1 = Regs!latch(q.rs1, arrived(bus))]
      PROVE  /\ s.tag = q.tag /\ s.rs1 = Regs!latch(q.rs1, arrived(bus))
             /\ s = [tag |-> s.tag, rs1 |-> s.rs1] /\ s \in Waiting
  <2>1. q \in Waiting
    BY <1>2 DEF CoreTypes
  <2>2. q.tag \in Tag /\ q.rs1 \in Regs!OperandRS /\ q.rs1 \in Regs!EvoEntry
    BY <2>1 DEF Waiting, Regs!EvoEntry
  <2>3. Regs!latch(q.rs1, arrived(bus)) \in Regs!OperandRS
    BY <1>5, <2>2, Latched
  <2>4. s = [tag |-> q.tag, rs1 |-> Regs!latch(q.rs1, arrived(bus))]
    BY <1>6, <2>1 DEF Waiting
  <2> QED
    BY <2>2, <2>3, <2>4 DEF Waiting
<1>7. ASSUME NEW k \in 1 .. n,
             s = [tag |-> Issued(n)[k].tag,
                  rs1 |-> Regs!gather_operand(Issued(n), k, loopback(bus))]
      PROVE  /\ s.tag = rollover_add(rob_idx, k - 1) /\ s.tag \in Tag
             /\ s.rs1 = Regs!gather_operand(Issued(n), k, loopback(bus))
             /\ s = [tag |-> s.tag, rs1 |-> s.rs1] /\ s \in Waiting
  <2>1. Issued(n)[k].tag = rollover_add(rob_idx, k - 1) /\ Issued(n)[k].tag \in Tag
    BY <1>1, <1>2, IssuedAre
  <2>2. Regs!gather_operand(Issued(n), k, loopback(bus)) \in Regs!OperandRS
    BY <1>1, <1>2, <1>3, Gathered
  <2> QED
    BY <1>7, <2>1, <2>2 DEF Waiting
<1>8. CASE s \in map_to_issued(n, loopback(bus))
  <2>1. PICK k \in 1 .. n :
          s = [tag |-> Issued(n)[k].tag,
               rs1 |-> Regs!gather_operand(Issued(n), k, loopback(bus))]
    BY <1>8 DEF map_to_issued
  <2> QED
    BY <1>7, <2>1
<1>9. CASE s \notin map_to_issued(n, loopback(bus))
  <2>1. PICK q \in stations : /\ \A r \in bus : r.tag # q.tag
                              /\ s = [q EXCEPT !.rs1 = Regs!latch(q.rs1, arrived(bus))]
    BY <1>4, <1>9
  <2> QED
    BY <1>6, <2>1
<1> QED
  BY <1>8, <1>9

LEMMA StationsStep ==
  ASSUME CoreInv, NEW n, NEW bus, NEW m, NEW new, NEW interrupt,
         Cycle(n, bus, m, new, interrupt)
  PROVE  stations' \subseteq Waiting /\ StationsWait'
<1>1. StationsWait
  BY DEF CoreInv
<1>2. ASSUME NEW s \in stations'
      PROVE  s \in Waiting /\ Undone(s.tag)'
  <2>0. PICK t : t = s.tag
    OBVIOUS
  <2>1. CASE \E q \in stations : (\A r \in bus : r.tag # q.tag) /\ s.tag = q.tag /\ s \in Waiting
    <3>1. PICK q \in stations : (\A r \in bus : r.tag # q.tag) /\ s.tag = q.tag /\ s \in Waiting
      BY <2>1
    <3>2. Undone(t) /\ \A r \in bus : r.tag # t
      BY <1>1, <2>0, <3>1 DEF StationsWait
    <3>3. Undone(t)'
      BY <3>2, StillUndone
    <3> QED
      BY <2>0, <3>1, <3>3
  <2>2. CASE \E k \in 1 .. n : s.tag = rollover_add(rob_idx, k - 1) /\ s \in Waiting
    <3>1. Undone(t)'
      BY <2>0, <2>2, StillUndone
    <3> QED
      BY <2>0, <2>2, <3>1
  <2> QED
    BY <2>1, <2>2, StationIs
<1>3. stations' \subseteq Waiting
  BY <1>2
<1> QED
  BY <1>2, <1>3 DEF StationsWait

(* The results move on towards the stations.                                *)
LEMMA DelayStep ==
  ASSUME CoreInv, NEW n, NEW bus, NEW m, NEW new, NEW interrupt,
         Cycle(n, bus, m, new, interrupt)
  PROVE  /\ delay_bus_rs' \in Seq(SUBSET Loopback) /\ Len(delay_bus_rs') = RESBUS_ADDED_DELAY
         /\ \A d \in 2 .. RESBUS_ADDED_DELAY : delay_bus_rs'[d - 1] = delay_bus_rs[d]
         /\ RESBUS_ADDED_DELAY # 0 =>
              /\ delay_bus_rs'[RESBUS_ADDED_DELAY] = loopback(bus)
              /\ arrived(bus) = delay_bus_rs[1]
         /\ RESBUS_ADDED_DELAY = 0 => arrived(bus) = loopback(bus)
<1>1. bus \in SUBSET Results
  BY Taken
<1>2. CoreTypes /\ TypeOK /\ InRing /\ StationsWait
  BY TypeParts DEF CoreInv
<1>3. PICK b : b = loopback(bus) /\ b \in SUBSET Loopback
  BY <1>1, <1>2, BusIs
<1>4. PICK D : D = RESBUS_ADDED_DELAY /\ D \in Nat
  BY SizeAssumption
<1>5. delay_bus_rs' = IF D = 0 THEN <<>> ELSE Append(Tail(delay_bus_rs), b)
  BY <1>3, <1>4 DEF Cycle, Clock, StationCycle
<1>6. delay_bus_rs \in Seq(SUBSET Loopback) /\ Len(delay_bus_rs) = D
  BY <1>2, <1>4 DEF CoreTypes
<1>7. CASE D = 0
  <2>1. delay_bus_rs' = <<>>
    BY <1>5, <1>7
  <2>2. delay_bus_rs' \in Seq(SUBSET Loopback) /\ Len(delay_bus_rs') = 0
    BY <2>1
  <2>3. 2 .. D = {}
    BY <1>7
  <2> QED
    BY <1>4, <1>7, <2>2, <2>3 DEF arrived
<1>8. CASE D # 0
  <2>1. PICK S : S = SUBSET Loopback
    OBVIOUS
  <2>2. delay_bus_rs \in Seq(S) /\ b \in S
    BY <1>3, <1>6, <2>1
  <2>3. PICK t : t = Tail(delay_bus_rs)
    OBVIOUS
  <2>4. t \in Seq(S) /\ Len(t) = D - 1 /\ \A i \in 1 .. D - 1 : t[i] = delay_bus_rs[i + 1]
    BY <1>4, <1>6, <1>8, <2>2, <2>3
  <2>5. delay_bus_rs' = Append(t, b)
    BY <1>5, <1>8, <2>3
  <2>6. /\ delay_bus_rs' \in Seq(S) /\ Len(delay_bus_rs') = D
        /\ \A i \in 1 .. D - 1 : delay_bus_rs'[i] = t[i]
        /\ delay_bus_rs'[D] = b
    BY <1>4, <1>8, <2>2, <2>4, <2>5
  <2>7. ASSUME NEW d \in 2 .. D
        PROVE  delay_bus_rs'[d - 1] = delay_bus_rs[d]
    <3>1. d - 1 \in 1 .. D - 1 /\ (d - 1) + 1 = d
      BY <1>4
    <3> QED
      BY <2>4, <2>6, <3>1
  <2> QED
    BY <1>3, <1>4, <1>8, <2>1, <2>6, <2>7 DEF arrived
<1> QED
  BY <1>7, <1>8

(* An operand that is waited for is still to come.                          *)
LEMMA WakeUpsStep ==
  ASSUME CoreInv, NEW n, NEW bus, NEW m, NEW new, NEW interrupt,
         Cycle(n, bus, m, new, interrupt)
  PROVE  WakeUps'
<1>1. /\ n \in 0 .. Len(decoded) /\ n \in Nat /\ n <= ROBDEPTH /\ bus \in SUBSET Results
      /\ Len(rob) \in Nat /\ m \in 0 .. Len(rob)
      /\ \A k \in 1 .. m : rob[k].done
  BY Taken
<1>2. /\ FrontTypes /\ CoreTypes /\ RobTypes /\ RegTypes /\ TypeOK /\ InRing /\ StationsWait
      /\ Reserved /\ WakeUps
  BY TypeParts DEF CoreInv
<1>3. PICK b : /\ b = loopback(bus) /\ b \in SUBSET Loopback
               /\ \A r \in b : \E q \in bus : q.tag = r.tag
               /\ \A q \in bus : \E r \in b : q.tag = r.tag
  BY <1>1, <1>2, BusIs
<1>4. /\ \A d \in 2 .. RESBUS_ADDED_DELAY : delay_bus_rs'[d - 1] = delay_bus_rs[d]
      /\ RESBUS_ADDED_DELAY # 0 =>
           /\ delay_bus_rs'[RESBUS_ADDED_DELAY] = b
           /\ arrived(bus) = delay_bus_rs[1]
      /\ RESBUS_ADDED_DELAY = 0 => arrived(bus) = b
      /\ RESBUS_ADDED_DELAY \in Nat
  BY <1>3, DelayStep, SizeAssumption
<1>5. arrived(bus) \in SUBSET Loopback
  <2>1. CASE RESBUS_ADDED_DELAY = 0
    BY <1>3, <1>4, <2>1
  <2>2. CASE RESBUS_ADDED_DELAY # 0
    <3>1. 1 \in 1 .. Len(delay_bus_rs) /\ delay_bus_rs \in Seq(SUBSET Loopback)
      BY <1>2, <1>4, <2>2 DEF CoreTypes
    <3>2. delay_bus_rs[1] \in SUBSET Loopback
      BY <3>1, ElementOfSeq
    <3> QED
      BY <1>4, <2>2, <3>2
  <2> QED
    BY <2>1, <2>2
<1>6. /\ \A k \in 1 .. Len(rob) : ~rob[k].done /\ (\A r \in bus : r.tag # rob[k].tag) =>
           k - m \in 1 .. Len(rob) - m /\ k - m \in 1 .. Len(rob') /\ rob'[k - m] = rob[k]
      /\ \A i \in 1 .. n : /\ Len(rob) - m + i \in 1 .. Len(rob')
                           /\ rob'[Len(rob) - m + i].tag = rollover_add(rob_idx, i - 1)
                           /\ ~rob'[Len(rob) - m + i].done
  BY StillUndone
<1>7. /\ Len(rob') = Len(rob) - m + n
      /\ \A k \in 1 .. Len(rob) - m : rob'[k].tag = rob[k + m].tag
  <2>1. /\ Len(rob') = Len(rob) - m + n
        /\ \A k \in 1 .. Len(rob) - m : rob'[k] = completed(rob[k + m], bus)
    BY RowsAre
  <2>2. \A r \in bus : r \in Result
    BY <1>1, <1>2, BusIs
  <2>3. ASSUME NEW k \in 1 .. Len(rob) - m
        PROVE  rob'[k].tag = rob[k + m].tag
    <3>1. k + m \in 1 .. Len(rob)
      BY <1>1
    <3>2. rob[k + m] \in RobEntry
      BY <1>2, <3>1, Tags
    <3> QED
      BY <2>1, <2>2, <3>2, CompletedIs
  <2> QED
    BY <2>1, <2>3
(* What is waited for, in the terms of the next state.                      *)
<1> DEFINE Comes(t, u) ==
      \/ \E j, k \in 1 .. Len(rob') : /\ j < k /\ rob'[k].tag = t
                                      /\ rob'[j].tag = u /\ ~rob'[j].done
      \/ \E d \in 1 .. RESBUS_ADDED_DELAY : \E r \in delay_bus_rs'[d] : r.tag = u
<1>8. ASSUME NEW q \in stations, \A r \in bus : r.tag # q.tag,
             Regs!latch(q.rs1, arrived(bus)).is = "Tag"
      PROVE  Regs!latch(q.rs1, arrived(bus)) = q.rs1 /\ Comes(q.tag, q.rs1.tag)
  <2>1. q.rs1 \in Regs!EvoEntry
    BY <1>2 DEF CoreTypes, Waiting, Regs!EvoEntry
  <2>2. /\ q.rs1.is = "Tag" /\ Regs!latch(q.rs1, arrived(bus)) = q.rs1
        /\ \A r \in arrived(bus) : r.tag # q.rs1.tag
    BY <1>5, <1>8, <2>1, Latched
  <2>3. Coming(q)
    BY <1>2, <2>2 DEF WakeUps
  <2>4. CASE \E d \in 1 .. RESBUS_ADDED_DELAY : \E r \in delay_bus_rs[d] : r.tag = q.rs1.tag
    <3>1. PICK d \in 1 .. RESBUS_ADDED_DELAY : \E r \in delay_bus_rs[d] : r.tag = q.rs1.tag
      BY <2>4
    <3>2. d # 1
      BY <1>4, <2>2, <3>1
    <3>3. d \in 2 .. RESBUS_ADDED_DELAY /\ d - 1 \in 1 .. RESBUS_ADDED_DELAY
      BY <1>4, <3>1, <3>2
    <3>4. delay_bus_rs'[d - 1] = delay_bus_rs[d]
      BY <1>4, <3>3
    <3> QED
      BY <2>2, <3>1, <3>3, <3>4
  <2>5. CASE \E j, k \in 1 .. Len(rob) : /\ j < k /\ rob[k].tag = q.tag
                                         /\ rob[j].tag = q.rs1.tag /\ ~rob[j].done
    <3>1. PICK j \in 1 .. Len(rob), k \in 1 .. Len(rob) :
            j < k /\ rob[k].tag = q.tag /\ rob[j].tag = q.rs1.tag /\ ~rob[j].done
      BY <2>5
    <3>2. CASE \E r \in bus : r.tag = q.rs1.tag
      <4>1. PICK r \in b : r.tag = q.rs1.tag
        BY <1>3, <3>2
      <4>2. RESBUS_ADDED_DELAY # 0
        BY <1>4, <2>2, <4>1
      <4>3. r \in delay_bus_rs'[RESBUS_ADDED_DELAY]
        BY <1>4, <4>1, <4>2
      <4>4. RESBUS_ADDED_DELAY \in 1 .. RESBUS_ADDED_DELAY
        BY <1>4, <4>2
      <4> QED
        BY <2>2, <4>1, <4>3, <4>4
    <3>3. CASE ~ \E r \in bus : r.tag = q.rs1.tag
      <4>1. j - m \in 1 .. Len(rob) - m /\ j - m \in 1 .. Len(rob') /\ rob'[j - m] = rob[j]
        BY <1>6, <3>1, <3>3
      <4>2. k - m \in 1 .. Len(rob) - m /\ k - m \in 1 .. Len(rob') /\ j - m < k - m /\ (k - m) + m = k
        BY <1>1, <1>7, <3>1, <4>1
      <4>3. rob'[k - m].tag = q.tag
        BY <1>7, <3>1, <4>2
      <4> QED
        BY <2>2, <3>1, <4>1, <4>2, <4>3
    <3> QED
      BY <3>2, <3>3
  <2> QED
    BY <2>3, <2>4, <2>5 DEF Coming
<1>9. ASSUME NEW k \in 1 .. n, NEW o, o = Regs!gather_operand(Issued(n), k, b), o.is = "Tag"
      PROVE  Comes(rollover_add(rob_idx, k - 1), o.tag)
  <2>1. /\ Len(rob) - m + k \in 1 .. Len(rob')
        /\ rob'[Len(rob) - m + k].tag = rollover_add(rob_idx, k - 1)
    BY <1>6
  <2>2. \/ \E j \in 1 .. k - 1 : o.tag = rollover_add(rob_idx, j - 1)
        \/ \E r \in Register : /\ registers[r].is = "Tag" /\ registers[r].tag = o.tag
                               /\ \A q \in b : q.tag # o.tag
    BY <1>1, <1>2, <1>3, <1>9, Gathered
  <2>3. CASE \E j \in 1 .. k - 1 : o.tag = rollover_add(rob_idx, j - 1)
    <3>1. PICK j \in 1 .. k - 1 : o.tag = rollover_add(rob_idx, j - 1)
      BY <2>3
    <3>2. j \in 1 .. n /\ Len(rob) - m + j < Len(rob) - m + k
      BY <1>1, <3>1
    <3>3. /\ Len(rob) - m + j \in 1 .. Len(rob')
          /\ rob'[Len(rob) - m + j].tag = o.tag /\ ~rob'[Len(rob) - m + j].done
      BY <1>6, <3>1, <3>2
    <3> QED
      BY <2>1, <3>2, <3>3
  <2>4. CASE \E r \in Register : /\ registers[r].is = "Tag" /\ registers[r].tag = o.tag
                                 /\ \A q \in b : q.tag # o.tag
    <3>1. Undone(o.tag) /\ \A q \in bus : q.tag # o.tag
      BY <1>2, <1>3, <2>4 DEF Reserved
    <3>2. PICK j \in 1 .. Len(rob) : rob[j].tag = o.tag /\ ~rob[j].done
      BY <3>1 DEF Undone
    <3>3. j - m \in 1 .. Len(rob) - m /\ j - m \in 1 .. Len(rob') /\ rob'[j - m] = rob[j]
      BY <1>6, <3>1, <3>2
    <3>4. j - m < Len(rob) - m + k
      BY <1>1, <3>3
    <3> QED
      BY <2>1, <3>2, <3>3, <3>4
  <2> QED
    BY <2>2, <2>3, <2>4
<1>10. ASSUME NEW s \in stations', s.rs1.is = "Tag"
       PROVE  Comes(s.tag, s.rs1.tag)
  <2> HIDE DEF Comes
  <2>1. CASE \E q \in stations : /\ \A r \in bus : r.tag # q.tag
                                 /\ s.tag = q.tag /\ s.rs1 = Regs!latch(q.rs1, arrived(bus))
    <3>1. PICK q \in stations : /\ \A r \in bus : r.tag # q.tag
                                /\ s.tag = q.tag /\ s.rs1 = Regs!latch(q.rs1, arrived(bus))
      BY <2>1
    <3>2. s.rs1 = q.rs1 /\ Comes(q.tag, q.rs1.tag)
      BY <1>8, <1>10, <3>1
    <3> QED
      BY <3>1, <3>2
  <2>2. CASE \E k \in 1 .. n : /\ s.tag = rollover_add(rob_idx, k - 1)
                               /\ s.rs1 = Regs!gather_operand(Issued(n), k, b)
    BY <1>9, <1>10, <2>2
  <2> QED
    BY <1>3, <2>1, <2>2, StationIs
<1> QED
  BY <1>10 DEF WakeUps, Coming

-----------------------------------------------------------------------------
(* The instruction that has its answer is the oldest.                       *)
LEMMA AnsweredIs ==
  ASSUME CoreInv
  PROVE  /\ csr_unit = <<>> => answered = {}
         /\ csr_unit # <<>> => /\ Len(csr_unit) = 1 /\ csr_unit[1].out \in BOOLEAN
                               /\ csr_unit[1].tag \in Tag
                               /\ csr_unit[1] \in [tag : Tag, out : BOOLEAN]
                               /\ answered = IF csr_unit[1].out THEN {csr_unit[1].tag} ELSE {}
                               /\ 1 \in 1 .. Len(rob) /\ rob[1].tag = csr_unit[1].tag
                               /\ ~rob[1].done /\ system(rob[1])
         /\ csr_unit = <<>> => Len(csr_unit) = 0
<1>1. CoreTypes /\ CsrAtHead /\ RobTypes
  BY TypeParts DEF CoreInv
<1>2. CASE csr_unit = <<>>
  <2>1. Len(csr_unit) = 0
    BY <1>2
  <2>2. {j \in 1 .. Len(csr_unit) : csr_unit[j].out} = {}
    BY <2>1
  <2> QED
    BY <1>2, <2>1, <2>2 DEF answered
<1>3. CASE csr_unit # <<>>
  <2>1. PICK u \in [tag : Tag, out : BOOLEAN] : csr_unit = <<u>>
    BY <1>1, <1>3 DEF CoreTypes
  <2>2. Len(csr_unit) = 1 /\ csr_unit[1] = u
    BY <2>1
  <2>3. PICK t \in Tag, o \in BOOLEAN : csr_unit[1].tag = t /\ csr_unit[1].out = o
    BY <2>2
  <2>4. answered = IF o THEN {t} ELSE {}
    <3>1. {j \in 1 .. Len(csr_unit) : csr_unit[j].out} = IF o THEN {1} ELSE {}
      BY <2>2, <2>3
    <3>2. answered = {csr_unit[k].tag : k \in IF o THEN {1} ELSE {}}
      BY <3>1 DEF answered
    <3> QED
      BY <2>1, <2>3, <3>2
  <2>5. rob # <<>> /\ rob[1].tag = csr_unit[1].tag /\ ~rob[1].done /\ system(rob[1])
    BY <1>1, <1>3 DEF CsrAtHead
  <2>6. 1 \in 1 .. Len(rob)
    BY <1>1, <2>5 DEF RobTypes
  <2> QED
    BY <1>3, <2>1, <2>2, <2>3, <2>4, <2>5, <2>6
<1> QED
  BY <1>2, <1>3

(* Of the instructions that go through the CSR unit, none but the oldest     *)
(* gets a result, and that only when the unit answers.                      *)
LEMMA SystemsWait ==
  ASSUME CoreInv, NEW bus \in SUBSET Results, NEW k \in 1 .. Len(rob), system(rob[k]),
         NEW r \in bus, r.tag = rob[k].tag
  PROVE  k = 1 /\ csr_unit # <<>> /\ csr_unit[1].out
<1>1. RobTypes /\ InRing
  BY TypeParts DEF CoreInv
<1>2. PICK s \in {q \in ready : system(Entry(q.tag)) => q.tag \in answered} :
        \E o \in Outcomes(Entry(s.tag)) : r = result(s, o)
  BY DEF Results
<1>3. r.tag = s.tag
  BY <1>2 DEF result
<1>4. Entry(s.tag) = rob[k]
  BY <1>1, <1>3, EntryIs
<1>5. s.tag \in answered
  BY <1>2, <1>4
<1>6. csr_unit # <<>> /\ csr_unit[1].out /\ 1 \in 1 .. Len(rob) /\ rob[1].tag = s.tag
  BY <1>5, AnsweredIs
<1>7. k = 1
  BY <1>1, <1>3, <1>6, OneRow
<1> QED
  BY <1>6, <1>7

(* The instruction in an address of the program stays what it is.           *)
LEMMA SameText ==
  ASSUME NEW n, NEW bus, NEW m, NEW new, NEW interrupt, Cycle(n, bus, m, new, interrupt), NEW e
  PROVE  text' = text /\ inst(e)' = inst(e) /\ (system(e)' <=> system(e))
<1>1. text' = text
  BY DEF Cycle, Clock, FrontendCycle
<1> QED
  BY <1>1 DEF inst, system

LEMMA CsrStep ==
  ASSUME CoreInv, NEW n, NEW bus, NEW m, NEW new, NEW interrupt,
         Cycle(n, bus, m, new, interrupt)
  PROVE  /\ CsrAtHead'
         /\ csr_unit' \in {<<>>} \cup {<<u>> : u \in [tag : Tag, out : BOOLEAN]}
         /\ out_wr' \in {<<>>} \cup {<<v>> : v \in Value}
<1>1. /\ bus \in SUBSET Results /\ Len(rob) \in Nat /\ m \in 0 .. Len(rob)
      /\ \A k \in 1 .. m : rob[k].done
  BY Taken
<1>2. TypeOK /\ CoreTypes /\ RobTypes /\ InRing /\ StationsWait
  BY TypeParts DEF CoreInv
<1>3. get_request \/ read_modify \/ propagate_result
  BY DEF Cycle, Clock, CsrCycle
(* The oldest stays if it has no result and gets none.                      *)
<1>4. ASSUME 1 \in 1 .. Len(rob), ~rob[1].done, \A r \in bus : r.tag # rob[1].tag
      PROVE  rob' # <<>> /\ rob'[1] = rob[1]
  <2>1. 1 - m \in 1 .. Len(rob') /\ rob'[1 - m] = rob[1] /\ 1 - m >= 1
    BY <1>1, <1>4, StillUndone
  <2>2. 1 - m = 1
    BY <1>1, <2>1
  <2> QED
    BY <2>1, <2>2
<1>5. CASE get_request
  <2>1. PICK s \in ready :
          /\ csr_unit = <<>> /\ system(Entry(s.tag)) /\ at_head(s.tag)
          /\ csr_unit' = <<[tag |-> s.tag, out |-> FALSE]>>
          /\ out_wr' = <<>>
    BY <1>5 DEF get_request
  <2>2. rob # <<>> /\ rob[1].tag = s.tag /\ s \in stations /\ s.tag \in Tag
    BY <1>2, <2>1 DEF at_head, ready, CoreTypes, Waiting
  <2>3. PICK k \in 1 .. Len(rob) : rob[k].tag = s.tag /\ ~rob[k].done
    BY <1>2, <2>2 DEF StationsWait, Undone
  <2>4. 1 \in 1 .. Len(rob)
    BY <1>2, <2>2 DEF RobTypes
  <2>5. k = 1
    BY <1>2, <2>2, <2>3, <2>4, OneRow
  <2>6. Entry(s.tag) = rob[1]
    BY <1>2, <2>3, <2>5, EntryIs
  <2>7. system(rob[1])
    BY <2>1, <2>6
  <2>8. \A r \in bus : r.tag # rob[1].tag
    BY <1>1, <2>1, <2>4, <2>7, SystemsWait
  <2>9. rob' # <<>> /\ rob'[1] = rob[1]
    BY <1>4, <2>3, <2>4, <2>5, <2>8
  <2>10. csr_unit'[1].tag = s.tag
    BY <2>1
  <2>11. system(rob[1])'
    <3>1. PICK e : e = rob[1]
      OBVIOUS
    <3>2. system(e)'
      BY <2>7, <3>1, SameText
    <3> QED
      BY <2>9, <3>1, <3>2 DEF system, inst
  <2>12. CsrAtHead'
    BY <2>2, <2>3, <2>5, <2>9, <2>10, <2>11 DEF CsrAtHead
  <2>13. csr_unit' \in {<<u>> : u \in [tag : Tag, out : BOOLEAN]}
    <3>1. [tag |-> s.tag, out |-> FALSE] \in [tag : Tag, out : BOOLEAN]
      BY <2>2
    <3> QED
      BY <2>1, <3>1
  <2>14. out_wr' \in {<<>>}
    BY <2>1
  <2> QED
    BY <2>12, <2>13, <2>14, Zenon
<1>6. CASE read_modify
  <2>1. /\ csr_unit # <<>> /\ answered = {}
        /\ csr_unit' = <<[csr_unit[1] EXCEPT !.out = TRUE]>>
        /\ out_wr' = <<>> \/ out_wr' = <<Entry(csr_unit[1].tag).id>>
    BY <1>6 DEF read_modify
  <2>2. /\ csr_unit[1].tag \in Tag /\ ~csr_unit[1].out
        /\ csr_unit[1] \in [tag : Tag, out : BOOLEAN]
        /\ 1 \in 1 .. Len(rob) /\ rob[1].tag = csr_unit[1].tag
        /\ ~rob[1].done /\ system(rob[1])
    BY <2>1, AnsweredIs
  <2>3. PICK w : /\ w = [csr_unit[1] EXCEPT !.out = TRUE] /\ csr_unit' = <<w>>
                 /\ w \in [tag : Tag, out : BOOLEAN] /\ w.tag = csr_unit[1].tag
    <3>1. PICK r : r = csr_unit[1]
      OBVIOUS
    <3>2. PICK w : w = [r EXCEPT !.out = TRUE]
      OBVIOUS
    <3>3. w \in [tag : Tag, out : BOOLEAN] /\ w.tag = r.tag
      BY <2>2, <3>1, <3>2
    <3> QED
      BY <2>1, <3>1, <3>2, <3>3
  <2>4. Entry(csr_unit[1].tag) = rob[1] /\ rob[1] \in RobEntry
    BY <1>2, <2>2, EntryIs, Tags
  <2>5. \A r \in bus : r.tag # rob[1].tag
    BY <1>1, <2>2, SystemsWait
  <2>6. rob' # <<>> /\ rob'[1] = rob[1]
    BY <1>4, <2>2, <2>5
  <2>7. csr_unit'[1].tag = csr_unit[1].tag
    BY <2>3
  <2>8. system(rob[1])'
    <3>1. PICK e : e = rob[1]
      OBVIOUS
    <3>2. system(e)'
      BY <2>2, <3>1, SameText
    <3> QED
      BY <2>6, <3>1, <3>2 DEF system, inst
  <2>9. out_wr' \in {<<>>} \cup {<<v>> : v \in Value}
    BY <2>1, <2>4 DEF RobEntry
  <2>10. CsrAtHead'
    BY <2>2, <2>6, <2>7, <2>8 DEF CsrAtHead
  <2>11. csr_unit' \in {<<u>> : u \in [tag : Tag, out : BOOLEAN]}
    BY <2>3
  <2> QED
    BY <2>9, <2>10, <2>11
<1>7. CASE propagate_result
  <2>1. csr_unit' = <<>> /\ out_wr' = <<>>
    BY <1>7 DEF propagate_result
  <2> QED
    BY <2>1 DEF CsrAtHead
<1> QED
  BY <1>3, <1>5, <1>6, <1>7

-----------------------------------------------------------------------------
(* What commits are rows that count, all of them, in turn.                  *)
LEMMA CommittedAre ==
  ASSUME RobTypes, NEW m \in 0 .. Len(rob)
  PROVE  /\ Committed(m) \in Seq(RobEntry) /\ Len(Committed(m)) \in Nat
         /\ Committed(m) # <<>> => Committed(m)[Len(Committed(m))] \in RobEntry
         /\ Committed(m) # <<>> => Len(Committed(m)) \in 1 .. Len(Committed(m))
         /\ \A i \in 1 .. Len(Committed(m)) :
              \E k \in 1 .. m : counts(k) /\ Committed(m)[i] = rob[k]
         /\ \A k \in 1 .. m : counts(k) =>
              \E i \in 1 .. Len(Committed(m)) : Committed(m)[i] = rob[k]
<1> DEFINE c == Committed(m)
           K == Counted(m)
<1>1. m \in Nat /\ K \in SUBSET (1 .. m) /\ Len(rob) \in Nat
  BY DEF Counted, RobTypes
<1>2. c = InTurn(K)
  BY DEF Committed
<1>3. K = {k \in 1 .. m : counts(k)}
  BY DEF Counted
<1> HIDE DEF c, K
<1>4. /\ Cardinality(K) \in Nat /\ c = [i \in 1 .. Cardinality(K) |-> c[i]]
      /\ \A i \in 1 .. Cardinality(K) : \E k \in K : c[i] = rob[k]
      /\ \A k \in K : \E i \in 1 .. Cardinality(K) : c[i] = rob[k]
  BY <1>1, <1>2, RowsInTurn
<1>5. \A k \in 1 .. m : rob[k] \in RobEntry
  BY <1>1, Tags
<1>6. \A i \in 1 .. Cardinality(K) : c[i] \in RobEntry
  BY <1>1, <1>4, <1>5
<1>7. c \in Seq(RobEntry) /\ Len(c) = Cardinality(K)
  <2>1. PICK q : q = Cardinality(K)
    OBVIOUS
  <2>2. c \in [1 .. q -> RobEntry] /\ q \in Nat
    BY <1>4, <1>6, <2>1
  <2> QED
    BY <2>1, <2>2
<1>8. c # <<>> => Len(c) \in 1 .. Len(c)
  BY <1>7
<1>9. c # <<>> => c[Len(c)] \in RobEntry
  BY <1>7, <1>8, ElementOfSeq
<1> QED
  BY <1>3, <1>4, <1>7, <1>8, <1>9 DEF c

(* Where an instruction leads is an address.                                *)
LEMMA LeadsTo ==
  ASSUME FrontTypes, CommitTypes, NEW e \in RobEntry
  PROVE  next_pc(e) \in PC /\ e.pc \in PC /\ e.id \in Value
BY Instructions DEF next_pc, CommitTypes, RobEntry

LEMMA FrontStep ==
  ASSUME CoreInv, IInv, NEW n, NEW bus, NEW m, NEW new, NEW interrupt,
         Cycle(n, bus, m, new, interrupt)
  PROVE  FrontTypes'
<1>1. n \in 0 .. Len(decoded) /\ Len(decoded) \in Nat /\ m \in 0 .. Len(rob)
  BY Taken
<1>2. FrontTypes /\ RobTypes /\ CommitTypes
  BY TypeParts DEF CoreInv
<1> DEFINE c == Committed(m)
           flush == interrupt \/ (c # <<>> /\ redirects(c[Len(c)]))
           target == IF interrupt THEN TVEC ELSE next_pc(c[Len(c)])
<1>3. /\ new # <<>> => Len(decoded) < INST_WINDOW /\ fetched < MaxFetched
      /\ decoded'  = Suffix(decoded, n) \o new
      /\ fetched'  = fetched + Len(new)
      /\ fetch_pc' = IF flush THEN target ELSE IF new # <<>> THEN new[1].pred_pc ELSE fetch_pc
      /\ text' = text
      /\ new \in {<<>>} \cup {<<Fetched(p)>> : p \in Predictions(fetch_pc)}
  BY DEF Cycle, Clock, FrontendCycle
<1>4. /\ INST_WINDOW \in Nat /\ MaxFetched \in Nat /\ fetched \in 0 .. MaxFetched
      /\ decoded \in Seq(Flight) /\ Len(decoded) <= INST_WINDOW
  BY <1>2, SizeAssumption DEF FrontTypes, Value
<1>5. new # <<>> => /\ new \in Seq(Flight) /\ Len(new) = 1 /\ new[1] \in Flight
                    /\ new[1].pred_pc \in PC
  <2> SUFFICES ASSUME new # <<>>
               PROVE  /\ new \in Seq(Flight) /\ Len(new) = 1 /\ new[1] \in Flight
                      /\ new[1].pred_pc \in PC
    OBVIOUS
  <2>1. PICK p \in Predictions(fetch_pc) : new = <<Fetched(p)>>
    BY <1>3
  <2>2. text[fetch_pc] \in InstType /\ Follow(fetch_pc) \in PC /\ fetch_pc \in PC
    BY <1>2, Instructions DEF FrontTypes
  <2>3. p \in PC
    BY <2>1, <2>2 DEF Predictions, InstType
  <2>4. fetched + 1 \in Value
    BY <1>3, <1>4 DEF Value
  <2>5. epoch \in 0 .. EPOCHS - 1 /\ path \in Nat
    BY <1>2 DEF IInv, Sequences, CommitTypes
  <2>6. Fetched(p) \in Flight
    BY <2>2, <2>3, <2>4, <2>5 DEF Fetched, Flight
  <2>7. Fetched(p).pred_pc = p
    BY DEF Fetched
  <2>8. PICK f : f = Fetched(p)
    OBVIOUS
  <2> QED
    BY <2>1, <2>3, <2>6, <2>7, <2>8
<1>6. decoded' \in Seq(Flight) /\ Len(decoded') <= INST_WINDOW
  <2>1. PICK rest : rest = Suffix(decoded, n)
    OBVIOUS
  <2>2. rest \in Seq(Flight) /\ Len(rest) = Len(decoded) - n
    BY <1>1, <1>4, <2>1 DEF Suffix
  <2>3. CASE new = <<>>
    <3>1. decoded' = rest
      BY <1>3, <2>1, <2>2, <2>3
    <3> QED
      BY <1>1, <1>4, <2>2, <3>1
  <2>4. CASE new # <<>>
    <3>0. decoded' = rest \o new /\ new \in Seq(Flight) /\ Len(new) = 1
      BY <1>3, <1>5, <2>1, <2>4
    <3>2. rest \o new \in Seq(Flight) /\ Len(rest \o new) = Len(rest) + Len(new)
      BY <2>2, <3>0, ConcatProperties, Zenon
    <3>1. decoded' \in Seq(Flight) /\ Len(decoded') = Len(rest) + 1
      BY <3>0, <3>2
    <3> QED
      BY <1>1, <1>3, <1>4, <2>2, <2>4, <3>1
  <2> QED
    BY <2>3, <2>4
<1>7. fetched' \in Value
  <2>1. CASE new = <<>>
    <3>1. Len(new) = 0
      BY <2>1
    <3>2. fetched' = fetched + 0
      BY <1>3, <3>1
    <3> QED
      BY <1>4, <3>2 DEF Value
  <2>2. CASE new # <<>>
    <3>1. fetched' = fetched + 1 /\ fetched < MaxFetched
      BY <1>3, <1>5, <2>2
    <3> QED
      BY <1>4, <3>1 DEF Value
  <2> QED
    BY <2>1, <2>2
<1>8. fetch_pc' \in PC
  <2>1. CASE flush
    <3>1. c # <<>> => next_pc(c[Len(c)]) \in PC
      BY <1>1, <1>2, CommittedAre, LeadsTo
    <3>2. TVEC \in PC
      BY <1>2, Instructions
    <3>3. fetch_pc' = IF interrupt THEN TVEC ELSE next_pc(c[Len(c)])
      BY <1>3, <2>1
    <3> QED
      BY <2>1, <3>1, <3>2, <3>3
  <2>2. CASE ~flush
    <3>1. fetch_pc \in PC
      BY <1>2 DEF FrontTypes
    <3>2. fetch_pc' = IF new # <<>> THEN new[1].pred_pc ELSE fetch_pc
      BY <1>3, <2>2
    <3> QED
      BY <1>5, <3>1, <3>2
  <2> QED
    BY <2>1, <2>2
<1>9. text' \in Programs
  BY <1>2, <1>3 DEF FrontTypes
<1> QED
  BY <1>6, <1>7, <1>8, <1>9 DEF FrontTypes

(* The last of some committed ones.                                         *)
LEMMA LastWriter ==
  ASSUME RobTypes, NEW m \in 0 .. Len(rob), CsrWriters(Committed(m)) # {}
  PROVE  LET c == Committed(m)
             w == CHOOSE k \in CsrWriters(c) : \A j \in CsrWriters(c) : j <= k
         IN  w \in 1 .. Len(c) /\ c[w] \in RobEntry /\ inst(c[w]).kind = "csr"
<1> DEFINE c == Committed(m)
<1>1. c \in Seq(RobEntry) /\ Len(c) \in Nat
  BY CommittedAre
<1>2. PICK W : W = CsrWriters(c)
  OBVIOUS
<1>3. W = {k \in 1 .. Len(c) : inst(c[k]).kind = "csr"}
  BY <1>2 DEF CsrWriters
<1>4. W \in SUBSET (1 .. Len(c)) /\ W # {}
  BY <1>2, <1>3
<1>5. \E k \in W : \A j \in W : j <= k
  BY <1>1, <1>4, Greatest
<1>6. PICK w : w = CHOOSE k \in W : \A j \in W : j <= k
  OBVIOUS
<1>7. w \in W
  BY <1>5, <1>6
<1>8. w \in 1 .. Len(c) /\ inst(c[w]).kind = "csr"
  BY <1>3, <1>7
<1>9. c[w] \in RobEntry
  BY <1>1, <1>8, ElementOfSeq
<1> QED
  BY <1>2, <1>6, <1>8, <1>9

LEMMA CommitStep ==
  ASSUME CoreInv, IInv, EnoughEpochs, NEW n, NEW bus, NEW m, NEW new, NEW interrupt,
         Cycle(n, bus, m, new, interrupt)
  PROVE  CommitTypes'
<1>1. m \in 0 .. Len(rob) /\ interrupt \in BOOLEAN
  BY Taken DEF Cycle
<1>2. FrontTypes /\ RobTypes /\ CommitTypes /\ CoreTypes
  BY TypeParts DEF CoreInv
<1> DEFINE c == Committed(m)
           flush == interrupt \/ (c # <<>> /\ redirects(c[Len(c)]))
<1>3. /\ mscratch' = IF out_wr = <<>> THEN mscratch ELSE out_wr[1]
      /\ next_pc_r' = next_pc_now(c)
      /\ IF interrupt THEN redirect_on_interrupt(c) ELSE redirect_on_no_interrupt(c)
      /\ History(c, m, flush, interrupt)
  BY DEF Cycle, Clock, write
<1>4. c # <<>> => /\ next_pc(c[Len(c)]) \in PC /\ c[Len(c)].pc \in PC
  BY <1>1, <1>2, CommittedAre, LeadsTo
<1>5. next_pc_now(c) \in {<<>>} \cup {<<a>> : a \in PC}
  BY <1>2, <1>4 DEF next_pc_now, CommitTypes
<1>6. epoch' \in 0 .. EPOCHS - 1 /\ int_in_process_r' \in BOOLEAN
  <2>1. Sequences'
    BY SequencesStep DEF IInv
  <2> QED
    BY <2>1 DEF Sequences
<1>7. mscratch' \in Value
  BY <1>2, <1>3 DEF CommitTypes, CoreTypes
<1>8. mepc' \in PC
  <2>1. CASE interrupt
    <3>1. mepc' = next_pc_now(c)[1] /\ may_interrupt(c)
      BY <1>3, <2>1 DEF redirect_on_interrupt
    <3>2. next_pc_now(c) # <<>>
      BY <3>1 DEF may_interrupt, next_pc_now
    <3>3. PICK a \in PC : next_pc_now(c) = <<a>>
      BY <1>5, <3>2
    <3> QED
      BY <3>1, <3>3
  <2>2. CASE ~interrupt
    <3>1. mepc' = IF c # <<>> /\ c[Len(c)].except THEN c[Len(c)].pc ELSE mepc
      BY <1>3, <2>2 DEF redirect_on_no_interrupt
    <3>2. mepc \in PC
      BY <1>2 DEF CommitTypes
    <3> QED
      BY <1>4, <3>1, <3>2
  <2> QED
    BY <2>1, <2>2
<1>9. csr_writer' \in Value
  <2>1. csr_writer' = IF CsrWriters(c) = {} THEN csr_writer
                      ELSE c[CHOOSE k \in CsrWriters(c) : \A j \in CsrWriters(c) : j <= k].id
    BY <1>3 DEF History
  <2>2. CASE CsrWriters(c) = {}
    BY <1>2, <2>1, <2>2 DEF CommitTypes
  <2>3. CASE CsrWriters(c) # {}
    <3>1. PICK e : /\ e = c[CHOOSE k \in CsrWriters(c) : \A j \in CsrWriters(c) : j <= k]
                   /\ e \in RobEntry
      BY <1>1, <1>2, <2>3, LastWriter
    <3>2. csr_writer' = e.id
      BY <2>1, <2>3, <3>1
    <3> QED
      BY <3>1, <3>2 DEF RobEntry
  <2> QED
    BY <2>2, <2>3
<1>10. csr_torn' \in BOOLEAN
  BY <1>3 DEF History
<1> HIDE DEF c, flush
<1> QED
  BY <1>3, <1>5, <1>6, <1>7, <1>8, <1>9, <1>10 DEF CommitTypes

LEMMA RegTypesStep ==
  ASSUME CoreInv, NEW n, NEW bus, NEW m, NEW new, NEW interrupt,
         Cycle(n, bus, m, new, interrupt)
  PROVE  RegTypes'
<1>1. m \in 0 .. Len(rob) /\ m \in Nat /\ Len(rob) \in Nat
  BY Taken
<1>2. FrontTypes /\ RobTypes /\ RegTypes
  BY TypeParts DEF CoreInv
<1>3. registers' \in [Register -> Regs!EvoEntry]
  BY RegisterStep
<1>4. regs' = Regs!Written /\ out_buffer' = writes(m)
  BY DEF Cycle, Clock, Regs!RegisterCycle
<1>5. regs' \in [Register -> Value]
  <2>1. ASSUME NEW r \in Register
        PROVE  Regs!Written[r] \in Value
    <3>1. PICK W : W = {k \in 1 .. Len(out_buffer) : out_buffer[k].addr = r}
      OBVIOUS
    <3>2. Regs!Written[r] = IF W = {} THEN regs[r]
                            ELSE out_buffer[CHOOSE k \in W : \A j \in W : j <= k].data
      BY <3>1 DEF Regs!Written
    <3>3. CASE W = {}
      BY <1>2, <3>2, <3>3 DEF RegTypes
    <3>4. CASE W # {}
      <4>1. out_buffer \in Seq(RegWrite) /\ Len(out_buffer) \in Nat
        BY <1>2 DEF RegTypes
      <4>2. W \in SUBSET (1 .. Len(out_buffer))
        BY <3>1
      <4>3. \E k \in W : \A j \in W : j <= k
        BY <3>4, <4>1, <4>2, Greatest
      <4>4. PICK w : w = CHOOSE k \in W : \A j \in W : j <= k
        OBVIOUS
      <4>5. w \in 1 .. Len(out_buffer)
        BY <4>2, <4>3, <4>4
      <4>6. out_buffer[w] \in RegWrite
        BY <4>1, <4>5, ElementOfSeq
      <4>7. out_buffer[w].data \in Value
        BY <4>6 DEF RegWrite
      <4> QED
        BY <3>2, <3>4, <4>4, <4>7
    <3> QED
      BY <3>3, <3>4
  <2>2. Regs!Written = [r \in Register |-> Regs!Written[r]]
    BY DEF Regs!Written
  <2> QED
    BY <1>4, <2>1, <2>2
<1>6. writes(m) \in Seq(RegWrite)
  <2>1. PICK K : K = {k \in Counted(m) : ~rob[k].except}
    OBVIOUS
  <2>2. K \in SUBSET (1 .. m)
    BY <2>1 DEF Counted
  <2>3. PICK c, q : c = InTurn(K) /\ q = Cardinality(K)
    OBVIOUS
  <2>4. /\ q \in Nat /\ c = [i \in 1 .. q |-> c[i]]
        /\ \A i \in 1 .. q : \E k \in K : c[i] = rob[k]
    BY <1>1, <2>2, <2>3, RowsInTurn
  <2>5. \A k \in 1 .. m : rob[k] \in RobEntry
    BY <1>1, <1>2, Tags
  <2>6. \A i \in 1 .. q : c[i] \in RobEntry
    BY <2>2, <2>4, <2>5
  <2>7. Len(c) = q
    BY <2>4
  <2>8. ASSUME NEW i \in 1 .. q
        PROVE  reg_write(c[i]) \in RegWrite
    <3>1. c[i].pc \in PC /\ c[i].id \in Value
      BY <2>6 DEF RobEntry
    <3>2. inst(c[i]) \in InstType
      BY <1>2, <3>1, Instructions DEF inst
    <3> QED
      BY <3>1, <3>2 DEF reg_write, RegWrite, InstType
  <2>9. writes(m) = [k \in 1 .. q |-> reg_write(c[k])]
    BY <2>1, <2>3, <2>7 DEF writes
  <2>10. writes(m) \in [1 .. q -> RegWrite]
    BY <2>8, <2>9
  <2> QED
    BY <2>4, <2>10
<1> QED
  BY <1>3, <1>4, <1>5, <1>6 DEF RegTypes

LEMMA CoreStep ==
  ASSUME CoreInv, IInv, EnoughEpochs, NEW n, NEW bus, NEW m, NEW new, NEW interrupt,
         Cycle(n, bus, m, new, interrupt)
  PROVE  CoreInv'
<1>1. FrontTypes'
  BY FrontStep
<1>2. CoreTypes'
  BY StationsStep, DelayStep, CsrStep DEF CoreTypes
<1>3. RobTypes' /\ InRing'
  BY RobStep
<1>4. RegTypes'
  BY RegTypesStep
<1>5. CommitTypes'
  BY CommitStep
<1>6. TypeOK'
  BY <1>1, <1>2, <1>3, <1>4, <1>5, TypeParts, PTL
<1>7. StationsWait' /\ Reserved' /\ WakeUps' /\ CsrAtHead'
  BY StationsStep, RegisterStep, WakeUpsStep, CsrStep
<1> QED
  BY <1>3, <1>6, <1>7 DEF CoreInv

LEMMA CoreInit ==
  ASSUME EnoughEpochs, Init
  PROVE  CoreInv
<1>1. /\ text \in Programs /\ fetch_pc = 0 /\ fetched = 0 /\ decoded = <<>>
      /\ rob_idx = 0 /\ stations = {} /\ csr_unit = <<>> /\ out_wr = <<>>
      /\ delay_bus_rs = [k \in 1 .. RESBUS_ADDED_DELAY |-> {}]
      /\ rob = <<>> /\ registers = [r \in Register |-> Regs!Invalid]
      /\ regs = [r \in Register |-> 0] /\ out_buffer = <<>>
      /\ epoch = 0 /\ next_pc_r = <<>> /\ int_in_process_r = FALSE
      /\ mepc = 0 /\ mscratch = 0 /\ csr_writer = 0 /\ csr_torn = FALSE
  BY DEF Init, Regs!InitRegisters
<1>2. /\ 0 \in PC /\ 0 \in Value /\ 0 \in Tag /\ 0 \in 0 .. EPOCHS - 1
      /\ INST_WINDOW \in Nat /\ ROBDEPTH \in Nat /\ RESBUS_ADDED_DELAY \in Nat
  BY SizeAssumption DEF PC, Value, Tag, EnoughEpochs
<1>3. FrontTypes
  <2>1. decoded \in Seq(Flight) /\ Len(decoded) = 0
    BY <1>1
  <2> QED
    BY <1>1, <1>2, <2>1 DEF FrontTypes
<1>4. CoreTypes
  <2>1. delay_bus_rs \in Seq(SUBSET Loopback) /\ Len(delay_bus_rs) = RESBUS_ADDED_DELAY
    <3>1. delay_bus_rs \in [1 .. RESBUS_ADDED_DELAY -> SUBSET Loopback]
      BY <1>1
    <3> QED
      BY <1>2, <3>1
  <2> QED
    BY <1>1, <2>1 DEF CoreTypes
<1>5. RobTypes /\ Len(rob) = 0
  BY <1>1, <1>2 DEF RobTypes
<1>6. RegTypes
  <2>1. Regs!Invalid \in Regs!EvoEntry
    BY DEF Regs!EvoEntry
  <2> QED
    BY <1>1, <1>2, <2>1 DEF RegTypes
<1>7. CommitTypes
  BY <1>1, <1>2 DEF CommitTypes
<1>8. TypeOK
  BY <1>3, <1>4, <1>5, <1>6, <1>7, TypeParts
<1>9. InRing
  BY <1>5 DEF InRing
<1>10. Reserved
  <2>1. \A r \in Register : registers[r] = Regs!Invalid
    BY <1>1
  <2>2. Regs!Invalid.is # "Tag"
    BY DEF Regs!Invalid
  <2> QED
    BY <2>1, <2>2 DEF Reserved
<1> QED
  BY <1>1, <1>8, <1>9, <1>10 DEF CoreInv, StationsWait, WakeUps, CsrAtHead

-----------------------------------------------------------------------------
(* The invariant of the core: what a station or a register waits for is      *)
(* never done before, whatever is flushed.                                  *)
THEOREM CoreInvariant ==
  ASSUME EnoughEpochs
  PROVE  Spec => []CoreInv
<1>1. Init => CoreInv
  BY CoreInit
<1>2. CoreInv /\ IInv /\ [Next]_vars => CoreInv'
  <2> SUFFICES ASSUME CoreInv, IInv, [Next]_vars
               PROVE  CoreInv'
    OBVIOUS
  <2>1. CASE Next
    <3>1. PICK n, bus, m, new, interrupt : Cycle(n, bus, m, new, interrupt)
      BY <2>1, NextCycles
    <3> QED
      BY <3>1, CoreStep
  <2>2. CASE UNCHANGED vars
    <3>1. UNCHANGED <<text, fetch_pc, fetched, decoded>>
      BY <2>2 DEF vars, frontend
    <3>2. UNCHANGED <<rob_idx, stations, delay_bus_rs, csr_unit, out_wr>>
      BY <2>2 DEF vars, execcore
    <3>3. UNCHANGED <<rob, registers, regs, out_buffer, epoch, next_pc_r, int_in_process_r,
                      mepc, mscratch>>
      BY <2>2 DEF vars, backend
    <3>4. UNCHANGED <<csr_writer, csr_torn>>
      BY <2>2 DEF vars, history
    <3>5. FrontTypes /\ CoreTypes /\ RobTypes /\ RegTypes /\ CommitTypes
      BY TypeParts DEF CoreInv
    <3>6. FrontTypes' /\ CoreTypes' /\ RobTypes' /\ RegTypes' /\ CommitTypes'
      BY <3>1, <3>2, <3>3, <3>4, <3>5 DEF FrontTypes, CoreTypes, RobTypes, RegTypes, CommitTypes
    <3>7. TypeOK'
      BY <3>6, TypeParts, PTL
    <3>8. InRing'
      BY <3>2, <3>3 DEF CoreInv, InRing, Back
    <3>9. StationsWait' /\ Reserved'
      BY <3>2, <3>3 DEF CoreInv, StationsWait, Reserved, Undone
    <3>10. WakeUps'
      BY <3>2, <3>3 DEF CoreInv, WakeUps, Coming
    <3>11. CsrAtHead'
      BY <3>1, <3>2, <3>3 DEF CoreInv, CsrAtHead, system, inst
    <3> QED
      BY <3>7, <3>8, <3>9, <3>10, <3>11 DEF CoreInv
  <2> QED
    BY <2>1, <2>2
<1> QED
  BY <1>1, <1>2, EpochsKeepUp, PTL DEF Spec

(* The types of the core, for every size of it.                             *)
THEOREM TypeCorrect ==
  ASSUME EnoughEpochs
  PROVE  Spec => []TypeOK
<1>1. CoreInv => TypeOK
  BY DEF CoreInv
<1> QED
  BY <1>1, CoreInvariant, PTL

(* What a station waits for is still to come, for every size of the core and *)
(* every delay of the bus, and whatever is flushed.                         *)
THEOREM NoWakeUpIsLost ==
  ASSUME EnoughEpochs
  PROVE  Spec => []NoWakeUpLost
<1>1. CoreInv => NoWakeUpLost
  <2> SUFFICES ASSUME CoreInv, NEW s \in stations, s.rs1.is = "Tag"
               PROVE  \/ \E k \in 1 .. Position(s.tag) - 1 : rob[k].tag = s.rs1.tag /\ ~rob[k].done
                      \/ \E d \in 1 .. RESBUS_ADDED_DELAY : \E r \in delay_bus_rs[d] : r.tag = s.rs1.tag
    BY DEF NoWakeUpLost
  <2>1. RobTypes /\ InRing /\ WakeUps
    BY TypeParts DEF CoreInv
  <2>2. Coming(s)
    BY <2>1 DEF WakeUps
  <2>3. ASSUME NEW j \in 1 .. Len(rob), NEW k \in 1 .. Len(rob), j < k, rob[k].tag = s.tag,
               rob[j].tag = s.rs1.tag, ~rob[j].done
        PROVE  \E i \in 1 .. Position(s.tag) - 1 : rob[i].tag = s.rs1.tag /\ ~rob[i].done
    <3>1. PICK p : p = CHOOSE i \in 1 .. Len(rob) : rob[i].tag = s.tag
      OBVIOUS
    <3>2. p \in 1 .. Len(rob) /\ rob[p].tag = s.tag
      BY <2>3, <3>1
    <3>3. p = k
      BY <2>1, <2>3, <3>2, OneRow
    <3>4. j \in 1 .. p - 1
      BY <2>3, <3>3
    <3> QED
      BY <2>3, <3>1, <3>4 DEF Position
  <2> QED
    BY <2>2, <2>3 DEF Coming
<1> QED
  BY <1>1, CoreInvariant, PTL

-----------------------------------------------------------------------------
(* Who carries the current epoch is no redirect behind.                     *)
LEMMA SameEpoch ==
  ASSUME NEW p \in Nat, NEW now \in Nat, NEW E \in Nat, NEW x \in 0 .. E - 1, E >= 3,
         p <= now, now - p <= 2,
         x = IF now - p <= x THEN x - (now - p) ELSE x + E - (now - p)
  PROVE  now = p
OBVIOUS

(* A row of an old epoch stays one.                                         *)
LEMMA OldStaysOld ==
  ASSUME CoreInv, IInv, IInv', EnoughEpochs, NEW n, NEW bus, NEW m, NEW new, NEW interrupt,
         Cycle(n, bus, m, new, interrupt), NEW k \in 1 .. Len(rob) - m, rob'[k].epoch = epoch'
  PROVE  rob[k + m].epoch = epoch
<1>1. Len(rob) \in Nat /\ m \in 0 .. Len(rob) /\ n \in Nat /\ k + m \in 1 .. Len(rob)
  BY Taken
<1>2. Len(rob') = Len(rob) - m + n
  BY RowsAre
<1>3. rob'[k].path = rob[k + m].path /\ k \in 1 .. Len(rob')
  <2>1. RobTypes /\ InRing /\ TypeOK /\ StationsWait /\ bus \in SUBSET Results
    BY Taken, TypeParts DEF CoreInv
  <2>2. \A r \in bus : r \in Result
    BY <2>1, BusIs
  <2>3. rob'[k] = completed(rob[k + m], bus)
    BY RowsAre
  <2>5. rob[k + m] \in RobEntry
    BY <1>1, <2>1, Tags
  <2>4. rob'[k].path = rob[k + m].path
    BY <2>2, <2>3, <2>5, CompletedIs
  <2> QED
    BY <1>1, <1>2, <2>4
<1>4. EpochFits(rob[k + m])
  <2>1. /\ Len(rob) \in Nat /\ Len(decoded) \in Nat
        /\ \A i \in 1 .. Len(rob) + Len(decoded) :
             Flying[i] = IF i <= Len(rob) THEN rob[i] ELSE decoded[i - Len(rob)]
    BY InFlight DEF IInv, Sequences, Flying
  <2>2. Flying[k + m] = rob[k + m] /\ k + m \in 1 .. Len(rob) + Len(decoded)
    BY <1>1, <2>1
  <2> QED
    BY <2>2 DEF IInv, EpochsFit
<1>5. EpochFits(rob[k])'
  <2>1. /\ Len(rob') \in Nat /\ Len(decoded') \in Nat
        /\ \A i \in 1 .. Len(rob') + Len(decoded') :
             Flying'[i] = IF i <= Len(rob') THEN rob'[i] ELSE decoded'[i - Len(rob')]
    BY InFlight DEF IInv, Sequences, Flying
  <2>2. Flying'[k] = rob'[k] /\ k \in 1 .. Len(rob') + Len(decoded')
    BY <1>3, <2>1
  <2> QED
    BY <2>2 DEF IInv, EpochsFit, EpochFits, Survived
<1>6. path' = path \/ path' = path + 1
  BY DEF Cycle, Clock, History
<1>7. /\ path \in Nat /\ path' \in Nat /\ epoch \in 0 .. EPOCHS - 1 /\ epoch' \in 0 .. EPOCHS - 1
      /\ EPOCHS \in Nat /\ EPOCHS >= 3
  BY SizeAssumption DEF IInv, Sequences, EnoughEpochs
<1>8. Reach' \in {1, 2} /\ Reach \in {1, 2}
  BY DEF Reach
<1>9. PICK p, q : p = rob[k + m].path /\ q = rob'[k].epoch
  OBVIOUS
<1>10. /\ p \in Nat /\ p <= path' /\ path' - p <= 2
       /\ q = IF path' - p <= epoch' THEN epoch' - (path' - p) ELSE epoch' + EPOCHS - (path' - p)
  BY <1>3, <1>5, <1>7, <1>8, <1>9 DEF EpochFits, Survived
<1>11. path' = p
  <2>1. epoch' = IF path' - p <= epoch' THEN epoch' - (path' - p) ELSE epoch' + EPOCHS - (path' - p)
    BY <1>9, <1>10, Zenon
  <2>2. p \in Nat /\ p <= path' /\ path' - p <= 2
    BY <1>10
  <2> QED
    BY <1>7, <2>1, <2>2, SameEpoch
<1>12. p = path
  BY <1>4, <1>6, <1>7, <1>9, <1>11 DEF EpochFits
<1> QED
  BY <1>4, <1>7, <1>9, <1>12 DEF EpochFits, Survived

(* While the oldest has no result nothing commits.                          *)
LEMMA HeadStays ==
  ASSUME CoreInv, IInv, IInv', EnoughEpochs, NEW n, NEW bus, NEW m, NEW new, NEW interrupt,
         Cycle(n, bus, m, new, interrupt), m = 0
  PROVE  /\ Committed(m) = <<>> /\ csr_writer' = csr_writer
         /\ ~interrupt => epoch' = epoch
         /\ rob # <<>> => /\ rob' # <<>> /\ rob'[1].id = rob[1].id /\ rob'[1].tag = rob[1].tag
                          /\ rob'[1] = completed(rob[1], bus) /\ 1 \in 1 .. Len(rob)
                          /\ rob[1] \in RobEntry
                          /\ CsrNow' => CsrNow
                          /\ CsrNow /\ ~interrupt => CsrNow'
<1> DEFINE c == Committed(m)
<1>1. Len(rob) \in Nat /\ bus \in SUBSET Results /\ n \in Nat /\ interrupt \in BOOLEAN
  BY Taken DEF Cycle
<1>2. RobTypes /\ InRing /\ TypeOK /\ StationsWait
  BY TypeParts DEF CoreInv
<1>3. c = <<>>
  <2>1. 1 .. 0 = {} /\ m \in Nat
    OBVIOUS
  <2>2. Sequences
    BY DEF IInv
  <2> QED
    BY <2>1, <2>2, Commits
<1>4. csr_writer' = csr_writer
  <2>1. CsrWriters(<<>>) = {}
    BY DEF CsrWriters
  <2> QED
    BY <1>3, <2>1 DEF Cycle, Clock, History
<1>5. ~interrupt => epoch' = epoch
  BY <1>3 DEF Cycle, Clock, redirect_on_no_interrupt
<1>6. ASSUME rob # <<>>
      PROVE  /\ rob' # <<>> /\ rob'[1].id = rob[1].id /\ rob'[1].tag = rob[1].tag
             /\ rob'[1] = completed(rob[1], bus) /\ 1 \in 1 .. Len(rob) /\ rob[1] \in RobEntry
             /\ CsrNow' => CsrNow
             /\ CsrNow /\ ~interrupt => CsrNow'
  <2>1. 1 \in 1 .. Len(rob) /\ rob[1] \in RobEntry
    BY <1>2, <1>6, Tags
  <2>2. 1 \in 1 .. Len(rob) - m /\ 1 + m = 1
    BY <1>1, <2>1
  <2>3. rob'[1] = completed(rob[1], bus) /\ Len(rob') >= 1
    BY <1>1, <2>1, <2>2, RowsAre
  <2>4. \A r \in bus : r \in Result
    BY <1>1, <1>2, BusIs
  <2>5. rob'[1].id = rob[1].id /\ rob'[1].tag = rob[1].tag /\ rob'[1].pc = rob[1].pc
        /\ rob'[1].epoch = rob[1].epoch
    BY <2>1, <2>3, <2>4, CompletedIs
  <2>6. rob' # <<>>
    BY <2>3
  <2>7. text' = text
    BY DEF Cycle, Clock, FrontendCycle
  <2>8. CsrNow' <=> inst(rob[1]).kind = "csr" /\ rob[1].epoch = epoch'
    BY <2>5, <2>6, <2>7 DEF CsrNow, inst
  <2>9. CsrNow <=> inst(rob[1]).kind = "csr" /\ rob[1].epoch = epoch
    BY <1>6 DEF CsrNow
  <2>10. rob[1].epoch = epoch' => rob[1].epoch = epoch
    <3>1. rob'[1].epoch = epoch' => rob[1 + m].epoch = epoch
      BY <2>2, OldStaysOld
    <3> QED
      BY <2>2, <2>5, <3>1
  <2> QED
    BY <1>5, <2>1, <2>3, <2>5, <2>6, <2>8, <2>9, <2>10
<1> QED
  BY <1>3, <1>4, <1>5, <1>6

(* What is behind the oldest, or has just been issued, is no system          *)
(* instruction with a result.                                               *)
LEMMA SystemsStep ==
  ASSUME CoreInv, SystemsAtHead, NEW n, NEW bus, NEW m, NEW new, NEW interrupt,
         Cycle(n, bus, m, new, interrupt)
  PROVE  \A k \in 1 .. Len(rob') : k + m >= 2 /\ system(rob'[k]) => ~rob'[k].done
<1> SUFFICES ASSUME NEW k \in 1 .. Len(rob'), k + m >= 2, system(rob'[k])
             PROVE  ~rob'[k].done
  OBVIOUS
<1>1. Len(rob) \in Nat /\ m \in 0 .. Len(rob) /\ bus \in SUBSET Results /\ n \in Nat
  BY Taken
<1>2. RobTypes /\ InRing /\ TypeOK /\ StationsWait
  BY TypeParts DEF CoreInv
<1>3. Len(rob') = Len(rob) - m + n
  BY RowsAre
<1>4. CASE k <= Len(rob) - m
  <2>1. k \in 1 .. Len(rob) - m /\ k + m \in 1 .. Len(rob) /\ k + m \in 2 .. Len(rob)
    BY <1>1, <1>4
  <2>2. rob'[k] = completed(rob[k + m], bus)
    BY <2>1, RowsAre
  <2>3. rob[k + m] \in RobEntry /\ \A r \in bus : r \in Result
    BY <1>1, <1>2, <2>1, Tags, BusIs
  <2>4. rob'[k].pc = rob[k + m].pc
    BY <2>2, <2>3, CompletedIs
  <2>6. system(rob[k + m])
    BY <2>4 DEF system, inst
  <2>7. ~rob[k + m].done
    BY <2>1, <2>6 DEF SystemsAtHead
  <2>8. \A r \in bus : r.tag # rob[k + m].tag
    <3>1. k + m # 1
      BY <1>1
    <3> QED
      BY <1>1, <2>1, <2>6, <3>1, SystemsWait
  <2>9. completed(rob[k + m], bus) = rob[k + m]
    BY <2>3, <2>8, CompletedIs
  <2> QED
    BY <2>2, <2>7, <2>9
<1>5. CASE ~(k <= Len(rob) - m)
  <2>1. PICK i \in 1 .. n : k = Len(rob) - m + i
    <3>1. k - (Len(rob) - m) \in 1 .. n /\ k = Len(rob) - m + (k - (Len(rob) - m))
      BY <1>1, <1>3, <1>5
    <3> QED
      BY <3>1
  <2> QED
    BY <2>1, StillUndone
<1> QED
  BY <1>4, <1>5

(* What the CSR unit sends to the CSR file.                                 *)
LEMMA SentStep ==
  ASSUME CoreInv, IInv, IInv', EnoughEpochs, CsrInv, NEW n, NEW bus, NEW m, NEW new,
         NEW interrupt, Cycle(n, bus, m, new, interrupt)
  PROVE  WriteSent'
<1>1. /\ bus \in SUBSET Results /\ Len(rob) \in Nat /\ m \in 0 .. Len(rob)
      /\ \A k \in 1 .. m : rob[k].done
  BY Taken
<1>2. TypeOK /\ CoreTypes /\ RobTypes /\ InRing /\ StationsWait
  BY TypeParts DEF CoreInv
<1>3. get_request \/ read_modify \/ propagate_result
  BY DEF Cycle, Clock, CsrCycle
<1>4. CASE get_request
  <2>1. PICK t : csr_unit' = <<[tag |-> t, out |-> FALSE]>> /\ out_wr' = <<>>
    BY <1>4 DEF get_request
  <2>2. ~csr_unit'[1].out
    BY <2>1
  <2> QED
    BY <2>1, <2>2 DEF WriteSent, Answers
<1>5. CASE propagate_result
  BY <1>5 DEF propagate_result, WriteSent, Answers
<1>6. CASE read_modify
  <2>1. /\ csr_unit # <<>> /\ answered = {}
        /\ csr_unit' = <<[csr_unit[1] EXCEPT !.out = TRUE]>>
    BY <1>6 DEF read_modify
  <2>2. /\ csr_unit[1] \in [tag : Tag, out : BOOLEAN] /\ ~csr_unit[1].out
        /\ 1 \in 1 .. Len(rob) /\ rob[1].tag = csr_unit[1].tag
        /\ ~rob[1].done /\ system(rob[1])
    BY <2>1, AnsweredIs
  <2>3. csr_unit' # <<>> /\ csr_unit'[1].out
    <3>1. [csr_unit[1] EXCEPT !.out = TRUE].out
      BY <2>2
    <3> QED
      BY <2>1, <3>1
  <2>4. Entry(csr_unit[1].tag) = rob[1]
    BY <1>2, <2>2, EntryIs
  <2>5. rob # <<>>
    BY <2>2
  <2>6. out_wr' = IF CsrNow THEN <<rob[1].id>> ELSE <<>>
    BY <1>6, <2>4, <2>5 DEF read_modify, CsrNow
  <2>7. m = 0
    BY <1>1, <2>2
  <2>8. /\ rob'[1].id = rob[1].id
        /\ CsrNow' => CsrNow
        /\ CsrNow /\ ~interrupt => CsrNow'
    BY <2>5, <2>7, HeadStays
  <2>9. CsrNow /\ interrupt => csr_torn'
    <3>1. CsrNow => csr_pending(m)
      <4>1. m + 1 = 1 /\ m < Len(rob)
        BY <1>1, <2>2, <2>7
      <4> QED
        BY <2>1, <4>1 DEF csr_pending, CsrNow
    <3>2. csr_torn' = (csr_torn \/ (interrupt /\ csr_pending(m)))
      BY DEF Cycle, Clock, History
    <3> QED
      BY <3>1, <3>2
  <2>10. CsrNow' => out_wr' = <<rob'[1].id>>
    BY <2>6, <2>8
  <2>11. out_wr' # <<>> => (~csr_torn' => CsrNow')
    BY <2>6, <2>8, <2>9
  <2> QED
    BY <2>3, <2>10, <2>11 DEF WriteSent, Answers
<1> QED
  BY <1>3, <1>4, <1>5, <1>6

(* What the CSR file holds, while the oldest has no result or stays.        *)
LEMMA MscratchStays ==
  ASSUME CoreInv, IInv, IInv', EnoughEpochs, CsrInv, NEW n, NEW bus, NEW m, NEW new,
         NEW interrupt, Cycle(n, bus, m, new, interrupt), m = 0, ~csr_torn'
  PROVE  mscratch' = IF CsrNow' /\ rob'[1].done THEN rob'[1].id ELSE csr_writer'
<1>1. bus \in SUBSET Results /\ Len(rob) \in Nat /\ n \in Nat
  BY Taken
<1>2. TypeOK /\ CoreTypes /\ RobTypes /\ InRing /\ StationsWait
  BY TypeParts DEF CoreInv
<1>3. csr_torn' = (csr_torn \/ (interrupt /\ csr_pending(m)))
  BY DEF Cycle, Clock, History
<1>4. ~csr_torn /\ (csr_pending(m) => ~interrupt)
  BY <1>3
<1>5. mscratch = IF CsrNow /\ rob[1].done THEN rob[1].id ELSE csr_writer
  BY <1>4 DEF CsrInv, WriteCommits
<1>6. /\ Answers /\ CsrNow => out_wr = <<rob[1].id>>
      /\ out_wr # <<>> => Answers /\ CsrNow
  BY <1>4 DEF CsrInv, WriteSent
<1>7. mscratch' = IF out_wr = <<>> THEN mscratch ELSE out_wr[1]
  BY DEF Cycle, Clock, write
<1>8. csr_writer' = csr_writer
  BY HeadStays
<1>9. CASE rob = <<>>
  <2>1. ~CsrNow
    BY <1>9 DEF CsrNow
  <2>2. mscratch' = csr_writer
    BY <1>5, <1>6, <1>7, <2>1
  <2>3. ~(CsrNow' /\ rob'[1].done)
    <3>1. Len(rob) = 0 /\ Len(rob') = n
      BY <1>1, <1>9, RowsAre
    <3>2. ASSUME rob' # <<>>
          PROVE  ~rob'[1].done
      <4>1. n # 0
        <5>1. rob' \in Seq(RobEntry)
          BY RowsAre
        <5> QED
          BY <3>1, <3>2, <5>1
      <4>2. 1 \in 1 .. n /\ Len(rob) - m + 1 = 1
        BY <1>1, <3>1, <4>1
      <4> QED
        BY <4>2, StillUndone
    <3> QED
      BY <3>2 DEF CsrNow
  <2> QED
    BY <1>8, <2>2, <2>3
<1>10. CASE rob # <<>>
  <2>1. /\ rob'[1].id = rob[1].id /\ rob'[1].tag = rob[1].tag
        /\ rob'[1] = completed(rob[1], bus) /\ 1 \in 1 .. Len(rob) /\ rob[1] \in RobEntry
        /\ CsrNow' => CsrNow
        /\ CsrNow /\ ~interrupt => CsrNow'
    BY <1>10, HeadStays
  <2>2. \A r \in bus : r \in Result
    BY <1>1, <1>2, BusIs
  <2>3. CsrNow /\ (rob[1].done \/ csr_unit # <<>>) => csr_pending(m)
    <3>1. m + 1 = 1 /\ m < Len(rob)
      BY <1>1, <2>1
    <3> QED
      BY <3>1 DEF csr_pending, CsrNow
  <2>4. CsrNow => system(rob[1])
    BY DEF CsrNow, system
  <2>5. CASE Answers
    <3>1. ~rob[1].done /\ rob[1].tag = csr_unit[1].tag /\ answered = {csr_unit[1].tag}
      BY <2>5, AnsweredIs DEF Answers
    <3>2. rob'[1].done
      <4>1. \E r \in bus : r.tag = rob[1].tag
        BY <3>1 DEF Cycle, may_complete
      <4> QED
        BY <2>1, <2>2, <4>1, CompletedIs
    <3>3. CASE CsrNow
      <4>1. CsrNow'
        BY <1>4, <2>1, <2>3, <2>5, <3>3 DEF Answers
      <4>2. mscratch' = rob[1].id
        <5>1. PICK v : v = rob[1].id
          OBVIOUS
        <5>2. out_wr = <<v>>
          BY <1>6, <2>5, <3>3, <5>1
        <5> QED
          BY <1>7, <5>1, <5>2
      <4> QED
        BY <2>1, <3>2, <4>1, <4>2
    <3>4. CASE ~CsrNow
      <4>1. mscratch' = csr_writer
        BY <1>5, <1>6, <1>7, <3>4
      <4> QED
        BY <1>8, <2>1, <3>4, <4>1
    <3> QED
      BY <3>3, <3>4
  <2>6. CASE ~Answers
    <3>1. mscratch' = mscratch
      BY <1>6, <1>7, <2>6
    <3>2. CASE CsrNow /\ rob[1].done
      <4>1. CsrNow'
        BY <1>4, <2>1, <2>3, <3>2
      <4>2. rob'[1].done
        <5>1. CASE \E r \in bus : r.tag = rob[1].tag
          BY <2>1, <2>2, <5>1, CompletedIs
        <5>2. CASE ~ \E r \in bus : r.tag = rob[1].tag
          BY <2>1, <2>2, <3>2, <5>2, CompletedIs
        <5> QED
          BY <5>1, <5>2
      <4> QED
        BY <1>5, <2>1, <3>1, <3>2, <4>1, <4>2
    <3>3. CASE ~(CsrNow /\ rob[1].done)
      <4>1. ~(CsrNow' /\ rob'[1].done)
        <5>1. SUFFICES ASSUME CsrNow' PROVE ~rob'[1].done
          OBVIOUS
        <5>2. CsrNow /\ ~rob[1].done /\ system(rob[1])
          BY <2>1, <2>4, <3>3, <5>1
        <5>3. \A r \in bus : r.tag # rob[1].tag
          BY <1>1, <2>1, <2>6, <5>2, SystemsWait DEF Answers
        <5> QED
          BY <2>1, <2>2, <5>2, <5>3, CompletedIs
      <4> QED
        BY <1>5, <1>8, <3>1, <3>3, <4>1
    <3> QED
      BY <3>2, <3>3
  <2> QED
    BY <2>5, <2>6
<1> QED
  BY <1>9, <1>10

(* ... and when the oldest leaves.                                          *)
LEMMA MscratchLeaves ==
  ASSUME CoreInv, IInv, IInv', EnoughEpochs, CsrInv, NEW n, NEW bus, NEW m, NEW new,
         NEW interrupt, Cycle(n, bus, m, new, interrupt), m # 0, ~csr_torn'
  PROVE  mscratch' = IF CsrNow' /\ rob'[1].done THEN rob'[1].id ELSE csr_writer'
<1>1. /\ bus \in SUBSET Results /\ Len(rob) \in Nat /\ m \in 0 .. Len(rob) /\ m \in Nat
      /\ \A k \in 1 .. m : rob[k].done
  BY Taken
<1>2. CoreTypes /\ RobTypes /\ CsrAtHead
  BY TypeParts DEF CoreInv
<1>3. ~csr_torn
  BY DEF Cycle, Clock, History
<1>4. 1 \in 1 .. m /\ rob[1].done /\ 1 \in 1 .. Len(rob) /\ rob # <<>>
  BY <1>1
<1>5. csr_unit = <<>> /\ out_wr = <<>>
  <2>1. csr_unit = <<>>
    BY <1>2, <1>4 DEF CsrAtHead
  <2> QED
    BY <2>1 DEF CsrInv, WriteSent, Answers
<1>6. mscratch' = IF CsrNow THEN rob[1].id ELSE csr_writer
  <2>1. mscratch' = mscratch
    BY <1>5 DEF Cycle, Clock, write
  <2> QED
    BY <1>3, <1>4, <2>1 DEF CsrInv, WriteCommits
<1>7. ~(CsrNow' /\ rob'[1].done)
  <2> SUFFICES ASSUME CsrNow' PROVE ~rob'[1].done
    OBVIOUS
  <2>1. 1 \in 1 .. Len(rob') /\ 1 + m >= 2
    <3>1. rob' # <<>> /\ rob' \in Seq(RobEntry)
      BY RowsAre DEF CsrNow
    <3> QED
      BY <1>1, <3>1
  <2>2. system(rob'[1])
    <3>1. text' = text
      BY DEF Cycle, Clock, FrontendCycle
    <3> QED
      BY <3>1 DEF CsrNow, system, inst
  <2>3. SystemsAtHead
    BY DEF CsrInv
  <2> QED
    BY <2>1, <2>2, <2>3, SystemsStep
<1> DEFINE c == Committed(m)
<1>8. /\ \A i \in 1 .. Len(c) : \E k \in 1 .. m : counts(k) /\ c[i] = rob[k]
      /\ \A k \in 1 .. m : counts(k) => \E i \in 1 .. Len(c) : c[i] = rob[k]
  BY <1>1, <1>2, CommittedAre
(* Of those that commit, only the oldest may be a CSR access.               *)
<1>9. ASSUME NEW i \in 1 .. Len(c), inst(c[i]).kind = "csr"
      PROVE  c[i] = rob[1] /\ CsrNow
  <2>1. PICK k \in 1 .. m : counts(k) /\ c[i] = rob[k]
    BY <1>8
  <2>2. k = 1
    <3>1. SUFFICES ASSUME k # 1 PROVE FALSE
      OBVIOUS
    <3>2. k \in 2 .. Len(rob) /\ rob[k].done /\ system(rob[k])
      BY <1>1, <1>9, <2>1, <3>1 DEF system
    <3> QED
      BY <3>2 DEF CsrInv, SystemsAtHead
  <2> QED
    BY <1>4, <1>9, <2>1, <2>2 DEF CsrNow, counts
<1>10. csr_writer' = IF CsrWriters(c) = {} THEN csr_writer
                     ELSE c[CHOOSE k \in CsrWriters(c) : \A j \in CsrWriters(c) : j <= k].id
  BY DEF Cycle, Clock, History
<1>11. csr_writer' = IF CsrNow THEN rob[1].id ELSE csr_writer
  <2>1. CASE CsrWriters(c) = {}
    <3>1. ~CsrNow
      <4>1. SUFFICES ASSUME CsrNow PROVE FALSE
        OBVIOUS
      <4>2. counts(1)
        <5>1. 1 .. 1 - 1 = {}
          OBVIOUS
        <5> QED
          BY <4>1, <5>1 DEF counts, CsrNow
      <4>3. PICK i \in 1 .. Len(c) : c[i] = rob[1]
        BY <1>4, <1>8, <4>2
      <4>4. i \in CsrWriters(c)
        BY <4>1, <4>3 DEF CsrWriters, CsrNow
      <4> QED
        BY <2>1, <4>4
    <3> QED
      BY <1>10, <2>1, <3>1
  <2>2. CASE CsrWriters(c) # {}
    <3>1. PICK w : /\ w = CHOOSE k \in CsrWriters(c) : \A j \in CsrWriters(c) : j <= k
                   /\ w \in 1 .. Len(c) /\ inst(c[w]).kind = "csr"
      BY <1>1, <1>2, <2>2, LastWriter
    <3>2. c[w] = rob[1] /\ CsrNow
      BY <1>9, <3>1
    <3> QED
      BY <1>10, <2>2, <3>1, <3>2
  <2> QED
    BY <2>1, <2>2
<1> QED
  BY <1>6, <1>7, <1>11

LEMMA CsrInvStep ==
  ASSUME CoreInv, IInv, IInv', EnoughEpochs, CsrInv, NEW n, NEW bus, NEW m, NEW new,
         NEW interrupt, Cycle(n, bus, m, new, interrupt)
  PROVE  CsrInv'
<1>1. SystemsAtHead'
  <2>1. \A k \in 1 .. Len(rob') : k + m >= 2 /\ system(rob'[k]) => ~rob'[k].done
    BY SystemsStep DEF CsrInv
  <2>2. Len(rob') \in Nat /\ m \in Nat
    <3>1. rob' \in Seq(RobEntry) /\ m \in Nat
      BY RowsAre, Taken
    <3> QED
      BY <3>1
  <2>3. \A k \in 2 .. Len(rob') : k \in 1 .. Len(rob') /\ k + m >= 2
    BY <2>2
  <2>4. text' = text
    BY DEF Cycle, Clock, FrontendCycle
  <2>5. \A k \in 2 .. Len(rob') : system(rob'[k]) => ~rob'[k].done
    BY <2>1, <2>3
  <2> QED
    BY <2>4, <2>5 DEF SystemsAtHead, system, inst
<1>2. WriteSent'
  BY SentStep
<1>3. WriteCommits'
  <2>1. ~csr_torn' => mscratch' = IF CsrNow' /\ rob'[1].done THEN rob'[1].id ELSE csr_writer'
    BY MscratchStays, MscratchLeaves
  <2> QED
    BY <2>1 DEF WriteCommits
<1> QED
  BY <1>1, <1>2, <1>3 DEF CsrInv

(* mscratch holds what the last committed instruction wrote to it, or the    *)
(* one about to commit, unless an interrupt came between a write and its     *)
(* commit: however often the core was redirected, no instruction of an       *)
(* abandoned path has touched it.                                           *)
THEOREM MscratchIsCommitted ==
  ASSUME EnoughEpochs
  PROVE  Spec => []MscratchCommitsUninterrupted
<1>1. Init => CsrInv
  <2> SUFFICES ASSUME Init PROVE CsrInv
    OBVIOUS
  <2>1. /\ csr_unit = <<>> /\ out_wr = <<>> /\ rob = <<>> /\ mscratch = 0 /\ csr_writer = 0
    BY DEF Init
  <2>2. 2 .. Len(rob) = {} /\ ~CsrNow
    BY <2>1 DEF CsrNow
  <2> QED
    BY <2>1, <2>2 DEF CsrInv, SystemsAtHead, WriteSent, WriteCommits, Answers
<1>2. CsrInv /\ CoreInv /\ IInv /\ IInv' /\ [Next]_vars => CsrInv'
  <2> SUFFICES ASSUME CsrInv, CoreInv, IInv, IInv', [Next]_vars
               PROVE  CsrInv'
    OBVIOUS
  <2>1. CASE Next
    <3>1. PICK n, bus, m, new, interrupt : Cycle(n, bus, m, new, interrupt)
      BY <2>1, NextCycles
    <3> QED
      BY <3>1, CsrInvStep
  <2>2. CASE UNCHANGED vars
    <3>1. UNCHANGED <<text, csr_unit, out_wr, rob, epoch, mscratch, csr_writer, csr_torn>>
      BY <2>2 DEF vars, frontend, execcore, backend, history
    <3>2. SystemsAtHead'
      BY <3>1 DEF CsrInv, SystemsAtHead, system, inst
    <3>3. CsrNow' <=> CsrNow
      BY <3>1 DEF CsrNow, inst
    <3>4. WriteSent' /\ WriteCommits'
      BY <3>1, <3>3 DEF CsrInv, WriteSent, WriteCommits, Answers
    <3> QED
      BY <3>2, <3>4 DEF CsrInv
  <2> QED
    BY <2>1, <2>2
<1>3. CsrInv => MscratchCommitsUninterrupted
  BY DEF CsrInv, WriteCommits, MscratchCommitsUninterrupted, MscratchCommits, CsrNow
<1> QED
  BY <1>1, <1>2, <1>3, EpochsKeepUp, CoreInvariant, PTL DEF Spec
=============================================================================
