---------------------- MODULE ReservationStationProofs ----------------------
(***************************************************************************)
(* Proofs about reservation stations of either kind, of every size and     *)
(* with every combination of registers in front of them, in a core of any  *)
(* width and depth.                                                        *)
(*                                                                         *)
(* can_insert counts free rows in the cycle of issue; the instruction is   *)
(* entered up to two cycles later.  The invariant is that the rows have    *)
(* room for everything that is on its way to them.                         *)
(***************************************************************************)
EXTENDS ReservationStation, SequenceTheorems, FiniteSetTheorems, WellFoundedInduction, TLAPS

One(m)   == IF m = <<>> THEN 0 ELSE 1
OnItsWay == One(inst_in_f) + One(instructions_for_rs)

(* Around a ring of e: the steps from t to r, and the place u after h.       *)
Steps(e, t, r) == IF r >= t THEN r - t ELSE r + e - t
After(e, h, u) == IF h + u >= e THEN h + u - e ELSE h + u

(* How far row r is from the tail, in the order of a linear station.        *)
FromTail(r) == Steps(station.entries, tail_r, r)

(* The first c rows from the tail on are those in use.                      *)
RingOf(c) ==
  /\ c \in 0 .. station.entries
  /\ IF c = station.entries THEN head_r = tail_r ELSE FromTail(head_r) = c
  /\ \A r \in Row : rows[r] # <<>> <=> FromTail(r) < c

RoomInRing == \E c \in 0 .. station.entries : RingOf(c) /\ c + OnItsWay <= station.entries

(* The registers that a station does not have stay empty.                   *)
Stages == /\ station.RS_LATCH_INPUT = 0 => inst_in_f = <<>>
          /\ station.SPLIT_ISSUE_STAGE = 0 => instructions_for_rs = <<>>

Shape == /\ station \in Stations
         /\ DOMAIN rows = Row /\ head_r \in Row /\ tail_r \in Row

IInv == /\ Shape /\ Stages
        /\ IF station.linear THEN RoomInRing ELSE OnItsWay <= Cardinality(Free)

-----------------------------------------------------------------------------
(* What a station is.                                                       *)
LEMMA StationParts ==
  ASSUME station \in Stations
  PROVE  /\ station.linear \in BOOLEAN
         /\ station.entries \in Nat \ {0}
         /\ station.RS_LATCH_INPUT \in {0, 1} /\ station.SPLIT_ISSUE_STAGE \in {0, 1}
         /\ stages(station) = station.RS_LATCH_INPUT + station.SPLIT_ISSUE_STAGE
         /\ stages(station) < station.entries
<1>1. station \in StationType /\ station.entries > stages(station)
  BY StationAssumption
<1>2. QED  BY <1>1 DEF StationType, stages

LEMMA FreeIsFinite ==
  ASSUME Shape
  PROVE  /\ Row = 0 .. station.entries - 1 /\ IsFiniteSet(Row)
         /\ IsFiniteSet(Free) /\ Cardinality(Free) \in Nat
<1>1. Row = 0 .. station.entries - 1 /\ IsFiniteSet(Row)
  BY StationParts, FS_Interval DEF Row, Shape
<1>2. Free \subseteq Row  BY DEF Free
<1>3. QED  BY <1>1, <1>2, FS_Subset, FS_CardinalityType

(* The index after n steps around the ring.                                 *)
LEMMA Wrap ==
  ASSUME station \in Stations, NEW r \in Row, NEW n \in 0 .. station.entries
  PROVE  /\ rollover_add(r, n) = IF r + n >= station.entries THEN r + n - station.entries ELSE r + n
         /\ rollover_add(r, n) \in Row
<1> DEFINE e == station.entries
<1>1. e \in Nat \ {0} /\ r \in 0 .. e - 1 /\ n \in 0 .. e  BY StationParts DEF Row
<1>2. QED  BY <1>1 DEF rollover_add, Row

-----------------------------------------------------------------------------
(* A cycle with the parts that matter here: an instruction is issued to the  *)
(* station only if it can be inserted.                                      *)
Moves(issued, entry, taken) ==
  /\ issued # <<>> => can_insert
  /\ entry = inserted(issued)
  /\ instructions_for_rs' = IF station.SPLIT_ISSUE_STAGE = 1 THEN issued ELSE <<>>
  /\ inst_in_f' = IF station.RS_LATCH_INPUT = 1 THEN put(issued) ELSE <<>>
  /\ \E row \in InsertRow :
       /\ DOMAIN rows' = Row
       /\ \A r \in Row : rows'[r] = <<>> <=> IF entry # <<>> /\ r = row THEN FALSE
                                             ELSE r \in taken \/ rows[r] = <<>>
  /\ head_r' = IF station.linear /\ entry # <<>> THEN rollover_add(head_r, 1) ELSE head_r
  /\ tail_r' = IF station.linear /\ taken # {} THEN rollover_add(tail_r, 1) ELSE tail_r
  /\ taken = {} \/ \E r \in Gettable : taken = {r}
  /\ station' = station

LEMMA NextMoves ==
  ASSUME Next
  PROVE  \E issued, entry, taken : Moves(issued, entry, taken)
<1>1. PICK results \in SUBSET Results, taken \in {{}} \cup {{r} : r \in Gettable} :
           Anything(results, taken)
  BY DEF Next
<1>2. PICK b \in Bundles : /\ here(b) # {} => can_insert
                           /\ \E src \in Sources(b) : Cycle(b, src, results, taken)
  BY <1>1 DEF Anything
<1>3. PICK src \in Sources(b) : Cycle(b, src, results, taken)  BY <1>2
<1> DEFINE issued == AsMaybe(map_to_issued(b, src, results))
           entry  == inserted(issued)
           bus    == result_bus(results)
<1>4. issued # <<>> => can_insert
  <2>1. here(b) = {} => map_to_issued(b, src, results) = {}  BY DEF map_to_issued
  <2>2. QED  BY <1>2, <2>1 DEF AsMaybe
<1>5. /\ instructions_for_rs' = IF station.SPLIT_ISSUE_STAGE = 1 THEN issued ELSE <<>>
      /\ inst_in_f' = IF station.RS_LATCH_INPUT = 1 THEN put(issued) ELSE <<>>
      /\ head_r' = IF station.linear /\ entry # <<>> THEN rollover_add(head_r, 1) ELSE head_r
      /\ tail_r' = IF station.linear /\ taken # {} THEN rollover_add(tail_r, 1) ELSE tail_r
      /\ station' = station
  BY <1>3 DEF Cycle
<1>6. PICK row \in InsertRow :
        rows' = [r \in Row |-> IF entry # <<>> /\ r = row THEN entry
                               ELSE IF r \in taken THEN <<>>
                               ELSE consume_result_bus(rows[r], bus)]
  BY <1>3 DEF Cycle
<1>7. \A m : consume_result_bus(m, bus) = <<>> <=> m = <<>>  BY DEF consume_result_bus
<1>8. /\ DOMAIN rows' = Row
      /\ \A r \in Row : rows'[r] = <<>> <=> IF entry # <<>> /\ r = row THEN FALSE
                                            ELSE r \in taken \/ rows[r] = <<>>
  <2> HIDE DEF entry, bus
  <2>1. DOMAIN rows' = Row  BY <1>6
  <2>2. \A r \in Row : rows'[r] = <<>> <=> IF entry # <<>> /\ r = row THEN FALSE
                                           ELSE r \in taken \/ rows[r] = <<>>
    BY <1>6, <1>7
  <2>3. QED  BY <2>1, <2>2
<1>9. Moves(issued, entry, taken)
  <2>1. \E q \in InsertRow :
          /\ DOMAIN rows' = Row
          /\ \A r \in Row : rows'[r] = <<>> <=> IF entry # <<>> /\ r = q THEN FALSE
                                                ELSE r \in taken \/ rows[r] = <<>>
    BY <1>8
  <2>2. taken = {} \/ \E r \in Gettable : taken = {r}  BY <1>1
  <2> HIDE DEF issued
  <2>3. QED  BY <1>4, <1>5, <2>1, <2>2 DEF Moves
<1>10. QED  BY <1>9

-----------------------------------------------------------------------------
(* What is on its way after a cycle.                                        *)
LEMMA OnItsWayStep ==
  ASSUME IInv, NEW issued, NEW entry, NEW taken, Moves(issued, entry, taken)
  PROVE  /\ OnItsWay \in Nat /\ One(entry) \in {0, 1} /\ OnItsWay' \in Nat
         /\ station' \in Stations /\ station' = station /\ Stages'
         /\ issued = <<>> => OnItsWay' = OnItsWay - One(entry)
         /\ stages(station) = 0 => OnItsWay' = 0
         /\ issued # <<>> /\ stages(station) > 0
              => OnItsWay' = OnItsWay - One(entry) + 1 /\ OnItsWay' <= stages(station)
         /\ entry # <<>> => OnItsWay >= 1 \/ (can_insert /\ stages(station) = 0)
<1>1. /\ instructions_for_rs' = IF station.SPLIT_ISSUE_STAGE = 1 THEN issued ELSE <<>>
      /\ inst_in_f' = IF station.RS_LATCH_INPUT = 1 THEN put(issued) ELSE <<>>
      /\ entry = inserted(issued)
      /\ station' = station
      /\ issued # <<>> => can_insert
  BY DEF Moves
<1>2. /\ station.RS_LATCH_INPUT \in {0, 1} /\ station.SPLIT_ISSUE_STAGE \in {0, 1}
      /\ stages(station) = station.RS_LATCH_INPUT + station.SPLIT_ISSUE_STAGE
      /\ station \in Stations
  BY StationParts DEF IInv, Shape
<1>3. /\ station.RS_LATCH_INPUT = 0 => inst_in_f = <<>>
      /\ station.SPLIT_ISSUE_STAGE = 0 => instructions_for_rs = <<>>
  BY DEF IInv, Stages
<1>4. Stages'  BY <1>1, <1>2 DEF Stages
<1> DEFINE L == station.RS_LATCH_INPUT
           S == station.SPLIT_ISSUE_STAGE
<1>5. CASE L = 1 /\ S = 1
  BY <1>1, <1>2, <1>3, <1>4, <1>5 DEF One, OnItsWay, put, inserted
<1>6. CASE L = 1 /\ S = 0
  BY <1>1, <1>2, <1>3, <1>4, <1>6 DEF One, OnItsWay, put, inserted
<1>7. CASE L = 0 /\ S = 1
  BY <1>1, <1>2, <1>3, <1>4, <1>7 DEF One, OnItsWay, put, inserted
<1>8. CASE L = 0 /\ S = 0
  BY <1>1, <1>2, <1>3, <1>4, <1>8 DEF One, OnItsWay, put, inserted
<1>9. QED  BY <1>2, <1>5, <1>6, <1>7, <1>8

(* A station that keeps no order: the free rows are as many as needed.      *)
LEMMA FreeStep ==
  ASSUME IInv, ~station.linear, NEW issued, NEW entry, NEW taken, Moves(issued, entry, taken)
  PROVE  OnItsWay' <= Cardinality(Free')
<1>1. /\ OnItsWay \in Nat /\ One(entry) \in {0, 1} /\ OnItsWay' \in Nat
      /\ station' = station
      /\ issued = <<>> => OnItsWay' = OnItsWay - One(entry)
      /\ stages(station) = 0 => OnItsWay' = 0
      /\ issued # <<>> /\ stages(station) > 0
           => OnItsWay' = OnItsWay - One(entry) + 1 /\ OnItsWay' <= stages(station)
      /\ entry # <<>> => OnItsWay >= 1 \/ (can_insert /\ stages(station) = 0)
  BY OnItsWayStep
<1>2. OnItsWay <= Cardinality(Free) /\ Shape  BY DEF IInv
<1>3. stages(station) \in Nat  BY <1>2, StationParts DEF Shape
<1>4. IsFiniteSet(Free) /\ Cardinality(Free) \in Nat  BY <1>2, FreeIsFinite
<1>5. can_insert => Cardinality(Free) > stages(station)  BY DEF can_insert
<1>6. issued # <<>> => can_insert  BY DEF Moves
<1>7. PICK row \in InsertRow :
        \A r \in Row : rows'[r] = <<>> <=> IF entry # <<>> /\ r = row THEN FALSE
                                           ELSE r \in taken \/ rows[r] = <<>>
  BY DEF Moves
<1>8. Row' = Row  BY <1>1 DEF Row
<1>9. IsFiniteSet(Free') /\ Cardinality(Free') \in Nat
  <2>1. Free' \subseteq Row  BY <1>8 DEF Free
  <2>2. QED  BY <1>2, <2>1, FreeIsFinite, FS_Subset, FS_CardinalityType
<1>10. CASE entry = <<>>
  <2>1. Free \subseteq Free'  BY <1>7, <1>8, <1>10 DEF Free
  <2>2. Cardinality(Free) <= Cardinality(Free')  BY <1>9, <2>1, FS_Subset
  <2>3. One(entry) = 0  BY <1>10 DEF One
  <2>4. CASE issued = <<>>  BY <1>1, <1>2, <1>4, <1>9, <2>2, <2>3, <2>4
  <2>5. CASE issued # <<>>
    BY <1>1, <1>2, <1>3, <1>4, <1>5, <1>6, <1>9, <2>2, <2>3, <2>5
  <2>6. QED  BY <2>4, <2>5
<1>11. CASE entry # <<>>
  <2>1. Cardinality(Free) > 0  BY <1>1, <1>2, <1>3, <1>4, <1>5, <1>11
  <2>2. Free # {}  BY <2>1, FS_EmptySet
  <2>3. row \in Free  BY <1>7, <2>2 DEF InsertRow, First
  <2>4. IsFiniteSet(Free \ {row}) /\ Cardinality(Free \ {row}) = Cardinality(Free) - 1
    BY <1>4, <2>3, FS_RemoveElement
  <2>5. Free \ {row} \subseteq Free'  BY <1>7, <1>8 DEF Free
  <2>6. Cardinality(Free) - 1 <= Cardinality(Free')  BY <1>9, <2>4, <2>5, FS_Subset
  <2>7. One(entry) = 1  BY <1>11 DEF One
  <2>8. CASE issued = <<>>
    <3>1. OnItsWay' = OnItsWay - 1 \/ OnItsWay' = 0  BY <1>1, <2>7, <2>8
    <3>2. QED  BY <1>1, <1>2, <1>4, <1>9, <2>6, <3>1
  <2>9. CASE issued # <<>>
    BY <1>1, <1>2, <1>3, <1>4, <1>5, <1>6, <1>9, <2>6, <2>7, <2>9
  <2>10. QED  BY <2>8, <2>9
<1>12. QED  BY <1>10, <1>11

(* Around a ring of e rows the c from t on are in use, up to h.             *)
Segment(e, t, h, c) ==
  /\ e \in Nat \ {0} /\ t \in 0 .. e - 1 /\ h \in 0 .. e - 1 /\ c \in 0 .. e
  /\ IF c = e THEN h = t ELSE Steps(e, t, h) = c

(* One row is entered at h (u), one is taken from t (g).                    *)
LEMMA SegmentMoves ==
  ASSUME NEW e, NEW t, NEW h, NEW c, Segment(e, t, h, c),
         NEW u \in {0, 1}, NEW g \in {0, 1}, u = 1 => c < e, g = 1 => c > 0
  PROVE  /\ Segment(e, After(e, t, g), After(e, h, u), c + u - g)
         /\ \A r \in 0 .. e - 1 :
              Steps(e, After(e, t, g), r) < c + u - g
                <=> \/ u = 1 /\ r = h
                    \/ ~(g = 1 /\ r = t) /\ Steps(e, t, r) < c
<1>1. CASE u = 0 /\ g = 0  BY <1>1 DEF Segment, Steps, After
<1>2. CASE u = 0 /\ g = 1  BY <1>2 DEF Segment, Steps, After
<1>3. CASE u = 1 /\ g = 0  BY <1>3 DEF Segment, Steps, After
<1>4. CASE u = 1 /\ g = 1  BY <1>4 DEF Segment, Steps, After
<1>5. QED  BY <1>1, <1>2, <1>3, <1>4

(* A station that keeps the order: a free row so far ahead of the head       *)
(* leaves room for everything before it.                                    *)
LEMMA RingStep ==
  ASSUME IInv, station.linear, NEW issued, NEW entry, NEW taken, Moves(issued, entry, taken)
  PROVE  RoomInRing' /\ Shape'
<1> DEFINE e == station.entries
           u == One(entry)
           g == IF taken = {} THEN 0 ELSE 1
<1>1. /\ OnItsWay \in Nat /\ u \in {0, 1} /\ OnItsWay' \in Nat
      /\ station' \in Stations /\ station' = station
      /\ issued = <<>> => OnItsWay' = OnItsWay - u
      /\ stages(station) = 0 => OnItsWay' = 0
      /\ issued # <<>> /\ stages(station) > 0
           => OnItsWay' = OnItsWay - u + 1 /\ OnItsWay' <= stages(station)
      /\ entry # <<>> => OnItsWay >= 1 \/ (can_insert /\ stages(station) = 0)
  BY OnItsWayStep
<1>2. Shape /\ RoomInRing  BY DEF IInv
<1>3. PICK c \in 0 .. e : RingOf(c) /\ c + OnItsWay <= e  BY <1>2 DEF RoomInRing
<1>4. /\ e \in Nat \ {0} /\ Row = 0 .. e - 1 /\ head_r \in 0 .. e - 1 /\ tail_r \in 0 .. e - 1
      /\ stages(station) \in Nat /\ stages(station) < e
  BY <1>2, StationParts DEF Shape, Row
<1>5. /\ IF c = e THEN head_r = tail_r ELSE FromTail(head_r) = c
      /\ \A r \in Row : rows[r] # <<>> <=> FromTail(r) < c
  BY <1>3 DEF RingOf
<1>6. can_insert => c + stages(station) < e
  <2>1. SUFFICES ASSUME can_insert PROVE c + stages(station) < e  OBVIOUS
  <2> DEFINE n == stages(station)
             q == IF head_r + n >= e THEN head_r + n - e ELSE head_r + n
  <2>2. q \in Row /\ rows[q] = <<>>
    BY <1>2, <1>4, <2>1, Wrap DEF can_insert, rollover_add, Shape
  <2>3. ~(FromTail(q) < c)  BY <1>5, <2>2
  <2>4. n \in Nat /\ n < e /\ c \in 0 .. e  BY <1>4
  <2> HIDE DEF n
  <2>5. IF c = e THEN head_r = tail_r ELSE Steps(e, tail_r, head_r) = c
    BY <1>5 DEF FromTail
  <2>6. ~(Steps(e, tail_r, q) < c)  BY <2>3 DEF FromTail
  <2>7. c + n < e  BY <1>4, <2>4, <2>5, <2>6 DEF Steps
  <2>8. QED  BY <2>7 DEF n
<1>7. u = 1 <=> entry # <<>>  BY DEF One
<1>8. u = 1 => c < e  BY <1>1, <1>3, <1>4, <1>6, <1>7
<1>9. g = 1 => taken = {tail_r} /\ c > 0
  <2>1. SUFFICES ASSUME taken # {} PROVE taken = {tail_r} /\ c > 0  OBVIOUS
  <2>2. PICK r \in Gettable : taken = {r}  BY <2>1 DEF Moves
  <2>3. r = tail_r /\ rows[r] # <<>>  BY <2>2 DEF Gettable, Ready
  <2>4. FromTail(tail_r) < c  BY <1>4, <1>5, <2>3
  <2>5. QED  BY <1>4, <2>2, <2>3, <2>4 DEF FromTail, Steps
<1>10. head_r' = After(e, head_r, u) /\ tail_r' = After(e, tail_r, g)
  <2>1. After(e, head_r, 0) = head_r /\ After(e, tail_r, 0) = tail_r  BY <1>4 DEF After
  <2>2. \A r : rollover_add(r, 1) = After(e, r, 1)  BY DEF rollover_add, After
  <2>3. QED  BY <1>1, <1>7, <2>1, <2>2 DEF Moves
<1>11. /\ DOMAIN rows' = Row
       /\ \A r \in Row : rows'[r] = <<>> <=> IF u = 1 /\ r = head_r THEN FALSE
                                             ELSE r \in taken \/ rows[r] = <<>>
  BY <1>7 DEF Moves, InsertRow
<1>12. g \in {0, 1} /\ (g = 0 => taken = {})  OBVIOUS
<1>13. Segment(e, tail_r, head_r, c)  BY <1>3, <1>4, <1>5 DEF FromTail, Segment
<1> HIDE DEF u, g, e
<1>14. /\ Segment(e, tail_r', head_r', c + u - g)
       /\ \A r \in 0 .. e - 1 :
            Steps(e, tail_r', r) < c + u - g
              <=> \/ u = 1 /\ r = head_r
                  \/ ~(g = 1 /\ r = tail_r) /\ Steps(e, tail_r, r) < c
  <2>1. u \in {0, 1} /\ g \in {0, 1}  BY <1>1, <1>12
  <2>2. (u = 1 => c < e) /\ (g = 1 => c > 0)  BY <1>8, <1>9
  <2>3. /\ Segment(e, After(e, tail_r, g), After(e, head_r, u), c + u - g)
        /\ \A r \in 0 .. e - 1 :
             Steps(e, After(e, tail_r, g), r) < c + u - g
               <=> \/ u = 1 /\ r = head_r
                   \/ ~(g = 1 /\ r = tail_r) /\ Steps(e, tail_r, r) < c
    BY <1>13, <2>1, <2>2, SegmentMoves
  <2>4. QED  BY <1>10, <2>3
<1>15. Row' = Row /\ station'.entries = e
  BY <1>1 DEF Row, e
<1>16. Shape'  BY <1>1, <1>4, <1>11, <1>14, <1>15 DEF Shape, Segment, e
<1>17. \A r : FromTail(r)' = Steps(e, tail_r', r)  BY <1>15 DEF FromTail, Steps
<1>18. RingOf(c + u - g)'
  <2>1. ASSUME NEW r \in Row
        PROVE  rows'[r] # <<>> <=> FromTail(r)' < c + u - g
    <3>1. rows'[r] # <<>> <=> \/ u = 1 /\ r = head_r
                              \/ ~(g = 1 /\ r = tail_r) /\ rows[r] # <<>>
      BY <1>9, <1>11, <1>12
    <3>2. rows[r] # <<>> <=> Steps(e, tail_r, r) < c  BY <1>5 DEF FromTail, e
    <3>3. QED  BY <1>4, <1>14, <1>17, <3>1, <3>2
  <2>2. c + u - g \in 0 .. e  BY <1>14 DEF Segment
  <2>3. IF c + u - g = e THEN head_r' = tail_r' ELSE FromTail(head_r)' = c + u - g
    BY <1>14, <1>17 DEF Segment
  <2>4. QED  BY <1>15, <2>1, <2>2, <2>3 DEF RingOf
<1>19. c + u - g + OnItsWay' <= e
  <2> DEFINE w == OnItsWay'
             n == stages(station)
  <2>1. w \in Nat /\ n \in Nat /\ e \in Nat /\ c \in Nat  BY <1>1, <1>3, <1>4 DEF e
  <2>2. CASE issued = <<>>
    <3>1. w = OnItsWay - u /\ OnItsWay \in Nat  BY <1>1, <2>2
    <3> HIDE DEF w
    <3>2. QED  BY <1>1, <1>3, <1>12, <2>1, <3>1 DEF w
  <2>3. CASE issued # <<>>
    <3>1. c + n < e  BY <1>6, <2>3 DEF Moves
    <3>2. w <= n
      <4>1. CASE n = 0  BY <1>1, <4>1
      <4>2. CASE n > 0  BY <1>1, <2>3, <4>2
      <4>3. QED  BY <2>1, <4>1, <4>2
    <3>3. u \in {0, 1} /\ g \in {0, 1}  BY <1>1, <1>12
    <3> HIDE DEF w, n
    <3>4. c + u - g + w <= e  BY <2>1, <3>1, <3>2, <3>3
    <3>5. QED  BY <3>4 DEF w
  <2>4. QED  BY <2>2, <2>3
<1>20. /\ c + u - g \in 0 .. station'.entries
       /\ RingOf(c + u - g)' /\ c + u - g + OnItsWay' <= station'.entries
  BY <1>14, <1>15, <1>18, <1>19 DEF Segment
<1>21. QED  BY <1>16, <1>20 DEF RoomInRing

-----------------------------------------------------------------------------
(* The rows are empty, and nothing is on its way.                           *)
LEMMA InitHasRoom == ASSUME Init PROVE IInv
<1>1. /\ station \in Stations
      /\ instructions_for_rs = <<>> /\ inst_in_f = <<>>
      /\ rows = [r \in Row |-> <<>>] /\ head_r = 0 /\ tail_r = 0
  BY DEF Init
<1>2. station.entries \in Nat \ {0} /\ Row = 0 .. station.entries - 1
  BY <1>1, StationParts DEF Row
<1>3. Shape  BY <1>1, <1>2 DEF Shape
<1>4. Stages  BY <1>1 DEF Stages
<1>5. OnItsWay = 0  BY <1>1 DEF OnItsWay, One
<1>6. RoomInRing
  <2>1. FromTail(head_r) = 0  BY <1>1, <1>2 DEF FromTail, Steps
  <2>2. \A r \in Row : rows[r] = <<>> /\ ~(FromTail(r) < 0)
    BY <1>1, <1>2 DEF FromTail, Steps
  <2>3. RingOf(0)  BY <1>2, <2>1, <2>2 DEF RingOf
  <2>4. 0 \in 0 .. station.entries /\ 0 + OnItsWay <= station.entries  BY <1>2, <1>5
  <2>5. QED  BY <2>3, <2>4 DEF RoomInRing
<1>7. OnItsWay <= Cardinality(Free)  BY <1>3, <1>5, FreeIsFinite
<1>8. QED  BY <1>3, <1>4, <1>6, <1>7 DEF IInv

(* A cycle keeps the room.                                                  *)
LEMMA NextKeepsRoom == ASSUME IInv, [Next]_vars PROVE IInv'
<1>1. CASE Next
  <2>1. PICK issued, entry, taken : Moves(issued, entry, taken)  BY <1>1, NextMoves
  <2>2. station' = station /\ station' \in Stations /\ Stages'  BY <2>1, OnItsWayStep
  <2>3. CASE station.linear
    <3>1. RoomInRing' /\ Shape'  BY <2>1, <2>3, RingStep
    <3>2. QED  BY <2>2, <2>3, <3>1 DEF IInv
  <2>4. CASE ~station.linear
    <3>1. OnItsWay' <= Cardinality(Free')  BY <2>1, <2>4, FreeStep
    <3>2. Shape'
      <4>1. Row' = Row  BY <2>2 DEF Row
      <4>2. DOMAIN rows' = Row /\ head_r' = head_r /\ tail_r' = tail_r
        BY <2>1, <2>4 DEF Moves
      <4>3. QED  BY <2>2, <4>1, <4>2 DEF IInv, Shape
    <3>3. QED  BY <2>2, <2>4, <3>1, <3>2 DEF IInv
  <2>5. QED  BY <2>3, <2>4
<1>2. CASE UNCHANGED vars
  <2>1. /\ station' = station /\ rows' = rows /\ head_r' = head_r /\ tail_r' = tail_r
        /\ instructions_for_rs' = instructions_for_rs /\ inst_in_f' = inst_in_f
    BY <1>2 DEF vars
  <2>2. Row' = Row /\ Free' = Free /\ OnItsWay' = OnItsWay
    BY <2>1 DEF Row, Free, OnItsWay
  <2>3. RoomInRing' <=> RoomInRing
    BY <2>1, <2>2 DEF RoomInRing, RingOf, FromTail
  <2>4. QED  BY <2>1, <2>2, <2>3 DEF IInv, Shape, Stages
<1>3. QED  BY <1>1, <1>2

(* With room for what is on its way, the row it is entered into is free.    *)
LEMMA RoomIsEnough == ASSUME IInv PROVE NoOverflow
<1> DEFINE next == IF station.RS_LATCH_INPUT = 1 THEN inst_in_f ELSE instructions_for_rs
<1>1. SUFFICES ASSUME next # <<>>, NEW r \in InsertRow PROVE rows[r] = <<>>
  BY DEF NoOverflow
<1>2. OnItsWay >= 1 /\ OnItsWay \in Nat  BY <1>1 DEF OnItsWay, One
<1>3. Shape  BY DEF IInv
<1>4. CASE station.linear
  <2>1. PICK c \in 0 .. station.entries : RingOf(c) /\ c + OnItsWay <= station.entries
    BY <1>4 DEF IInv, RoomInRing
  <2>2. station.entries \in Nat  BY <1>3, StationParts DEF Shape
  <2>3. c # station.entries /\ c \in Nat  BY <1>2, <2>1, <2>2
  <2>4. FromTail(head_r) = c /\ (rows[head_r] # <<>> <=> FromTail(head_r) < c)
    BY <1>3, <2>1, <2>3 DEF RingOf, Shape
  <2>5. r = head_r  BY <1>1, <1>4 DEF InsertRow
  <2>6. QED  BY <2>3, <2>4, <2>5
<1>5. CASE ~station.linear
  <2>1. OnItsWay <= Cardinality(Free) /\ Cardinality(Free) \in Nat
    BY <1>3, <1>5, FreeIsFinite DEF IInv
  <2>2. Free # {}  BY <1>2, <2>1, FS_EmptySet
  <2>3. r \in Free  BY <1>1, <1>5, <2>2 DEF InsertRow, First
  <2>4. QED  BY <2>3 DEF Free
<1>6. QED  BY <1>4, <1>5

(* In every behaviour the rows have room for what is on its way: free rows  *)
(* of a station without order, and rows from the head on of a linear one,   *)
(* whose rows in use are the ones from tail_r up to head_r.                 *)
THEOREM RoomForWhatComes == Spec => []IInv
<1>1. Init => IInv  BY InitHasRoom
<1>2. IInv /\ [Next]_vars => IInv'  BY NextKeepsRoom
<1>3. QED  BY <1>1, <1>2, PTL DEF Spec

(* can_insert, answered in the cycle of issue, is right for the cycle of    *)
(* entry: no instruction is entered into a row that is in use, in a station *)
(* of either kind and any size, however many registers are in front of it.  *)
THEOREM NothingOverwritten == Spec => []NoOverflow
<1>1. IInv => NoOverflow  BY RoomIsEnough
<1>2. QED  BY <1>1, RoomForWhatComes, PTL
-----------------------------------------------------------------------------
(* Types.                                                                   *)
LEMMA Maybe == \A m : m \in MaybeInst <=> m = <<>> \/ \E i \in InstType : m = <<i>>
<1>1. 0 .. 1 = {0, 1} /\ 1 .. 0 = {} /\ 1 .. 1 = {1}  OBVIOUS
<1>2. MaybeInst = [{} -> InstType] \cup [{1} -> InstType]  BY <1>1 DEF MaybeInst
<1>3. \A m : m \in [{} -> InstType] <=> m = <<>>
  <2>1. <<>> \in Seq(InstType) /\ Len(<<>>) = 0  BY EmptySeq
  <2>2. <<>> \in [{} -> InstType]  BY <1>1, <2>1, LenProperties
  <2>3. \A f, g \in [{} -> InstType] : f = g  OBVIOUS
  <2>4. QED  BY <2>2, <2>3
<1>4. \A m : m \in [{1} -> InstType] <=> \E i \in InstType : m = <<i>>
  <2>1. ASSUME NEW m \in [{1} -> InstType] PROVE \E i \in InstType : m = <<i>>
    <3>1. m = <<m[1]>>  OBVIOUS
    <3>2. QED  BY <3>1
  <2>2. ASSUME NEW i \in InstType PROVE <<i>> \in [{1} -> InstType]
    <3>1. <<i>> = [x \in {1} |-> i]  OBVIOUS
    <3>2. QED  BY <3>1
  <2>3. QED  BY <2>1, <2>2
<1>5. QED  BY <1>2, <1>3, <1>4

LEMMA Numbers ==
  /\ ROBDEPTH \in Nat \ {0} /\ Committed \in Nat
  /\ \A x \in Nat : x % (2 * ROBDEPTH) \in Number /\ x % ROBDEPTH \in Tag
  /\ Tag \subseteq Number /\ Number \subseteq Nat
<1>1. ROBDEPTH \in Nat \ {0}  BY SizeAssumption
<1>2. ASSUME NEW x \in Nat, NEW d \in Nat \ {0} PROVE x % d \in 0 .. d - 1  OBVIOUS
<1>3. 2 * ROBDEPTH \in Nat \ {0}  BY <1>1
<1>4. QED  BY <1>1, <1>2, <1>3 DEF Number, Tag, Committed

(* The largest number of instructions that can commit is one.               *)
LEMMA Greatest ==
  ASSUME NEW N \in Nat, NEW P, P \subseteq 0 .. N, 0 \in P
  PROVE  \E n \in P : \A m \in n + 1 .. N : m \notin P
<1> DEFINE R == OpToRel(<, Nat)
           S == {k \in 0 .. N : N - k \in P}
<1>1. IsWellFoundedOn(R, Nat)  BY NatLessThanWellFounded
<1>2. \A x, y \in Nat : y < x => <<y, x>> \in R  BY DEF OpToRel
<1>3. S \subseteq Nat /\ N \in S  OBVIOUS
<1> HIDE DEF R
<1>4. PICK x \in S : \A y \in S : ~(<<y, x>> \in R)  BY <1>1, <1>3, WFMin
<1>5. x \in 0 .. N /\ N - x \in P  OBVIOUS
<1>6. ASSUME NEW m \in N - x + 1 .. N, m \in P PROVE FALSE
  <2>1. N - m \in 0 .. N /\ N - (N - m) = m /\ N - m < x  BY <1>5, <1>6
  <2>2. N - m \in S  BY <1>6, <2>1
  <2>3. N - m \in Nat /\ x \in Nat  BY <1>5, <2>1
  <2>4. QED  BY <1>2, <1>4, <2>1, <2>2, <2>3
<1>7. QED  BY <1>5, <1>6

LEMMA CommitsType == ASSUME free \in 0 .. ROBDEPTH PROVE Commits \in 0 .. ROBDEPTH - free
<1> DEFINE N == ROBDEPTH - free
           P == {n \in 0 .. N : Committable(n)}
           Q(n) == Committable(n) /\ \A m \in n + 1 .. N : ~Committable(m)
<1>1. ROBDEPTH \in Nat /\ N \in Nat  BY SizeAssumption
<1>2. 0 \in P  BY <1>1 DEF Committable
<1>3. \E n \in P : \A m \in n + 1 .. N : m \notin P
  <2> HIDE DEF P, N
  <2>1. P \subseteq 0 .. N  BY DEF P
  <2>2. QED  BY <1>1, <1>2, <2>1, Greatest
<1>4. \E n \in 0 .. N : Q(n)  
  <2>1. PICK n \in P : \A m \in n + 1 .. N : m \notin P  BY <1>3
  <2>2. \A m \in n + 1 .. N : m \in 0 .. N  BY <1>1, <2>1
  <2>3. QED  BY <2>1, <2>2
<1>5. (CHOOSE n \in 0 .. N : Q(n)) \in 0 .. N
  <2> HIDE DEF Q, N
  <2>1. QED  BY <1>4
<1>6. QED  BY <1>5 DEF Commits

(* One of a set of instructions, or none.                                   *)
LEMMA AsMaybeType == ASSUME NEW S, S \subseteq InstType PROVE AsMaybe(S) \in MaybeInst
<1>1. CASE S = {}  BY <1>1, Maybe DEF AsMaybe
<1>2. CASE S # {}
  <2>1. (CHOOSE x \in S : TRUE) \in S  BY <1>2
  <2>2. QED  BY <1>2, <2>1, Maybe DEF AsMaybe
<1>3. QED  BY <1>1, <1>2

(* What is issued.                                                          *)
LEMMA BundleType ==
  ASSUME NEW b \in Bundles
  PROVE  /\ Len(b) \in Nat /\ DOMAIN b = 1 .. Len(b)
         /\ \A k \in DOMAIN b : b[k] \in {"station", "unit"}
<1>1. PICK k \in 0 .. ISSUEWIDTH : b \in [1 .. k -> {"station", "unit"}]  BY DEF Bundles
<1>2. k \in Nat  BY <1>1, SizeAssumption
<1>3. b \in Seq({"station", "unit"}) /\ Len(b) = k  BY <1>1, <1>2
<1>4. QED  BY <1>1, <1>2, <1>3

LEMMA SourcesType ==
  ASSUME TypeOK, NEW b \in Bundles, NEW src \in Sources(b)
  PROVE  /\ \A k \in DOMAIN b : number(k) \in Number
         /\ src \in [Source -> Number \cup {Committed}]
<1>1. rob_idx \in Nat  BY Numbers DEF TypeOK
<1>2. ASSUME NEW k \in DOMAIN b PROVE number(k) \in Number
  <2>1. k \in Nat \ {0}  BY BundleType
  <2>2. rob_idx + k - 1 \in Nat  BY <1>1, <2>1
  <2>3. QED  BY <2>2, Numbers DEF number
<1>3. Dependencies(b) \subseteq Number \cup {Committed}
  BY <1>2 DEF Dependencies, InFlight
<1>4. QED  BY <1>2, <1>3 DEF Sources

LEMMA IssuedType ==
  ASSUME TypeOK, NEW b \in Bundles, NEW src \in Sources(b), NEW results
  PROVE  AsMaybe(map_to_issued(b, src, results)) \in MaybeInst
<1>1. ASSUME NEW s \in Number \cup {Committed}
      PROVE  gather_operand(s, results) \in OperandType
  <2>1. s \in Nat  BY <1>1, Numbers
  <2>2. tag(s) \in Number  BY <2>1, Numbers DEF tag
  <2>3. QED  BY <1>1, <2>2 DEF gather_operand, OperandType
<1>2. ASSUME NEW k \in here(b)
      PROVE  [n |-> number(k), rs |-> [j \in Source |-> gather_operand(src[j], results)]] \in InstType
  <2>1. number(k) \in Number  BY SourcesType DEF here
  <2>2. \A j \in Source : src[j] \in Number \cup {Committed}  BY SourcesType
  <2>3. [j \in Source |-> gather_operand(src[j], results)] \in [Source -> OperandType]
    BY <1>1, <2>2
  <2>4. QED  BY <2>1, <2>3 DEF InstType
<1>3. map_to_issued(b, src, results) \subseteq InstType  BY <1>2 DEF map_to_issued
<1>4. QED  BY <1>3, AsMaybeType

(* What a row becomes when it has seen the bus.                             *)
LEMMA ConsumeType ==
  ASSUME NEW row \in MaybeInst, NEW bus, bus \subseteq Number
  PROVE  consume_result_bus(row, bus) \in MaybeInst
<1>1. CASE row = <<>>  BY <1>1, Maybe DEF consume_result_bus
<1>2. CASE row # <<>>
  <2>1. PICK i \in InstType : row = <<i>>  BY <1>2, Maybe
  <2> DEFINE w(k) == IF Matching(i.rs[k], bus) = {} THEN i.rs[k]
                     ELSE [ready |-> TRUE, n |-> CHOOSE s \in Matching(i.rs[k], bus) : TRUE]
  <2>2. i.n \in Number /\ i.rs \in [Source -> OperandType] /\ i = [n |-> i.n, rs |-> i.rs]
    BY DEF InstType
  <2>3. ASSUME NEW k \in Source PROVE w(k) \in OperandType
    <3> DEFINE M == Matching(i.rs[k], bus)
    <3>1. M \subseteq Number  BY DEF Matching
    <3>2. CASE M = {}  BY <2>2, <3>2
    <3>3. CASE M # {}
      <4> HIDE DEF M
      <4>1. (CHOOSE s \in M : TRUE) \in Number  BY <3>1, <3>3
      <4>2. [ready |-> TRUE, n |-> CHOOSE s \in M : TRUE] \in OperandType
        BY <4>1 DEF OperandType
      <4>3. QED  BY <3>3, <4>2 DEF M
    <3>4. QED  BY <3>2, <3>3
  <2>4. consume_result_bus(row, bus) = <<[n |-> i.n, rs |-> [k \in Source |-> w(k)]]>>
    <3>1. row[1] = i  BY <2>1
    <3>2. consume_result_bus(row, bus) = <<[i EXCEPT !.rs = [k \in Source |-> w(k)]]>>
      BY <1>2, <3>1 DEF consume_result_bus
    <3> HIDE DEF w
    <3>3. [i EXCEPT !.rs = [k \in Source |-> w(k)]] = [n |-> i.n, rs |-> [k \in Source |-> w(k)]]
      BY <2>2
    <3>4. QED  BY <3>2, <3>3
  <2> HIDE DEF w
  <2>5. [n |-> i.n, rs |-> [k \in Source |-> w(k)]] \in InstType
    BY <2>2, <2>3 DEF InstType
  <2>6. QED  BY <2>4, <2>5, Maybe
<1>3. QED  BY <1>1, <1>2

(* The registers after a cycle.                                             *)
LEMMA CycleTypes ==
  ASSUME TypeOK, IInv, NEW b \in Bundles, Len(b) <= free, NEW src \in Sources(b),
         NEW results \in SUBSET Results, NEW taken \in {{}} \cup {{r} : r \in Gettable},
         Cycle(b, src, results, taken), IInv'
  PROVE  TypeOK'
<1> DEFINE issued == AsMaybe(map_to_issued(b, src, results))
           entry  == inserted(issued)
           bus    == result_bus(results)
<1>1. issued \in MaybeInst /\ put(issued) \in MaybeInst /\ entry \in MaybeInst
  BY IssuedType DEF put, inserted, TypeOK
<1>2. results \subseteq Number /\ bus_in(results) \subseteq Number /\ bus \subseteq Number
  BY DEF Results, InFlight, bus_in, result_bus, TypeOK
<1>3. <<>> \in MaybeInst  BY Maybe
<1>4. taken \subseteq Row /\ \A r \in taken : rows[r] # <<>> /\ rows[r] \in MaybeInst
  BY DEF Gettable, First, Ready, TypeOK
<1> HIDE DEF issued, entry, bus
<1>5. station' = station /\ Row' = Row  BY DEF Cycle, Row
<1>6. rob_idx' \in Number /\ free' \in 0 .. ROBDEPTH
  <2>1. rob_idx' = (rob_idx + Len(b)) % (2 * ROBDEPTH) /\ free' = free + Commits - Len(b)
    BY DEF Cycle
  <2>2. Len(b) \in Nat  BY BundleType
  <2>3. rob_idx + Len(b) \in Nat  BY <2>2, Numbers DEF TypeOK
  <2>4. free \in 0 .. ROBDEPTH  BY DEF TypeOK
  <2>5. Commits \in 0 .. ROBDEPTH - free  BY <2>4, CommitsType
  <2>6. \A d, f, c, l \in Nat : f <= d /\ c <= d - f /\ l <= f => f + c - l \in 0 .. d
    OBVIOUS
  <2>7. /\ ROBDEPTH \in Nat /\ free \in Nat /\ Commits \in Nat
        /\ free <= ROBDEPTH /\ Commits <= ROBDEPTH - free
    BY <2>4, <2>5, SizeAssumption
  <2>8. free' \in 0 .. ROBDEPTH  BY <2>1, <2>2, <2>6, <2>7
  <2>9. QED  BY <2>1, <2>3, <2>8, Numbers
<1>7. where' \in [Tag -> {"station", "unit", "done"}]
  <2>1. \A t \in Tag : position(t) \in DOMAIN b => b[position(t)] \in {"station", "unit"}
    BY BundleType
  <2>2. where \in [Tag -> {"station", "unit", "done"}]  BY DEF TypeOK
  <2>3. QED  BY <2>1, <2>2 DEF Cycle
<1>8. sources' \in [Tag -> [Source -> Number \cup {Committed}]]
  <2>1. src \in [Source -> Number \cup {Committed}]  BY SourcesType
  <2>2. [k \in Source |-> Committed] \in [Source -> Number \cup {Committed}]  OBVIOUS
  <2>3. sources \in [Tag -> [Source -> Number \cup {Committed}]]  BY DEF TypeOK
  <2>4. QED  BY <2>1, <2>2, <2>3 DEF Cycle
<1>9. instructions_for_rs' \in MaybeInst /\ inst_in_f' \in MaybeInst
  BY <1>1, <1>3 DEF Cycle, issued
<1>10. rows' \in [Row -> MaybeInst]
  <2>1. PICK row \in InsertRow :
          rows' = [r \in Row |-> IF entry # <<>> /\ r = row THEN entry
                                 ELSE IF r \in taken THEN <<>>
                                 ELSE consume_result_bus(rows[r], bus)]
    BY DEF Cycle, entry, issued, bus
  <2>2. \A r \in Row : consume_result_bus(rows[r], bus) \in MaybeInst
    BY <1>2, ConsumeType DEF TypeOK
  <2>3. QED  BY <1>1, <1>3, <2>1, <2>2
<1>11. station_bus' \subseteq Number /\ row_bus' \subseteq Number
  BY <1>2 DEF Cycle
<1>12. given' \in MaybeInst
  <2>1. \A r \in taken : rows[r][1] \in InstType
    <3>1. \A m \in MaybeInst : m # <<>> => m[1] \in InstType  BY Maybe
    <3>2. QED  BY <1>4, <3>1
  <2>2. {rows[r][1] : r \in taken} \subseteq InstType  BY <2>1
  <2>3. QED  BY <2>2, AsMaybeType DEF Cycle
<1>13. station' \in Stations /\ head_r' \in Row' /\ tail_r' \in Row'  BY DEF IInv, Shape
<1>14. QED
  BY <1>5, <1>6, <1>7, <1>8, <1>9, <1>10, <1>11, <1>12, <1>13 DEF TypeOK

(* The state has its type, for stations of either kind and any size, and     *)
(* for any width and depth of the core.                                     *)
THEOREM TypeCorrect == Spec => []TypeOK
<1>1. Init => TypeOK
  <2>1. SUFFICES ASSUME Init PROVE TypeOK  OBVIOUS
  <2>2. IInv /\ <<>> \in MaybeInst /\ Committed \in Nat  BY <2>1, InitHasRoom, Maybe, Numbers
  <2>3. 0 \in Number /\ ROBDEPTH \in 0 .. ROBDEPTH  BY Numbers DEF Number
  <2>4. QED  BY <2>1, <2>2, <2>3 DEF Init, TypeOK, IInv, Shape
<1>2. TypeOK /\ IInv /\ IInv' /\ [Next]_vars => TypeOK'
  <2> SUFFICES ASSUME TypeOK, IInv, IInv', [Next]_vars PROVE TypeOK'  OBVIOUS
  <2>1. CASE Next
    <3>1. PICK results \in SUBSET Results, taken \in {{}} \cup {{r} : r \in Gettable} :
             Anything(results, taken)
      BY <2>1 DEF Next
    <3>2. PICK b \in Bundles : /\ Len(b) <= free
                               /\ \E src \in Sources(b) : Cycle(b, src, results, taken)
      BY <3>1 DEF Anything
    <3>3. PICK src \in Sources(b) : Cycle(b, src, results, taken)  BY <3>2
    <3>4. QED  BY <3>2, <3>3, CycleTypes
  <2>2. CASE UNCHANGED vars
    BY <2>2 DEF vars, inflight, TypeOK, Row
  <2>3. QED  BY <2>1, <2>2
<1>3. QED  BY <1>1, <1>2, RoomForWhatComes, PTL DEF Spec
=============================================================================
