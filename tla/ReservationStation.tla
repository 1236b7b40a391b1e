-------------------------- MODULE ReservationStation --------------------------
(***************************************************************************)
(* A reservation station between issue and a unit: its rows, its optional  *)
(* registers at the input (RS_LATCH_INPUT) and the ones in issue           *)
(* (SPLIT_ISSUE_STAGE), and the result bus it listens to.  There are two    *)
(* kinds: mkReservationStation_simple gives out any instruction that has    *)
(* its operands, mkLinearReservationStation_simple keeps the order.         *)
(*                                                                         *)
(* A step is one clock cycle.  The instructions in flight are those of a   *)
(* reorder buffer of ROBDEPTH rows; they are numbered modulo 2 * ROBDEPTH, *)
(* their tags are the numbers modulo ROBDEPTH, and the value an instruction *)
(* computes is its number.                                                 *)
(***************************************************************************)
EXTENDS Naturals, Sequences, FiniteSets

CONSTANTS
  ROBDEPTH,     (* instructions in flight                                  *)
  ISSUEWIDTH,   (* instructions issued in a cycle                          *)
  Source,       (* the operands of an instruction                          *)
  Stations      (* the stations looked at, one in each behaviour           *)

StationType == [linear : BOOLEAN, entries : Nat \ {0},
                RS_LATCH_INPUT : 0 .. 1, SPLIT_ISSUE_STAGE : 0 .. 1]

stages(s) == s.RS_LATCH_INPUT + s.SPLIT_ISSUE_STAGE

ASSUME SizeAssumption    == ROBDEPTH \in Nat \ {0} /\ ISSUEWIDTH \in Nat \ {0}
ASSUME StationAssumption == /\ Stations \subseteq StationType
                            /\ \A s \in Stations : s.entries > stages(s)

VARIABLES
  station,          (* how the station is built                            *)
  (* what is in flight *)
  rob_idx,          (* the number of the next instruction                  *)
  free,             (* free rows of the reorder buffer                     *)
  where,            (* by tag, where an instruction is                     *)
  sources,          (* by tag, the instructions it depends upon            *)
  (* issue, the bus and the station *)
  instructions_for_rs,   (* the register behind issue                      *)
  inst_in_f,             (* the FIFO at the station's input                *)
  rows, head_r, tail_r,  (* the pointers are those of a linear station     *)
  station_bus, row_bus,  (* the registers of the result bus                *)
  (* the unit *)
  given             (* what the unit was given in the last cycle           *)

inflight == <<rob_idx, free, where, sources>>
vars     == <<station, inflight, instructions_for_rs, inst_in_f, rows, head_r, tail_r,
              station_bus, row_bus, given>>

Number    == 0 .. 2 * ROBDEPTH - 1
Tag       == 0 .. ROBDEPTH - 1
Committed == 2 * ROBDEPTH           (* stands for an instruction long gone *)
Row       == 0 .. station.entries - 1

tag(n)    == n % ROBDEPTH
Age(n)    == (rob_idx + 2 * ROBDEPTH - n) % (2 * ROBDEPTH)
InFlight  == {n \in Number : 1 <= Age(n) /\ Age(n) <= ROBDEPTH - free}

(* An operand is a value, or the tag of the instruction that computes it.   *)
OperandType == [ready : BOOLEAN, n : Number \cup {Committed}]
InstType    == [n : Number, rs : [Source -> OperandType]]
MaybeInst   == UNION {[1 .. k -> InstType] : k \in 0 .. 1}

Init ==
  /\ station \in Stations
  /\ rob_idx = 0 /\ free = ROBDEPTH
  /\ where   = [t \in Tag |-> "done"]
  /\ sources = [t \in Tag |-> [k \in Source |-> Committed]]
  /\ instructions_for_rs = <<>> /\ inst_in_f = <<>>
  /\ rows = [r \in Row |-> <<>>] /\ head_r = 0 /\ tail_r = 0
  /\ station_bus = {} /\ row_bus = {}
  /\ given = <<>>

-----------------------------------------------------------------------------
(* The rows: full, with all operands, free.                                 *)
ready(i)  == \A k \in Source : i.rs[k].ready
Ready     == {r \in Row : rows[r] # <<>> /\ ready(rows[r][1])}
Free      == {r \in Row : rows[r] = <<>>}
First(S)  == {r \in S : \A q \in S : r <= q}

(* Mutant of rollover_add: does not wrap.                                   *)
rollover_add_unwrapped(r, n) == IF r + n > station.entries THEN 0 ELSE r + n

rollover_add(r, n) == IF r + n >= station.entries THEN r + n - station.entries ELSE r + n

(* Mutant of can_insert: does not look ahead.                               *)
can_insert_now ==
  IF station.linear THEN rows[head_r] = <<>> ELSE Free # {}

(* The instructions in the registers between issue and the rows will need   *)
(* a row each.                                                              *)
can_insert ==
  IF station.linear
  THEN rows[rollover_add(head_r, stages(station))] = <<>>
  ELSE Cardinality(Free) > stages(station)

(* Mutant of Gettable: a linear station gives out any instruction.          *)
Gettable_unordered == First(Ready)

(* The row that get takes from.                                             *)
Gettable == IF station.linear THEN Ready \cap {tail_r} ELSE First(Ready)

(* The row an instruction is put into.  Without a free one the index of the *)
(* other kind is undefined.                                                 *)
InsertRow == CASE station.linear -> {head_r}
               [] ~station.linear /\ Free # {} -> First(Free)
               [] OTHER -> Row

-----------------------------------------------------------------------------
(* The mask of instructions issued in a cycle is a prefix of at most        *)
(* ISSUEWIDTH; a station gets at most one of them.  The others go elsewhere.*)
Bundles == {b \in UNION {[1 .. k -> {"station", "unit"}] : k \in 0 .. ISSUEWIDTH} :
              \A i, j \in DOMAIN b : b[i] = "station" /\ b[j] = "station" => i = j}

number(k)   == (rob_idx + k - 1) % (2 * ROBDEPTH)
position(t) == 1 + ((t + ROBDEPTH - tag(rob_idx)) % ROBDEPTH)    (* in the bundle *)
here(b)     == {k \in DOMAIN b : b[k] = "station"}

(* The register files know the values of what is done, which includes the   *)
(* results on the bus, and the tags of the rest.                            *)
gather_operand(s, results) ==
  IF s = Committed \/ s \in results \/ (s \in InFlight /\ where[tag(s)] = "done")
  THEN [ready |-> TRUE, n |-> s] ELSE [ready |-> FALSE, n |-> tag(s)]

map_to_issued(b, src, results) ==
  {[n |-> number(k), rs |-> [j \in Source |-> gather_operand(src[j], results)]] : k \in here(b)}

(* What an instruction can depend upon: what is not done, what goes before  *)
(* it in its bundle, and anything older.                                    *)
Dependencies(b) ==
  {Committed} \cup {n \in InFlight : where[tag(n)] # "done"}
              \cup {number(j) : j \in {j \in DOMAIN b : \A k \in here(b) : j < k}}

-----------------------------------------------------------------------------
(* What is given away in a cycle, put into the station, entered into a row, *)
(* and the results the rows look at.                                        *)
put(issued) ==
  IF station.SPLIT_ISSUE_STAGE = 1 THEN instructions_for_rs ELSE issued

inserted(issued) ==
  IF station.RS_LATCH_INPUT = 1 THEN inst_in_f ELSE put(issued)

(* Mutant of result_bus: the rows do not latch it.                          *)
result_bus_unlatched(results) ==
  IF station.SPLIT_ISSUE_STAGE = 1 THEN station_bus ELSE results

bus_in(results) ==
  IF station.SPLIT_ISSUE_STAGE = 1 THEN station_bus ELSE results

result_bus(results) ==
  IF station.RS_LATCH_INPUT = 1 THEN row_bus ELSE bus_in(results)

(* Operands that wait for a tag take the result with this tag.              *)
Matching(o, bus) == {s \in bus : ~o.ready /\ tag(s) = o.n}

consume_result_bus(row, bus) ==
  IF row = <<>> THEN <<>>
  ELSE <<[row[1] EXCEPT !.rs = [k \in Source |->
            IF Matching(@[k], bus) = {} THEN @[k]
            ELSE [ready |-> TRUE, n |-> CHOOSE s \in Matching(@[k], bus) : TRUE]]]>>

-----------------------------------------------------------------------------
Window == [k \in 1 .. ROBDEPTH - free |->
             (rob_idx + 2 * ROBDEPTH - (ROBDEPTH - free) + k - 1) % (2 * ROBDEPTH)]

(* Commit frees the rows of the oldest that are done.  Taking all of them   *)
(* at once lets tags come back as soon as they ever can.                    *)
Committable(n) == \A k \in 1 .. n : where[tag(Window[k])] = "done"
Commits        == CHOOSE n \in 0 .. ROBDEPTH - free :
                    Committable(n) /\ \A m \in n + 1 .. ROBDEPTH - free : ~Committable(m)

Results == {n \in InFlight : where[tag(n)] = "unit"}

AsMaybe(S) == IF S = {} THEN <<>> ELSE <<CHOOSE x \in S : TRUE>>

(* A cycle: issue of the instructions b, of which the one that comes here   *)
(* has the sources src; results on the bus; get from the rows in taken,     *)
(* which are none or one.                                                   *)
Cycle(b, src, results, taken) ==
  LET issued == AsMaybe(map_to_issued(b, src, results))
      entry  == inserted(issued)
      bus    == result_bus(results)
  IN
  /\ rob_idx' = (rob_idx + Len(b)) % (2 * ROBDEPTH)
  /\ free' = free + Commits - Len(b)
  /\ where' = [t \in Tag |->
       CASE position(t) \in DOMAIN b             -> b[position(t)]
         [] t \in {tag(s) : s \in results}        -> "done"
         [] t \in {tag(rows[r][1].n) : r \in taken} -> "unit"
         [] OTHER -> where[t]]
  /\ sources' = [t \in Tag |->
       CASE position(t) \in here(b)              -> src
         [] t \in {tag(rows[r][1].n) : r \in taken} -> [k \in Source |-> Committed]
         [] OTHER -> sources[t]]
  /\ given' = AsMaybe({rows[r][1] : r \in taken})
  /\ \E row \in InsertRow :
       rows' = [r \in Row |-> IF entry # <<>> /\ r = row THEN entry
                              ELSE IF r \in taken THEN <<>>
                              ELSE consume_result_bus(rows[r], bus)]
  /\ instructions_for_rs' = IF station.SPLIT_ISSUE_STAGE = 1 THEN issued ELSE <<>>
  /\ inst_in_f' = IF station.RS_LATCH_INPUT = 1 THEN put(issued) ELSE <<>>
  /\ station_bus' = IF station.SPLIT_ISSUE_STAGE = 1 THEN results ELSE {}
  /\ row_bus' = IF station.RS_LATCH_INPUT = 1 THEN bus_in(results) ELSE {}
  /\ head_r' = IF station.linear /\ entry # <<>> THEN rollover_add(head_r, 1) ELSE head_r
  /\ tail_r' = IF station.linear /\ taken # {} THEN rollover_add(tail_r, 1) ELSE tail_r
  /\ UNCHANGED station

(* Operands are treated alike, so one order of two sources stands for both. *)
Sources(b) ==
  IF here(b) = {} THEN {[k \in Source |-> Committed]}
  ELSE {src \in [Source -> Dependencies(b)] : \A j, k \in Source : j < k => src[j] <= src[k]}

Anything(results, taken) ==
  \E b \in Bundles :
    /\ Len(b) <= free
    /\ here(b) # {} => can_insert
    /\ \E src \in Sources(b) : Cycle(b, src, results, taken)

Next == \E results \in SUBSET Results, taken \in {{}} \cup {{r} : r \in Gettable} :
          Anything(results, taken)

Spec == Init /\ [][Next]_vars

(* In the registers between issue and the rows, and on the bus.             *)
OnTheWay == {i[1].n : i \in {instructions_for_rs, inst_in_f} \ {<<>>}} \cup station_bus \cup row_bus

(* The unit takes what it is offered.                                       *)
Get == \E r \in Gettable : given' = rows[r]

(* The clock ticks, so that nothing stays in a register that is written in  *)
(* every cycle; and every unit comes to a result.                           *)
FairSpec == /\ Spec
            /\ \A n \in Number : []<>(n \notin OnTheWay)
            /\ \A t \in Tag : []<>(where[t] # "unit")
            /\ WF_given(Get)

-----------------------------------------------------------------------------
TypeOK ==
  /\ station \in Stations
  /\ rob_idx \in Number /\ free \in 0 .. ROBDEPTH
  /\ where \in [Tag -> {"station", "unit", "done"}]
  /\ sources \in [Tag -> [Source -> Number \cup {Committed}]]
  /\ instructions_for_rs \in MaybeInst /\ inst_in_f \in MaybeInst
  /\ rows \in [Row -> MaybeInst] /\ head_r \in Row /\ tail_r \in Row
  /\ station_bus \subseteq Number /\ row_bus \subseteq Number
  /\ given \in MaybeInst

(* An instruction is put into a free row, although can_insert looked at the *)
(* rows up to two cycles before: "Trying to enqueue into already full RS!   *)
(* Abort!" never happens, nor does the linear station overwrite a row.      *)
NoOverflow ==
  LET next == IF station.RS_LATCH_INPUT = 1 THEN inst_in_f ELSE instructions_for_rs
  IN  next # <<>> => \A r \in InsertRow : rows[r] = <<>>

(* Every instruction in the station.                                        *)
Contents == {n \in Number : \/ \E r \in Row : rows[r] # <<>> /\ rows[r][1].n = n
                            \/ inst_in_f # <<>> /\ inst_in_f[1].n = n
                            \/ instructions_for_rs # <<>> /\ instructions_for_rs[1].n = n}

Waiting ==
  LET s == SelectSeq(Window, LAMBDA n : n \in Contents)
  IN  [k \in 1 .. Len(s) |-> [n |-> s[k], rs |-> sources[tag(s[k])]]]

Promise == INSTANCE WaitingInstructions WITH
  linear      <- station.linear,
  outstanding <- {n \in InFlight : where[tag(n)] # "done"},
  waiting     <- Waiting,
  given       <- IF given = <<>> THEN <<>>
                 ELSE <<[n |-> given[1].n, rs |-> [k \in Source |-> given[1].rs[k].n]]>>

(* Each instruction is given to its unit once, with the values its sources  *)
(* computed, and in turn by a linear station: what is implemented by rows,  *)
(* pointers and registers is a queue or a bag of waiting instructions.      *)
GivesWhatWaits == Promise!Spec

(* An instruction does not wait for ever: no wake-up passes by on the bus   *)
(* while the instruction is in a register on its way in, and younger ones   *)
(* overtake it only as often as the reorder buffer has rows.                *)
EveryInstructionLeaves ==
  \A t \in Tag : where[t] = "station" ~> where[t] # "station"
==============================================================================
