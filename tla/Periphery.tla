------------------------------ MODULE Periphery ------------------------------
(***************************************************************************)
(* The bus behind the arbiter (IDMemAdapter.bsv) and the interrupt          *)
(* controller on it (PLIC.bsv), with harts that read memory, the timer      *)
(* (CLINT.bsv) and claim and complete interrupts.                           *)
(*                                                                         *)
(* A device remembers who asked in a FIFO and what was read in one          *)
(* register; of several devices with an answer one gives it in a cycle.     *)
(* The controller looks at its inputs through a chain of registers: what    *)
(* is pending, and which harts are called, is one cycle old.                *)
(*                                                                         *)
(* A step is a clock cycle.  A value that a device has read is represented  *)
(* by the request it was read for.                                          *)
(***************************************************************************)
EXTENDS Naturals, Sequences, FiniteSets

CONSTANTS
  Hart, CPU,
  num_periphery, prio_levels,
  Setups,         (* which processors the harts are threads of, and what    *)
                  (* registers without a reset value hold at first          *)
  Reads,          (* what harts read: of which device, which register       *)
  Settings        (* what software may write to the controller's registers  *)

Source == 1 .. num_periphery
Prio   == 0 .. prio_levels - 1

ASSUME SizeAssumption     == num_periphery \in Nat /\ prio_levels \in Nat
ASSUME SetupAssumption    ==
  Setups \subseteq [cpu_of : [Hart -> CPU], priority_regs : [Source -> Prio],
                    threshold_regs : [Hart -> Prio]]
ASSUME CpuAssumption      == IsFiniteSet(CPU)
ASSUME SettingAssumption  ==
  \A w \in Settings : \/ w.reg = "priority"  /\ w.at \in Source /\ w.value \in Prio
                      \/ w.reg = "enable"    /\ w.at \in Hart   /\ w.value \in SUBSET Source
                      \/ w.reg = "threshold" /\ w.at \in Hart   /\ w.value \in Prio

(* The devices in the order in which they may answer.                       *)
Devices == <<"DMEM", "CLINT", "PLIC">>
Device  == {Devices[i] : i \in DOMAIN Devices}

(* Reading the register "claim" of the controller claims.  "threshold_0" is *)
(* the threshold of the first hart, the address at which thresholds start,  *)
(* that reads do not decode.                                                *)
Register == {"claim", "threshold_0", "other"}

ASSUME ReadAssumption == Reads \subseteq [dev : Device, reg : Register]

VARIABLES
  cpu_of,                                       (* the processor of a hart  *)
  (* the interrupt controller *)
  priority_regs, enable_reg, threshold_regs,
  pending_reg, handled,                         (* sources                  *)
  int_flags,                                    (* harts that are called    *)
  (* the bus *)
  dmem_r_rq,                                    (* the request on the bus   *)
  inflight,                                     (* by device, what was asked*)
  read_val,                                     (* what the timer and the   *)
                                                (* controller have read     *)
  (* history *)
  holds,          (* by hart, what it has claimed and not completed         *)
  last,           (* what was claimed in the last cycle, 0 if nothing       *)
  twice           (* claimed in two cycles that follow each other           *)

plic == <<priority_regs, enable_reg, threshold_regs, pending_reg, handled, int_flags>>
bus  == <<dmem_r_rq, inflight, read_val>>
vars == <<cpu_of, plic, bus, holds, last, twice>>

Request == {[hart |-> h, dev |-> r.dev, reg |-> r.reg] : h \in Hart, r \in Reads}

(* The devices with a register for what was read; what it holds at first is *)
(* no answer to anybody.                                                    *)
Buffered == {"CLINT", "PLIC"}

Init ==
  /\ \E u \in Setups : /\ cpu_of = u.cpu_of
                       /\ priority_regs = u.priority_regs /\ threshold_regs = u.threshold_regs
  /\ enable_reg = [h \in Hart |-> {}]
  /\ pending_reg = {} /\ handled = {} /\ int_flags = {}
  /\ dmem_r_rq = <<>> /\ inflight = [d \in Device |-> <<>>]
  /\ read_val = [d \in Buffered |-> <<>>]
  /\ holds = [h \in Hart |-> {}] /\ last = 0 /\ twice = {}

-----------------------------------------------------------------------------
(* The interrupt controller, for one hart.                                  *)

irq_matrix(h, p) == {s \in pending_reg : priority_regs[s] = p /\ s \in enable_reg[h]}

prio_with_irq(h) == {p \in Prio \ {0} : irq_matrix(h, p) # {}}

max_prio_with_irq(h) == {p \in prio_with_irq(h) : \A q \in prio_with_irq(h) : q <= p}

periphery_with_highest_irq(h) == UNION {irq_matrix(h, p) : p \in max_prio_with_irq(h)}

(* The first of them, 0 if there is none.                                   *)
selected_max_interrupt(h) ==
  LET S == periphery_with_highest_irq(h)
  IN  CHOOSE s \in S \cup {0} : IF S = {} THEN s = 0 ELSE s # 0 /\ \A t \in S : s <= t

(* Mutant of threshold_mask: the level above the threshold is not accepted. *)
threshold_mask_late(h) ==
  {p \in Prio \ {0} : \A q \in p - 1 .. prio_levels - 1 : threshold_regs[h] # q}

(* The levels a hart accepts: counted down from the highest one until one   *)
(* is the threshold.                                                        *)
threshold_mask(h) == {p \in Prio \ {0} : \A q \in p .. prio_levels - 1 : threshold_regs[h] # q}

called == {h \in Hart : threshold_mask(h) \cap prio_with_irq(h) # {}}

(* Mutant of calculate_pending_ints: what is handled may become pending.    *)
calculate_pending_ints_handled(lines) == pending_reg \cup (lines \ handled)

calculate_pending_ints(lines) == (pending_reg \cup lines) \ handled

-----------------------------------------------------------------------------
(* The bus.                                                                 *)

(* Who has asked and has not been answered.                                 *)
Asking == {dmem_r_rq[i].hart : i \in DOMAIN dmem_r_rq}
            \cup UNION {{inflight[d][i].hart : i \in DOMAIN inflight[d]} : d \in Device}

(* Mutant of MayAsk: a processor asks again when its request has left the   *)
(* bus.                                                                     *)
MayAsk_early(h) ==
  \A i \in DOMAIN dmem_r_rq : cpu_of[dmem_r_rq[i].hart] # cpu_of[h]

(* A processor has one read on its way, whichever of its threads asked.     *)
MayAsk(h) == \A g \in Asking : cpu_of[g] # cpu_of[h]

(* The request leaves the bus in this cycle; memory takes when it wants to. *)
Forwards(takes) == dmem_r_rq # <<>> /\ (dmem_r_rq[1].dev = "DMEM" => takes)

ForwardsTo(d, takes) == Forwards(takes) /\ dmem_r_rq[1].dev = d

(* The device that answers: the first that has one, memory when it wants to. *)
Answering(answers) ==
  LET Ready == {i \in DOMAIN Devices : /\ inflight[Devices[i]] # <<>>
                                       /\ Devices[i] = "DMEM" => answers}
  IN  {Devices[i] : i \in {j \in Ready : \A k \in Ready : j <= k}}

(* Whether a read finds a register: thresholds start behind their first one *)
(* when they are read, not when they are written.                           *)
decodes(r) == r.dev = "PLIC" => r.reg # "threshold_0"

(* Reading.  A device keeps what it reads in its register; a read that is    *)
(* not decoded leaves there what an earlier one has found.                  *)
Read(ask, takes, answers) ==
  /\ ask # {} => dmem_r_rq = <<>> \/ Forwards(takes)
  /\ IF ask # {} THEN \E r \in ask : dmem_r_rq' = <<r>>
     ELSE dmem_r_rq' = IF Forwards(takes) THEN <<>> ELSE dmem_r_rq
  /\ inflight' = [d \in Device |->
       LET rest == IF d \in Answering(answers) THEN Tail(inflight[d]) ELSE inflight[d]
       IN  IF ForwardsTo(d, takes) THEN Append(rest, dmem_r_rq[1]) ELSE rest]
  /\ read_val' = [d \in Buffered |->
       IF ForwardsTo(d, takes) /\ decodes(dmem_r_rq[1]) THEN dmem_r_rq ELSE read_val[d]]

(* The hart of the request on the bus claims.                               *)
Claimed(takes) ==
  IF ForwardsTo("PLIC", takes) /\ dmem_r_rq[1].reg = "claim"
  THEN selected_max_interrupt(dmem_r_rq[1].hart) ELSE 0

Set(reg, name, w) == [a \in DOMAIN reg |-> IF w.reg = name /\ w.at = a THEN w.value ELSE reg[a]]

(* Writing, and what the registers of the controller become.  A source that *)
(* is claimed and completed in one cycle is completed.                      *)
Write(takes, writes, completes) ==
  LET s == Claimed(takes)
  IN  /\ handled' = (handled \cup ({s} \ {0})) \ {c[2] : c \in completes}
      /\ holds' = [h \in Hart |->
           (holds[h] \cup (IF s # 0 /\ dmem_r_rq[1].hart = h THEN {s} ELSE {}))
             \ {c[2] : c \in {d \in completes : d[1] = h}}]
      /\ last' = s
      /\ twice' = {t \in twice \cup ({s, last} \ {0}) :
                     /\ t \in twice \/ (t = s /\ t = last)
                     /\ \E h \in Hart : t \in holds'[h]}
      /\ IF writes = {} THEN UNCHANGED <<priority_regs, enable_reg, threshold_regs>>
         ELSE \E w \in writes : /\ priority_regs'  = Set(priority_regs, "priority", w)
                                /\ enable_reg'     = Set(enable_reg, "enable", w)
                                /\ threshold_regs' = Set(threshold_regs, "threshold", w)

AtMostOne(S) == {{}} \cup {{x} : x \in S}

(* What a hart may complete: what it has claimed, once it knows.            *)
Completable == {c \in Hart \X Source : c[2] \in holds[c[1]] /\ c[1] \notin Asking}

Cycle(ask, takes, answers, writes, completes) ==
  /\ Read(ask, takes, answers)
  /\ Write(takes, writes, completes)
  /\ int_flags' = called
  /\ \E lines \in SUBSET Source : pending_reg' = calculate_pending_ints(lines)
  /\ UNCHANGED cpu_of

(* A cycle has one write at most.                                           *)
Next ==
  \E ask     \in AtMostOne({r \in Request : MayAsk(r.hart)}),
     takes   \in {b \in BOOLEAN : b => ForwardsTo("DMEM", b)},
     answers \in {b \in BOOLEAN : b => inflight["DMEM"] # <<>>} :
    \/ \E completes \in AtMostOne(Completable) : Cycle(ask, takes, answers, {}, completes)
    \/ \E w \in Settings : Cycle(ask, takes, answers, {w}, {})

Spec == Init /\ [][Next]_vars

(* The clock ticks, memory takes what it is asked and answers, and a hart   *)
(* that is called and can ask again and again claims.                       *)
FirstOf(q) == {q[i] : i \in DOMAIN q \cap {1}}
Fairness ==
  /\ []<><<TRUE>>_vars
  /\ []<>(dmem_r_rq = <<>> \/ dmem_r_rq[1].dev # "DMEM") \/ []<><<dmem_r_rq' # dmem_r_rq>>_vars
  /\ []<>(inflight["DMEM"] = <<>>) \/ []<><<FirstOf(inflight'["DMEM"]) # FirstOf(inflight["DMEM"])>>_vars
  /\ \A h \in Hart : []<>(h \in int_flags /\ MayAsk(h))
                       => []<>(dmem_r_rq = <<[hart |-> h, dev |-> "PLIC", reg |-> "claim"]>>)

FairSpec == Spec /\ Fairness

-----------------------------------------------------------------------------
(* A hart is answered with what its own read has found, however long other   *)
(* devices keep the answer waiting: the register in which a device keeps it *)
(* is not overwritten for another hart.  Nothing is promised of a read that *)
(* is not decoded: what is answered then an earlier read has left there.    *)
AnswersTheRead ==
  \A d \in Buffered :
    inflight[d] # <<>> /\ decodes(Head(inflight[d])) => read_val[d] = <<Head(inflight[d])>>

(* A source is handled by one hart at a time, unless it was claimed in two  *)
(* consecutive cycles, before the first claim has reached pending_reg.      *)
(* Threads of one processor cannot do that.                                 *)
OneHandler ==
  /\ \A s \in Source : s \in twice \/ Cardinality({h \in Hart : s \in holds[h]}) <= 1
  /\ Cardinality({cpu_of[h] : h \in Hart}) = 1 => twice = {}

Before(s, t) == \/ priority_regs[s] > priority_regs[t]
                \/ priority_regs[s] = priority_regs[t] /\ s < t

Waiting(h) == {s \in pending_reg : s \in enable_reg[h] /\ priority_regs[s] # 0}

Accepts(h, s) == s \in enable_reg[h] /\ priority_regs[s] > threshold_regs[h]

(* An interrupt that a hart accepts does not stay pending for ever without   *)
(* being claimed, unless another that comes before it is.                   *)
PendingIsClaimed ==
  \A h \in Hart, s \in Source :
    (s \in pending_reg /\ Accepts(h, s))
      ~> (s = last \/ s \in handled \/ ~Accepts(h, s) \/ \E t \in Waiting(h) : Before(t, s))
==============================================================================
