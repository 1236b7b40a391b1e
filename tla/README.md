# SCOoOTER in TLA+

SCOoOTER is a configurable superscalar out-of-order RV32IMA processor written
in Bluespec SystemVerilog (`core/src`).  This directory models the parts of it
whose correctness rests on time: what is decided in one clock cycle and acted
upon in another, what is speculative and must not be seen, and what several
processors share.  The modules are translated from the source; `PROJECT.json`
names the lines every definition stands for.

## 1. The system

### Components

| Component | Source (under `core/src`) | State | Operations |
|---|---|---|---|
| Fetch, decode, predictors | `src_core/frontend` | pc, local epoch, requests on the way, prediction tables | request, response, redirect, train |
| Issue | `exec_core/Issue.bsv` | counter of tags | take up to ISSUEWIDTH instructions, gather operands, reserve a row each, hand to stations |
| Reservation stations | `exec_core/ReservationStation.bsv` | waiting instructions with operands or tags | insert, take results from the bus, give out |
| Arithmetic, branch, MulDiv, CSR units | `exec_core/unit` | pipeline registers | execute, put a result on the bus |
| Load/store unit | `exec_core/unit/Mem.bsv` | a FIFO per stage, acquire flag | store, probe the store buffer, ask memory, answer, flush |
| Store buffer | `exec_core/StoreBuffer.bsv` | ring of stores, full flag, the store on the bus | enqueue, forward, send, confirm |
| Reorder buffer | `backend/ReorderBuffer.bsv` | banks of rows with flags, pointers, free count, latched tail | insert, complete, remove |
| Commit | `backend/Commit.bsv` | epoch, next pc, handler flag, output buffers | consume in order, exception, mispredict, mret, interrupt |
| Register files | `backend/regfile` | architectural and speculative registers, CSRs | read, reserve, result, flush, write |
| Memory arbiter | `MemoryArbiter.bsv` (in DAVE) | queues, link register, AMO in progress, channels | merge loads and stores of all processors, perform AMO, LR, SC |
| Instruction arbiter | `InstructionArbiter.bsv` (in DAVE) | queue | merge instruction reads |
| Bus, periphery | `src_bus`, `src_soc` | routing FIFOs; PLIC, CLINT registers | route, answer; claim, complete, count |

### How they interact

    Fetch -> Decode -> Issue ----> ReservationStations -> units -.
      ^                 |  ^            ^                        |
      |       reserve   |  | tail tag   '----- result bus -------+
      |                 v  |                                     v
      |              ReorderBuffer <------------------------- results
      |                 |   tail tag (who is oldest) -> Mem, CSR
      |  redirect       v
      '------------- Commit -> registers, CSRs, epoch bump to all units
                       
    Mem -> StoreBuffer -> MemoryArbiter <- the other processors
       \-> loads, AMOs -/      |
                             memory

Everything is rules that appear to execute one at a time; rules of one clock
cycle are ordered by their methods' schedule.  A wire holds for one cycle.
What makes this design hard:

* *Values used a cycle after they were computed.*  The free count of the
  reorder buffer, its tail, the full flag of the store buffer.
* *Two counters that have to agree.*  The tags issue counts and the rows the
  reorder buffer fills.
* *Speculation with effects.*  A store writes to memory from within the unit,
  before its instruction commits; only "it is the oldest, and nothing stops it"
  justifies that.
* *Answers without names.*  Memory's answers carry no tag within a processor
  and only the processor's number outside.
* *Wrong-path instructions* are not removed; they run through every stage as
  bubbles that must answer.
* *Sharing.*  AMOs and LR/SC of several processors on one bus whose two
  channels are independent; interrupts several harts may claim.
* *Few names for many things.*  Epochs, local epochs and tags are counted modulo
  a small number while what carries an old one may still be on its way.

### What makes each component correct

| Component | Properties |
|---|---|
| Reorder buffer | never enters an occupied row; a tag names its row; what leaves is, in order, what entered, completed; the tail shown to the units never runs ahead; every tag leaves |
| Store buffer | a queue of stores; forwards the youngest store to the word; full clears |
| Load/store unit | committed loads return what the program before them wrote; irrevocable effects commit; a releasing AMO waits for its stores; one read per wait; every instruction is answered |
| Memory arbiter | AMOs are atomic; an SC stores only under a link that no store or SC has ended; answers are current and go to who asked; every request is answered unless the answer for an AMO is dropped, which only one build does |
| Speculation core | committed instructions form the program's path; operands are those of the youngest older writer; no instruction of an abandoned path passes for one of the current path; no wake-up lost; a CSR holds what committed |
| Reservation stations | nothing is entered into an occupied row; each instruction is given to the unit once, with the values of its sources, in turn if the station is linear; every one leaves |
| Fetch | what decode gets is the predicted path; nothing requested on a path left since comes under the new epoch |
| Instruction window | several inputs and outputs, yet one queue |
| Bus, periphery | the answer to a decoded read is what that read found; a source is handled by one hart at a time; an interrupt a hart accepts is claimed |

## 2. Modules

| Module | What it is |
|---|---|
| `ReorderBuffer` | The buffer with issue's tags.  A step is a clock cycle in which any number of instructions up to the registered `free` enters, any results arrive and any number of completed rows at the tail leaves. |
| `InOrderWindow` | What it promises: a window of instructions that enter at one end, complete in any order and leave at the other. |
| `ReorderBufferProofs` | Proofs about room, tags and order, the refinement included, for all widths and depths. |
| `StoreBuffer` | The ring, the flag, the bus register, forwarding.  A step is a clock cycle with any of enqueue, send and confirm. |
| `StoreQueue` | What it promises: a queue of stores and one on the bus. |
| `StoreBufferProofs` | Proofs for all depths of at least two. |
| `LoadStoreUnit` | The unit; it instantiates `StoreBuffer` for its state and its operations.  A step is one rule of the unit, or a step of memory, of commit or of the instructions that arrive. |
| `LoadStoreUnitProofs` | Proofs for all programs, addresses and depths of the store buffer; it instantiates `StoreBufferProofs`. |
| `MemoryArbiter` | The arbiter, with processors that have one load or AMO and one store under way each, and a memory whose channels are independent or prompt.  How the design is built and what processors ask for is a variable, chosen in the initial state. |
| `SpeculationCore` | From the instruction window to the architectural state.  A step is a clock cycle in which issue, units, commit and frontend do any amount of what they may do; it instantiates `SpeculativeRegisters`. |
| `SpeculativeRegisters` | Both register files, the buffer between commit and the architectural one, and how issue gathers operands. |
| `SequentialMachine` | What it promises: instructions executed one after the other. |
| `SpeculationProofs` | Proofs about epochs, operands and the CSR file, for all widths, depths, delays and programs. |
| `ReservationStation` | A station of either kind with the registers that may be put in front of it, the part of issue that feeds it and the result bus.  A step is a clock cycle. |
| `WaitingInstructions` | What it promises: a bag, or a queue, of instructions that wait for their sources. |
| `ReservationStationProofs` | Proofs for both kinds, all sizes and all combinations of registers. |
| `Fetch` | Requests of all threads, their answers, predictions and redirects.  A step is a rule. |
| `PredictedPath` | What it promises: a path per thread, each instruction where the one before was predicted to lead. |
| `FetchProofs` | Proofs for any number of threads, requests and epochs. |
| `InstructionWindow` | The banked buffer between decode and issue.  A step is a clock cycle. |
| `InstructionQueue` | What it promises: one queue. |
| `Periphery` | The read channel of the bus behind the arbiter, the interrupt controller on it, and harts that claim and complete.  A step is a clock cycle. |
| `MemoryArbiterProofs` | Proofs for any number of processors, addresses and requests, however the arbiter is built. |
| `PeripheryProofs` | Proofs for any number of harts, processors, sources and levels. |
| `MC...` | Constants for TLC. |

How state corresponds to the code, where it is not by name:

* A FIFO of one element, a `Maybe` and a valid bit are sequences of length at
  most one (`<<>>` for empty or invalid).
* `ReorderBuffer`: `occupied` and `ready` are the registers of a row seen before
  the clock edge; `incoming` and `results` are the registers on the way in;
  what happens within a cycle through EHR ports is in `row_flags`, which covers
  the orders generated for one and for several rows per bank.  `ready_enq_next`
  is the port through which the free count looks at the row after the next.
  The issue bus and the result bus between issue, units and buffer are one
  register each.
* `StoreBuffer`: a store is its word and a payload.  `accepted` is the bus's
  view, for the refinement.
* `LoadStoreUnit`: the bypass FIFO between `calculate_store` and the store
  buffer and the rule that takes from it are one action, since the FIFO is empty
  at every cycle's end; so are the results' FIFO and `propagate_result`.
  `request_sb`, which the buffer is probed with in every cycle, is the address
  of the instruction in `stage1`.  A value of memory is, per byte lane, the
  number of the instruction that wrote it.  Epochs are unbounded here: their
  wrap-around is not part of this module.  `retired`, `at_head` and `Retire` are
  reorder buffer and commit, which drops instructions of old epochs and
  redirects on exceptions; `Redirect` is a mispredicted branch, an exception of
  an instruction of another kind, or, with `Interrupts`, an interrupt at any
  time.  The special case ROBDEPTH = 1 needs no tail comparison since there is
  one instruction only.  `aq_r` is a variable although it never becomes true.
  The variants for DExIE and RVFI are left out.
* `MemoryArbiter`: an element of a FIFO is the number of a request; `ops` has
  its processor, kind and word.  `compute_input` is three actions, one for each
  of its branches; the wires of `distribute_...` are folded into the rules that
  take from them in the same cycle, and `answer_missed` is the case in which
  no rule can.  `Room` is the implicit conditions the compiler puts on a rule:
  without `-aggressive-conditions` those of every branch.  `seen`,
  `reserved`, `watched` and `lost` are history.  A processor asks for a word only when it has nothing
  else under way there, which is what the store buffer's forwarding makes of it.
* `SpeculationCore`:
  - *Data.*  A value is the number of the instruction that computed it, so an
    operand says who is believed to be its writer.  Instructions have one source
    operand instead of two, which are gathered and woken alike.  Branches go
    either way and a `fault` may or may not raise an exception, which is a
    choice when the instruction executes.
  - *Frontend.*  One instruction per cycle may arrive.  `decoded` is the
    instruction window together with what waits in front of it; requests on the
    way to memory and the ones fetch drops on a redirect are in `Fetch`.  Each instruction carries the epoch of the cycle it arrived in.
  - *Issue and units.*  Any number up to the limits the code checks may be
    issued, be on the bus and be consumed in a cycle: that covers stations that
    are full, the free count of the reorder buffer and every latency of a unit.
    `stations` holds an instruction from issue until its result, whether it
    waits in a station or is in a unit.  The optional registers behind issue and
    in front of the rows (`SPLIT_ISSUE_STAGE`, `RS_LATCH_INPUT`) are off here;
    `ReservationStation` has them.  The optional delay of the bus is a constant.
  - *Reorder buffer.*  `rob` is the window that `ReorderBuffer` implements, with
    commit looking at it directly (`ROB_LATCH_OUTPUT` off).
  - *CSR unit.*  `get_request`, `read_modify` and `propagate_result` follow each
    other in consecutive cycles.  `mscratch` stands for the CSRs software
    writes; `mepc` is written by traps only, and TVEC is fixed.
  - *Interrupts* may come in any cycle in which none is in process, once an
    instruction has committed: software has to enable them, and `next_pc_r` is
    not initialised before.
  - One hardware thread; DExIE and RVFI are left out.  `path`, `retired`,
    `csr_writer`, `csr_torn` and `exception_pc` are history.
* `ReservationStation`: instructions are numbered modulo twice the rows of the
  reorder buffer, so that a number names one instruction in flight and tells it
  from the last one with its tag; a value is the number of the instruction that
  computed it.  The station is a variable, chosen in the initial state.  Issue
  is what a station sees of it: tags, operands, `can_insert`, and the other
  stations as places where an instruction waits for its unit.  Which
  instructions an operand may name covers every register file.  Commit frees
  all rows it can at once, which is when tags come back soonest.  A station
  with as few rows as it has registers in front of it never accepts anything
  (`can_insert` compares with `>`) or overwrites itself (a linear one); no
  configuration in the repository has one, and `StationAssumption` excludes it.
* `Fetch`: addresses of a small cyclic memory.  Predictors may predict anything
  (`getTaken` or `getStraight`), since a prediction can only cost time.  Which
  thread requests next is open: the code rotates in every cycle, whatever
  happens, and the latency of memory decides whom a free place finds.
  `delivered` and `int_in_process` stand for the backend: commit redirects at an
  instruction of the current epoch only, or by an interrupt when none is in
  process.  `INFLIGHT` and the local epoch are 8 in the code.  The code's epoch
  has at least four values; with two, two redirects in a row would bring old
  requests back to life, which `EpochAssumption` excludes.
* `InstructionWindow`: the FIFOs in the banks are unguarded, as in the code; the
  module puts only what `enqReady` allows and takes only what `deqReady` allows,
  as decode and issue do.
* `Periphery`: a value read is represented by the request it was read for, and a
  claim is what a read of the register `claim` does.  A read that no branch of
  the controller decodes leaves `read_val` alone and is answered all the same
  (`PLIC.bsv:204-235`); `threshold_0` stands for such reads.  The register of
  memory's answer is not modelled, only the order.  Writes travel on a channel of
  their own, one arrives per cycle, in any cycle.  `int_flags` is the register
  through which harts see that they are called.  `holds`, `last` and `twice`
  are history.

## 3. Runs

| Run | Bounds | What it shows |
|---|---|---|
| Rob | 2 banks of 2 rows, latched output, 2 instructions | no row entered while occupied or changed while in use, and no stale result taken; tags name rows; the latched tail is that of the oldest instruction not consumed; refinement of `InOrderWindow`; the inductive invariant of the proofs; every tag leaves |
| Sb | ring of 4, 2 words, 2 payloads | refinement of `StoreQueue`; youngest forwarded; full clears |
| Lsu | 3 instructions of all kinds, loads and stores also of half a word, 3 words (one of periphery), 1 redirect | committed loads see program order; release; one read on its way; effects commit; every instruction answered |
| Arb | 2 processors, 4 requests; block RAM with all kinds of access of both on 1 word, and independent channels with aggressive conditions and 2 words | AMOs atomic; an SC stores only under a link nobody has ended; answers current; one access of an AMO on its way while it stalls, and every request answered, unless an answer was dropped; queues have room |
| Spec | 2 per cycle, 4 rows, window of 2, a bus delayed by one cycle, 4 programs of 5 addresses, 6 instructions fetched | refinement of `SequentialMachine`: path, operands, registers, traps and returns; epochs tell paths apart; every waiting operand still arrives; `mscratch` holds what committed |
| Rs | 8 stations: both kinds, each combination of registers, with 2 or 3 rows; 3 rows of the reorder buffer, 2 per cycle, 2 operands | never entered into an occupied row; refinement of `WaitingInstructions`; every instruction leaves |
| Window | 3 banks, a window of 7, 2 instructions | refinement of `InstructionQueue` |
| Fetch | 2 threads, words of 2, 4 addresses, 2 requests on their way, local epoch of 1 bit, 3 epochs | refinement of `PredictedPath` |
| Periphery | 2 harts on one processor or on two, 2 sources, 3 levels, 4 registers to read | answers to decoded reads carry what they found; one handler; an accepted interrupt is claimed |

Why the bounds are enough.  The reorder buffer's rings wrap after four
instructions and behave alike thereafter; its state is finite without a bound,
and the theorems cover the other widths, depths and the unlatched output.
Two instructions distinguish a lost, repeated or overtaken one as entries are
otherwise told apart by tags.  In the store buffer two words and two payloads
tell a hit from a miss and a younger from an older store.  For the unit, two
stores, of a word and of half of it, and a load are what a load's lanes can come
from: memory, bus and ring; two stores also fill the ring, which has two rows
here.  Longer programs are covered by the theorems; four loads and stores pass
as well.  In the
arbiter two processors with one load and one store each fill all FIFOs; four
requests are an LR, a store of the other processor, another LR and an SC; on the
block RAM both processors use all of them.  A store and an AMO are enough for
the build of the IP core to drop an answer, and it does so in the run; and the
counterexamples below need two to four.  The other two combinations of
build and requests pass as well.

In `SpeculationCore` six instructions in four rows make the tags wrap and leave
older ones in flight when a tag is given again; the programs have a loop
whose branch may be mispredicted, an exception, a CSR access next to a branch
and an environment call, each with a handler that returns, and interrupts on
top of them.  The counter of epochs, 8 values here, need not wrap:
`EpochNamesPath` also says that no instruction survives more than two
redirects, and the smallest counter the code can choose tells three apart.  A
core of one instruction per cycle, two rows and a window of one, whose four
epochs do wrap, passes as well with nine instructions fetched, and so does the
core above without the delay of the bus and with seven; they take longer.

A station has as many rows as it needs at least: two, and one more than
registers in front of it.  Three rows of the reorder buffer are enough to have
one instruction wait for two others, or for one that is in a register on its
way, and tags come back within three instructions.  A window of seven in three
banks is rounded up to nine, so that banks are full unevenly.

In `Fetch` the smallest epochs meet a number of requests that makes them wrap:
the local epoch of one bit wraps after two predictions, which in the code's
proportions (8 requests, 8 values) would take eight.  One thread with three
requests on their way and jumps to all four addresses, and two threads with
three requests, pass too; the theorems cover the rest.  In `Periphery` memory
may keep its answer as long as it likes while both devices have one, a read of a
register that is not decoded may come in between, and settings change at any
time: each hart may enable both sources, and one may be raised to the level of
the other.  The sources start at different levels: two threads of a processor,
one of which accepts both sources and the other the higher one, and two
processors of the same kind.

`LoadStoreUnit` and `MemoryArbiter` have programs of bounded length
(`MaxOps`), after which nothing is left to do: their runs say
`CHECK_DEADLOCK FALSE`.  That nothing gets stuck before is what
`EveryOpAnswered` and `EveryRequestAnswered` say.  The clock of the reorder
buffer and of the speculation core can always tick without anything
happening; deadlock is checked there but could not occur.  `SpeculationCore`
claims safety only: that its instructions finish rests on the units, which are
unconstrained in it.  The same holds for the clocks of the stations, the
window and the periphery; deadlock is checked there.

**Fairness.**  Bluespec fires a rule in every cycle in which it can and no
conflicting rule precedes it.  The fair specifications assume weak fairness of
rules that stay enabled: the clock of the reorder buffer with results that
arrive and commit that takes what is complete; the store buffer's bus; the
unit's rules as a whole, memory and commit; each rule of the arbiter.  Nothing
is assumed about the arrival of instructions, redirects, interrupts and
requests.  Two rules of the arbiter conflict: `compute_input` of an AMO keeps
`elapse_store_op` from firing in the same cycle.  A store is thus
delayed as long as AMOs keep arriving; weak fairness says that they do not
win every time.

For a station: the registers in front of it and those of the bus are written
in every cycle, so nothing stays in them; every unit comes to a result; and the
unit takes what it is offered (`WF` of `Get`).  Nothing is assumed about
issue.  For the periphery: the clock ticks, memory takes requests and answers
them, and a hart that is called and again and again could ask claims again and
again.  This last one is strong, since a processor's other reads take turns with
its claims: software that reaches its handler reads the claim register at some
time, as no read of its own is in its way then.  Nothing is assumed about lines,
settings and completions.

### Disagreements with the documentation

Each has a run expected to be violated, with the quotation in `PROJECT.json`.

| Run | What the code does |
|---|---|
| LsuInterrupt | An interrupt redirects in any cycle, also after the oldest store, AMO or load of periphery has taken effect and before it commits; it runs again. |
| ArbLinks | The link register has no owner (`MemoryArbiter.bsv:56`, `112`, `127`): the LR of one processor also lets the SC of the other succeed, and revives a link that a store has ended for the other.  An AMO does not end the link. |
| SpecNested | An interrupt in the cycle an exception commits overwrites its `mepc`: the address to return to is the handler's, the one of the exception is gone. |

Limits the passing runs respect, which TLC refutes beyond them when a constant
is changed:

* `STORE_BUF_DEPTH = 1` breaks `StoresInOrder`: the pointers of a ring of one
  never differ, so the full flag is never cleared.  The comment on the constant
  asks for a power of two.
* `ForwardsYoungest` leaves out address 0, which `forward_pending` uses for "no
  store on the bus".
* A misaligned AMO or a misaligned load of periphery in `OpSet` breaks
  `EffectsCommit`: it is performed and then raises its exception.
* The rule that should set the acquire flag of the unit, `set_aq`, writes False:
  an acquiring AMO does not hold back the loads behind it.
* `MscratchCommits`, without the exemption in `MscratchCommitsUninterrupted`: a
  CSR instruction writes when it is the oldest, and an interrupt
  before it commits makes it execute again after the handler returned.
* A load of periphery that is forwarded a store's data is in neither branch of
  the rule that dequeues it (`Mem.bsv:326-345`): with stores of periphery in
  `OpSet` of Lsu, `EveryOpAnswered` is violated.
* On independent channels with stores to the word of an AMO, a store already
  sent is performed within the AMO (`MemoryArbiter.bsv:104`): `AmoAtomic` is
  violated.  The same line of the document says that "all further
  operations are stalled until the said atomic operation is complete".
  `ScUnderLink` is violated there in the same way, by stores to the word of an LR.
* With three processors `AnswersTheRead` fails: a device has one register for
  what was read (`CLINT.bsv:46`, `67-70`), and with two reads of it waiting the
  second overwrites the answer of the first.
* `AnswersTheRead`, without the condition `decodes`: the threshold of hart 0 is
  at 0x200000 and decoded with `>` when it is read (`PLIC.bsv:221`) and with `>=`
  when it is written (`274`).  Its read is answered with what an earlier read has
  left in `read_val`, possibly what another hart has claimed.

Behaviour that is in the model and that the properties leave room for:

* With `-aggressive-conditions` and independent channels, as the IP core is built,
  an AMO or an LR starts although the FIFO of writes is full.  If it is still full
  when the answer to the read of an AMO comes, no rule can take it
  (`MemoryArbiter.bsv:67`, `148`): the answer is dropped and the arbiter stalls
  for ever.  `lost` records it; `AmoOnItsWay` says that only this build does
  so, `EveryRequestAnswered` promises an answer unless it has happened.
* What the link register does promise to processors that share it is
  `ScUnderLink`: the last LR of all has read the word of the SC, and no store and no SC has
  written to it since.
* Two processors that claim in two consecutive cycles both get the same
  interrupt, since `pending_reg` is a cycle late (`PLIC.bsv:78-84`, `226-231`);
  `OneHandler` says that nothing else leads to this and that the threads of one
  processor cannot do it.
* A source claimed and completed in the same cycle counts as completed;
  completing does not check who claimed; a claim does not look at the
  threshold; a pulse on the line of a source that is handled is lost.
* A tick of the timer in the cycle in which `mtime` is written is lost.  This is
  outside of the model.
* Fetch rotates its threads whether or not they could request (`Fetch.bsv:84`),
  so that a thread can in principle always come when there is no place.

## 4. Proofs

Proved with TLAPS, for all values of the constants allowed by the assumptions
the modules name (ISSUEWIDTH and ROB_BANK_DEPTH any positive numbers, either
way of latching, any set of instructions; for the store buffer any depth of at
least two, any addresses and payloads; for a station more rows than registers in
front of it; for fetch two local epochs and three epochs at least).

* `ReorderBufferProofs!InvariantHolds`, `TypeCorrect`, `NoOverflow`,
  `NothingOverwritten`.  The free count is computed one cycle before the
  instructions it allows are entered, so "no occupied row is entered" is not
  inductive.  `IInv` adds: the occupied rows of a bank are those from its tail
  up to its head (`Ring`); there is a number of instructions in the buffer from
  which the count of every bank follows by its distance from the tail bank
  (`BalancedBy`); and the banks that will receive what is on the way have room
  (`RoomForIncoming`).  Balance is what turns the number of free *banks*, all
  the code counts, into the first so many banks from the head being free
  (lemma `FreePrefix`).  Each part is preserved by a cycle by a lemma of its
  own (`BankStep`, `BalanceStep`, `RoomStep`, `EntryStep`, `TypeStep`).
* `ReorderBufferProofs!CounterInStep`, `RowsHaveTheirTags`, `IndexNamesOldest`.
  Issue's counter and the pointers of the banks never compare notes.  `TagInv`
  says that they walk the same ring: the banks from `head_bank` on have the same
  head row and those before it are one row ahead (`HeadsInStep`), which gives the
  place of the next insertion, and the counter is ahead of it by what is in the
  register on the way.  With `IInv`, an instruction is entered where its tag
  says, and the tail shown to the units names the oldest.
* `ReorderBufferProofs!RowsInOrder`, `BufferIsWindow`.  The banks together are one
  ring of row ids.  `RowsInv` says that the rows in use are those whose ids lie
  between the tail's and the head's; what leaves and what arrives are the ids at
  either end (`RowsOfBundles`), and for a ring that is arithmetic (`RingMoves`).
  From this the refinement `InOrder` follows for every width and depth: the
  window has one position per occupied row and per instruction on its way
  (`WindowShape`), what the pointers let go is its longest complete prefix
  (`PrefixLeaves`), and every other position moves up with its instruction, its
  tag and its result (`WindowMoves`), none past the capacity and no tag twice.
* `StoreBufferProofs!TypeCorrect`, `BufferIsQueue`.  The refinement maps the
  ring to the sequence of stores from tail to head; a cycle that sends, accepts
  or both maps to a step of `StoreQueue` (lemmas `AmountStep`, `CellsStep`,
  `WaitingStep`).  Depth one is excluded because there it is false: see the limits
  above.
* `StoreBufferProofs!LoadsSeeYoungest`.  The search from the head downwards
  looks at exactly the waiting stores (`SearchesWaiting`), so its first hit is the
  last store to the word in the queue (`HitsAre`, `YoungestAnswers`), and the bus
  is asked only if there is none.
* `LoadStoreUnitProofs!TypeCorrect`, `ReadsMeetTheirLoads`, `ReleasesWait`, for
  every program, bound of instructions and of redirects, and depth of the store
  buffer of at least two, with no word at address zero (`Memory`: both are limits
  above).  `IInv` goes from the pipeline to memory.  What is in the unit is in
  program order and gives its results in that order (`Ordered`); what has an
  effect has left or is the oldest (`EffectsAtHead`); so writes are performed in
  program order: those in the buffer are the youngest to their word (`Buffered`) and
  memory has, lane by lane, the youngest of the others (`MemHas`); a load without
  forwarded data has no store to its word in the buffer until it is answered
  (`Alone`), since the buffer is probed in the cycle in which the load leaves the
  first stage and stores before it were entered there before.  `Data` says that
  what memory or the buffer answers is what the performed writes before the load
  have left.  The ring is used through the theorems of `StoreBufferProofs`.
* `LoadStoreUnitProofs!EffectsAreCommitted`, `LoadsInProgramOrder`, under two
  more hypotheses, each a limit of the code and not of the proof: no
  interrupts (`~Interrupts`; with them the first is violated, run LsuInterrupt),
  and no misaligned AMO or misaligned load of periphery (`EffectsAligned`: the
  code looks at their alignment when the answer has come, `Mem.bsv:400`, `428`).
  Then an instruction that has had an effect is the oldest and nothing older can
  redirect, so it commits (`Commits`); and what a load saw, the performed writes
  before it, are then the committed ones.
* `ReservationStationProofs!RoomForWhatComes`, `NothingOverwritten`.  Room is
  judged in the cycle of issue, and the instruction is entered up to two cycles
  later.  The invariant counts what is in between: with it, the rows of a
  linear station in use form a ring that has room (`RoomInRing`), and those of
  the other kind are at most as many as are free.  `TypeCorrect` follows from it:
  the pointers stay among the rows, and what commits, the longest finished prefix of
  the window, exists (`Greatest`).
* `FetchProofs!EpochsTellPaths`, `TypeCorrect`, `FetchFollows`.  What is on its
  way is at most two redirects old: commit redirects at an instruction of the
  current epoch, which means that everything older has left, or by an interrupt,
  once (`Reach`).  Among the requests of an epoch and thread, those of
  the current local epoch come last and each continues the one before
  (`LiveLast`, `WordByWord`): a prediction leaves no live request behind,
  which is why two local epochs are enough however many requests there are.
  Every step then maps to a step of `PredictedPath`.
* `SpeculationProofs!EpochsKeepUp`, `EpochsNamePaths`.  The epoch of an
  instruction in flight is as far behind commit's as its path is, and that is at
  most two (`EpochsFit`); behind an instruction of the current path there are
  only such (`CurrentLast`).  `EnoughEpochs`, an assumption of all
  theorems of this module, is how the code chooses the width: at least one value
  more than instructions in flight; it holds for every core with up to 255 of them
  (`EpochsSuffice`).
* `SpeculationProofs!CoreInvariant`, `TypeCorrect`, `NoWakeUpIsLost`.  The rows of
  the reorder buffer have consecutive tags up to the next one to give (`InRing`),
  so that a tag names one row (`OneRow`).  A station's own instruction has no
  result, nor has the one whose tag a register holds (`StationsWait`, `Reserved`):
  a result that arrives clears both in the same cycle, and what commits has its
  result.  A station that waits for a tag waits for an older instruction without a
  result or for one on the delayed bus (`Coming`); the result enters the last
  place of the bus in the cycle its row becomes done, and issue takes tags only
  from registers the bus has passed, or from older instructions of its bundle.
  Flushes clear registers and never rows, which is why none of this depends on paths.
* `SpeculationProofs!MscratchIsCommitted`.  Only the oldest may be in the CSR unit
  (`CsrAtHead`) or have left it (`SystemsAtHead`), and what is sent to the CSR file
  is what the unit answers with (`WriteSent`).  The result is on the bus in the cycle
  the file is written, so that nothing commits in between but an interrupt may
  come, which is the case the property excludes.  It needs `EpochsKeepUp`:
  an instruction that was not to count would otherwise come to count when the epoch
  comes round (`OldStaysOld`).
* `PeripheryProofs!ClaimsAreKept`, `HandledByOne`.  What a hart holds is marked as
  handled, two harts hold a source only if it was claimed in two cycles that
  follow each other (`HeldIsHandled`, `Exclusive`), and since `pending_reg` is one
  cycle late only the last claimed source can be both handled and pending
  (`LastIsPending`).  The threads of one processor have one read on their way, so
  that two claims never follow each other (`ClaimsApart`).
* `PeripheryProofs!AnswersAreOwn`, for at most two processors with any number of
  harts.  A processor has one read on its way (`OneReadEach`).  When one is
  forwarded to a device that has not answered the one before, those two are all
  there are, so no device in front takes the slot and the answer leaves in the
  same cycle; hence at most one answer waits in a device (`OneWaits`), and
  it is the one the register holds, if the read was decoded; one that was not has
  left the register alone, and nothing is claimed of its answer.  The configurations of the repository have
  one or two processors; for three the property is false, see the limits.
* `MemoryArbiterProofs!TypeCorrect`, `InvariantHolds`, `AnswersCurrent`,
  `RoomForAll`.  The channel to memory, what memory has taken and its answer are
  one line of transfers (`Path`), which memory only moves along
  (`MemoryKeepsPaths`).  Every request of a processor is in one place, in the queue
  or in the line, and its processor waits for it (`ReadersWait`, `ReadOnce`,
  `WritersWait`, `WrittenOnce`); what the arbiter reads for itself is for the AMO
  it has noted.  Since the value of a word is seen by whoever waits for it
  (`Current`), whatever is answered was seen since the request, and since
  processors have one request of each kind, no queue outgrows their number.  The
  number of requests of a behaviour, `MaxOps`, is any; an answer that is dropped
  is not given to someone else.
* `MemoryArbiterProofs!AmoInvariant`, `AmoAnswered`, for every build.  Nothing else
  moves from the read of an AMO to the answer to its write, which is the only one
  of its kind (`Stalled`); what the arbiter waits for is on its way, or its answer
  was dropped by a build that may do so (`Awaited`): in the others an AMO whose
  answer is there finds room for its write (`RoomForWrite`: without
  `-aggressive-conditions` no AMO starts when the FIFO of writes is full, and with
  prompt writes it is empty when a read is answered).  Each of the three needs
  the one before it.  `AmoOnItsWay` counts from them.
* `MemoryArbiterProofs!AmosAtomic`, for builds in which no processor stores to
  words that AMOs are used on, or memory performs writes before the reads that are
  sent after them (`StoresApart("AMO")`: on independent channels it is false, see
  the limits).  `WordKept`: from the read of an AMO to its write nothing that memory
  has still to perform meets its word.
* `MemoryArbiterProofs!ScsFollowTheirRead`, for any number of processors that use
  LR, SC and AMOs of the same words, under the same hypothesis about stores and
  the words of LRs (`StoresApart("LR")`).  `Linked`: as long as there is a link,
  its word has been read and no store to it is on its way, for a store ends the
  link when it is sent and an SC when it is accepted.  An LR that is still
  `Unread` is the exception: stores sent before it may be on their way.  That the
  link is the processor's own is false and not claimed, see ArbLinks.

The proofs do without induction over data except for the least element of a set
of numbers, from the well-foundedness of `<` (`WFMin`).

Only model-checked: everything about `InstructionWindow`; the refinements `GivesWhatWaits` and
`ExecutesInOrder`, which need sequences filtered or folded.  Liveness (`EveryTagLeaves`,
`FullClears`, `EveryOpAnswered`, `EveryRequestAnswered`,
`EveryInstructionLeaves`, `PendingIsClaimed`) is out of the prover's reach and stays
so.

## 5. Plan

Done, in this order: the reorder buffer, the store buffer, the load/store unit,
the memory arbiter, the speculation core, the reservation stations, fetch, the
window between decode and issue, the periphery; and the proofs above.

Left:

1. `GivesWhatWaits` as a proved refinement.
2. The write channel of `IDMemAdapter`, with its rules instead of one
   write per cycle.

Not modelled and why:

* `InstructionArbiter`: a queue of reads answered in order; the data arbiter has
  this structure and more.
* Decoding and the arithmetic and branch units: tables and pure functions.
* The multiplier and divider: 32 steps of shifts and additions; what could be wrong
  there is arithmetic at full width, which bounded inputs would not show.
* Predictors: a prediction can only cost time, and `Fetch` allows any.
* AXI and SPI conversions (mostly external IP), ASIC top levels (instances of the
  parts above), testbench, tracing and the vendored verification environment.
