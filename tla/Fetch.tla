-------------------------------- MODULE Fetch --------------------------------
(***************************************************************************)
(* Fetching instructions for the threads of one processor (Fetch.bsv):     *)
(* requests to memory run ahead along predicted paths; what was requested  *)
(* on a path that has been left since, because a branch was predicted      *)
(* taken or the backend redirected, is dropped when memory answers.        *)
(*                                                                         *)
(* A step is one rule, or a redirect by commit.  The rules of a cycle act  *)
(* in the order of the ports of pc: request, response, redirect.  The       *)
(* thread whose turn it is changes in every cycle, whatever happens, so     *)
(* that any thread may be the next to request.                              *)
(***************************************************************************)
EXTENDS Naturals, Sequences, FiniteSets

CONSTANTS
  IFUINST,        (* instructions in a word of memory                      *)
  NUM_THREADS,
  Size,           (* addresses of instructions                             *)
  Targets,        (* where branches and redirects lead                     *)
  INFLIGHT,       (* requests on their way, 8 in the code                  *)
  LOCAL_EPOCHS,   (* values of the local epoch, 8 in the code              *)
  EPOCHS          (* values of the epoch                                   *)

Thread == 0 .. NUM_THREADS - 1
PC     == 0 .. Size - 1

ASSUME SizeAssumption  == /\ IFUINST \in Nat \ {0} /\ NUM_THREADS \in Nat \ {0}
                          /\ Size \in Nat \ {0} /\ Size % IFUINST = 0 /\ INFLIGHT \in Nat \ {0}
                          /\ Targets \subseteq PC
ASSUME EpochAssumption == /\ LOCAL_EPOCHS \in Nat /\ LOCAL_EPOCHS >= 2
                          /\ EPOCHS \in Nat /\ EPOCHS >= 3

VARIABLES
  pc, epoch, local_epoch,     (* by thread                                 *)
  inflight,                   (* requests on their way, oldest first       *)
  fetched,                    (* the answer on its way to decode           *)
  (* the backend, by thread *)
  delivered,                  (* an instruction of the epoch has reached it*)
  int_in_process              (* it takes no interrupt                     *)

vars == <<pc, epoch, local_epoch, inflight, fetched, delivered, int_in_process>>

RequestType == [pc : PC, epoch : 0 .. EPOCHS - 1, local_epoch : 0 .. LOCAL_EPOCHS - 1,
                thread : Thread]
FetchedInstruction == [pc : PC, next_pc : PC, epoch : 0 .. EPOCHS - 1, thread : Thread]

Init ==
  /\ pc = [t \in Thread |-> 0]
  /\ epoch = [t \in Thread |-> 0] /\ local_epoch = [t \in Thread |-> 0]
  /\ inflight = <<>> /\ fetched = <<>>
  /\ delivered = [t \in Thread |-> FALSE] /\ int_in_process = [t \in Thread |-> FALSE]

-----------------------------------------------------------------------------
Follow(a, n) == (a + n) % Size

NextWord(a) == Follow(a - (a % IFUINST), IFUINST)

requestRead(t) ==
  /\ Len(inflight) < INFLIGHT
  /\ inflight' = Append(inflight, [pc |-> pc[t], epoch |-> epoch[t],
                                   local_epoch |-> local_epoch[t], thread |-> t])
  /\ pc' = [pc EXCEPT ![t] = NextWord(@)]
  /\ UNCHANGED <<epoch, local_epoch, fetched, delivered, int_in_process>>

(* Mutant of Live: the epoch of the backend is not compared.                *)
Live_local(r) == r.local_epoch = local_epoch[r.thread]

(* What was requested on the current path.                                  *)
Live(r) == r.epoch = epoch[r.thread] /\ r.local_epoch = local_epoch[r.thread]

dropReadResp ==
  /\ inflight # <<>> /\ ~Live(Head(inflight))
  /\ inflight' = Tail(inflight)
  /\ UNCHANGED <<pc, epoch, local_epoch, fetched, delivered, int_in_process>>

(* The useful instructions of a word: from the address to the word's end.   *)
count_read(a) == IFUINST - (a % IFUINST)

(* The answer with n instructions of which the last leads to next_pc.       *)
Instructions(r, n, next_pc) ==
  [i \in 1 .. n |-> [pc |-> Follow(r.pc, i - 1), epoch |-> r.epoch, thread |-> r.thread,
                     next_pc |-> IF i = n THEN next_pc ELSE Follow(r.pc, i)]]

(* Nothing in the word is predicted taken.                                  *)
getStraight ==
  /\ inflight # <<>> /\ Live(Head(inflight)) /\ fetched = <<>>
  /\ LET r == Head(inflight)
         n == count_read(r.pc)
     IN  fetched' = <<Instructions(r, n, Follow(r.pc, n))>>
  /\ inflight' = Tail(inflight)
  /\ UNCHANGED <<pc, epoch, local_epoch, delivered, int_in_process>>

(* The n-th of the useful instructions is predicted to jump: the rest is    *)
(* cut off and the path goes on at the target.                              *)
getTaken ==
  /\ inflight # <<>> /\ Live(Head(inflight)) /\ fetched = <<>>
  /\ LET r == Head(inflight)
     IN  /\ \E n \in 1 .. count_read(r.pc), target \in Targets :
              /\ fetched' = <<Instructions(r, n, target)>>
              /\ pc' = [pc EXCEPT ![r.thread] = target]
         /\ local_epoch' = [local_epoch EXCEPT ![r.thread] = (@ + 1) % LOCAL_EPOCHS]
  /\ inflight' = Tail(inflight)
  /\ UNCHANGED <<epoch, delivered, int_in_process>>

getReadResp == getStraight \/ getTaken

-----------------------------------------------------------------------------
(* Decode takes the instructions, and they reach the backend.               *)
decode ==
  /\ fetched # <<>>
  /\ LET i == fetched[1][1]
     IN  delivered' = [delivered EXCEPT ![i.thread] = @ \/ i.epoch = epoch[i.thread]]
  /\ fetched' = <<>>
  /\ UNCHANGED <<pc, epoch, local_epoch, inflight, int_in_process>>

redirect(t) ==
  /\ \E target \in Targets : pc' = [pc EXCEPT ![t] = target]
  /\ epoch' = [epoch EXCEPT ![t] = (@ + 1) % EPOCHS]
  /\ delivered' = [delivered EXCEPT ![t] = FALSE]
  /\ UNCHANGED <<local_epoch, inflight, fetched>>

(* Commit redirects at an instruction of the current epoch; one that        *)
(* returns from a handler lets interrupts in again.                         *)
redirect_instruction(t) ==
  /\ delivered[t] /\ redirect(t)
  /\ \E mret \in BOOLEAN : int_in_process' = [int_in_process EXCEPT ![t] = @ /\ ~mret]

redirect_interrupt(t) ==
  /\ ~int_in_process[t] /\ redirect(t)
  /\ int_in_process' = [int_in_process EXCEPT ![t] = TRUE]

Next ==
  \/ dropReadResp \/ getReadResp \/ decode
  \/ \E t \in Thread : requestRead(t) \/ redirect_instruction(t) \/ redirect_interrupt(t)

Spec == Init /\ [][Next]_vars

-----------------------------------------------------------------------------
(* What the registers hold; no more requests are on their way than the      *)
(* FIFOs beside inflight_pcs have rows.                                     *)
TypeOK ==
  /\ pc \in [Thread -> PC]
  /\ epoch \in [Thread -> 0 .. EPOCHS - 1] /\ local_epoch \in [Thread -> 0 .. LOCAL_EPOCHS - 1]
  /\ inflight \in Seq(RequestType) /\ Len(inflight) <= INFLIGHT
  /\ fetched \in Seq(Seq(FetchedInstruction)) /\ Len(fetched) <= 1
  /\ delivered \in [Thread -> BOOLEAN] /\ int_in_process \in [Thread -> BOOLEAN]

(* The requests of a thread that will be answered to decode.                *)
LiveOf(t) == {i \in DOMAIN inflight : inflight[i].thread = t /\ Live(inflight[i])}
First(S)  == CHOOSE i \in S : \A j \in S : i <= j

Promise == INSTANCE PredictedPath WITH
  next <- [t \in Thread |-> IF LiveOf(t) = {} THEN pc[t] ELSE inflight[First(LiveOf(t))].pc],
  out  <- fetched

(* What decode gets of a thread is a path along its predictions, none       *)
(* skipped and none repeated, and after a redirect nothing of an old path   *)
(* comes under the new epoch: epochs and local epochs, few as they are,     *)
(* tell every answer of an old path from those of the current one.          *)
FollowsPredictions == Promise!Spec
==============================================================================
