---------------------------- MODULE StoreBuffer -----------------------------
(***************************************************************************)
(* The store buffer of one core (exec_core/StoreBuffer.bsv): a ring of     *)
(* stores that wait for the memory bus (mkInternalStore), the one store    *)
(* that is on the bus (pending_buf), and the search loads are answered     *)
(* from while their store has not reached memory.                          *)
(*                                                                         *)
(* Equal pointers mean empty or full; the flag full_r tells them apart.    *)
(* It is set by the insertion that closes the ring, even when an entry     *)
(* leaves in the same cycle, and cleared a cycle after the pointers have   *)
(* parted: for one cycle it may be stale.                                  *)
(*                                                                         *)
(* A step is one clock cycle.                                              *)
(***************************************************************************)
EXTENDS Integers, Sequences, FiniteSets

CONSTANTS
  STORE_BUF_DEPTH,  (* places of the ring, a power of two: pointers wrap by overflow *)
  Addr,             (* word addresses                                                *)
  Payload           (* data and byte mask of a store                                 *)

ASSUME DepthAssumption ==
  STORE_BUF_DEPTH \in Nat /\ \E k \in 0 .. STORE_BUF_DEPTH : STORE_BUF_DEPTH = 2^k
ASSUME StoreAssumption == Addr \subseteq Nat /\ Addr # {} /\ Payload # {}

MemWr == [mem_addr : Addr, payload : Payload]
Idx   == 0 .. STORE_BUF_DEPTH - 1

(* Maybe(T): a sequence of at most one element. *)
Maybe(T) == {<<>>} \cup {<<x>> : x \in T}

VARIABLES
  storage,      (* storage[i]: the store in place i                     *)
  head_r,       (* the place the next store enters                      *)
  tail_r,       (* the place of the oldest store                        *)
  full_r,       (* port 0 of the flag that tells full from empty        *)
  pending_buf,  (* the store on the bus, until its response arrives     *)
  accepted      (* history: the store that was put in the last cycle    *)

vars == <<storage, head_r, tail_r, full_r, pending_buf, accepted>>

-----------------------------------------------------------------------------
(* Mutant of truncate_idx: no wrap. *)
truncate_idx_unwrapped(a, b) == a + b

truncate_idx(a, b) == IF a + b >= STORE_BUF_DEPTH THEN a + b - STORE_BUF_DEPTH ELSE a + b

(* Mutant of flush_full: the flag is never cleared. *)
flush_full_never == full_r

(* Port 1 of full_r: flush_full has cleared the flag if the pointers differ. *)
flush_full == full_r /\ head_r = tail_r

(* What the unit shows of the internal buffer to the outside; these read     *)
(* port 0 of the flag.                                                       *)
internal_empty == tail_r = head_r /\ ~full_r
full           == full_r

(* The pipeline FIFO pending_buf counts as empty in the cycle that empties it. *)
empty(response) == internal_empty /\ (pending_buf = <<>> \/ response)

(* The search of the ring: from the tail on, up to the head or once around;  *)
(* of several hits the last one, the youngest store, is taken.               *)
Searched(k) == flush_full \/ \A j \in 0 .. k : truncate_idx(tail_r, j) # head_r

Hits(addr) == {k \in Idx : Searched(k) /\ storage[truncate_idx(tail_r, k)].mem_addr = addr}

(* Mutant of internal_forward: of several hits the oldest is taken. *)
internal_forward_oldest(addr) ==
  {storage[truncate_idx(tail_r, k)] : k \in {h \in Hits(addr) : \A g \in Hits(addr) : h <= g}}

internal_forward(addr) ==
  {storage[truncate_idx(tail_r, k)] : k \in {h \in Hits(addr) : \A g \in Hits(addr) : g <= h}}

(* The store on the bus; 0 stands for no address on forward_pending. *)
pending_store(addr) ==
  {pending_buf[k] : k \in {h \in 1 .. Len(pending_buf) :
                             pending_buf[h].mem_addr = addr /\ addr # 0}}

(* forward: a waiting store is younger than the one on the bus. *)
forward(addr) == IF internal_forward(addr) # {} THEN internal_forward(addr)
                                                ELSE pending_store(addr)

-----------------------------------------------------------------------------
Init ==
  /\ storage \in [Idx -> {CHOOSE s \in MemWr : TRUE}]  \* not reset, never read
  /\ head_r = 0
  /\ tail_r = 0
  /\ full_r = FALSE
  /\ pending_buf = <<>>
  /\ accepted = <<>>

(* Mutant of enq: the insertion that closes the ring does not set the flag. *)
enq_unflagged(put) ==
  /\ put # <<>> => ~flush_full
  /\ storage' = IF put = <<>> THEN storage ELSE [storage EXCEPT ![head_r] = put[1]]
  /\ head_r'  = IF put = <<>> THEN head_r ELSE truncate_idx(head_r, 1)
  /\ accepted' = put
  /\ full_r'  = flush_full

(* enq: the insertion that makes the head meet the tail sets the flag. *)
enq(put) ==
  /\ put # <<>> => ~flush_full
  /\ storage' = IF put = <<>> THEN storage ELSE [storage EXCEPT ![head_r] = put[1]]
  /\ head_r'  = IF put = <<>> THEN head_r ELSE truncate_idx(head_r, 1)
  /\ accepted' = put
  /\ full_r'  = (flush_full \/ (put # <<>> /\ tail_r = truncate_idx(head_r, 1)))

(* write.request.get: the oldest store leaves for the bus; write.response:   *)
(* the bus is done with the store it has.  Both may happen in one cycle.     *)
deq(get, response) ==
  /\ response => pending_buf # <<>>
  /\ get => ~internal_empty /\ (pending_buf = <<>> \/ response)
  /\ tail_r' = IF get THEN truncate_idx(tail_r, 1) ELSE tail_r
  /\ pending_buf' = IF get THEN <<storage[tail_r]>>
                    ELSE IF response THEN <<>> ELSE pending_buf

Clock(put, get, response) == enq(put) /\ deq(get, response)

Next == \E put \in Maybe(MemWr), get, response \in BOOLEAN : Clock(put, get, response)

Spec == Init /\ [][Next]_vars

-----------------------------------------------------------------------------
TypeOK ==
  /\ storage \in [Idx -> MemWr]
  /\ head_r \in Idx
  /\ tail_r \in Idx
  /\ full_r \in BOOLEAN
  /\ pending_buf \in Maybe(MemWr)
  /\ accepted \in Maybe(MemWr)

(* How many stores wait in the ring, as its pointers and the flag say. *)
amount == IF head_r = tail_r THEN IF full_r THEN STORE_BUF_DEPTH ELSE 0
          ELSE IF head_r > tail_r THEN head_r - tail_r
               ELSE head_r + STORE_BUF_DEPTH - tail_r

Waiting == [k \in 1 .. amount |-> storage[truncate_idx(tail_r, k - 1)]]

(* The buffer is a queue of stores: a flag that were set or cleared at the   *)
(* wrong time would make a whole ring of stores appear or vanish.            *)
Queue == INSTANCE StoreQueue WITH
           Capacity <- STORE_BUF_DEPTH, Store <- MemWr,
           waiting <- Waiting, pending <- pending_buf
StoresInOrder == Queue!Spec

(* A load is answered from the youngest store to its word that memory has    *)
(* not confirmed, in every cycle of that store's stay: also in the cycle it  *)
(* changes from the ring to the bus, and while the flag is stale.  Word 0 is *)
(* left out: forward_pending uses it to say that nothing is pending.         *)
Unconfirmed == pending_buf \o Waiting

ForwardsYoungest ==
  \A a \in Addr \ {0} :
    forward(a) = {Unconfirmed[k] : k \in
      {h \in 1 .. Len(Unconfirmed) :
         /\ Unconfirmed[h].mem_addr = a
         /\ \A g \in h + 1 .. Len(Unconfirmed) : Unconfirmed[g].mem_addr # a}}

-----------------------------------------------------------------------------
(* The load/store unit puts no store while the buffer reports full, which is *)
(* stricter than the guard of enq.  Memory takes a store that is offered and *)
(* answers the one it has.                                                   *)
LsuCycle(put, get, response) == (full => put = <<>>) /\ Clock(put, get, response)

LsuNext  == \E put \in Maybe(MemWr), get, response \in BOOLEAN : LsuCycle(put, get, response)
Sends    == \E put \in Maybe(MemWr), response \in BOOLEAN : LsuCycle(put, TRUE, response)
Responds == \E put \in Maybe(MemWr), get \in BOOLEAN : LsuCycle(put, get, TRUE)

FairSpec == Init /\ [][LsuNext]_vars /\ WF_vars(Sends) /\ WF_vars(Responds)

(* A buffer that reports full stops doing so, and the unit may store again.  *)
FullClears == full ~> ~full
=============================================================================
