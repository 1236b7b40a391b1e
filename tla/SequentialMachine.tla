------------------------- MODULE SequentialMachine -------------------------
(***************************************************************************)
(* What a program is promised by the core: its instructions execute one    *)
(* after the other, each with what the ones before it left in the          *)
(* registers, along a path that only a branch, a trap or a return bends.   *)
(*                                                                         *)
(* A step executes a bundle, that is what one cycle commits, and may take  *)
(* an interrupt behind it.                                                 *)
(***************************************************************************)
EXTENDS Naturals, Sequences

CONSTANTS Width, Size, TVEC, Register

VARIABLES
  text,     (* the program: an instruction for every address               *)
  pc,       (* the address of the next instruction                         *)
  regs,     (* the registers                                               *)
  mepc,     (* where mret goes                                             *)
  masked,   (* interrupts wait for an mret                                 *)
  bundle    (* what the last step executed: [pc, src, value, next, except] *)

vars == <<text, pc, regs, mepc, masked, bundle>>

Follow(a) == (a + 1) % Size

(* The value a register has before the n-th instruction of b. *)
Before(b, n, r) ==
  LET writers == {k \in 1 .. n - 1 : text[b[k].pc].rd = r /\ ~b[k].except}
  IN  IF r = 0 THEN 0
      ELSE IF writers = {} THEN regs[r]
      ELSE b[CHOOSE k \in writers : \A j \in writers : j <= k].value

(* Where an instruction may lead. *)
Successors(e) ==
  LET inst == text[e.pc]
  IN  IF e.except THEN {TVEC}
      ELSE IF inst.kind = "mret" THEN {mepc}
      ELSE IF inst.kind = "branch" THEN {Follow(e.pc), inst.target}
      ELSE {Follow(e.pc)}

Traps(e) == e.except \/ text[e.pc].kind = "mret"

Legal(b) ==
  /\ Len(b) <= Width
  /\ \A n \in 1 .. Len(b) :
       /\ b[n].pc = IF n = 1 THEN pc ELSE b[n - 1].next
       /\ b[n].src = Before(b, n, text[b[n].pc].rs)
       /\ b[n].next \in Successors(b[n])
       /\ Traps(b[n]) => n = Len(b)

Last(b) == b[Len(b)]

Reached(b) == IF b = <<>> THEN pc ELSE Last(b).next

(* An environment call masks interrupts, a return unmasks them. *)
Masked(b) ==
  IF b = <<>> THEN masked
  ELSE CASE text[Last(b).pc].kind = "ecall" -> TRUE
         [] text[Last(b).pc].kind = "mret"  -> FALSE
         [] OTHER                           -> masked

Init ==
  /\ pc = 0 /\ mepc = 0 /\ masked = FALSE /\ bundle = <<>>
  /\ regs = [r \in Register |-> 0]

Execute ==
  /\ Legal(bundle')
  /\ regs' = [r \in Register |-> Before(bundle', Len(bundle') + 1, r)]
  /\ UNCHANGED text
  /\ \/ /\ pc' = Reached(bundle')
        /\ masked' = Masked(bundle')
        /\ mepc' = IF bundle' # <<>> /\ Last(bundle').except THEN Last(bundle').pc ELSE mepc
     \/ /\ ~Masked(bundle')
        /\ pc' = TVEC
        /\ masked' = TRUE
        /\ mepc' = Reached(bundle')

Spec == Init /\ [][Execute]_vars
=============================================================================
