-------------------------- MODULE MCSpeculationCore --------------------------
(* Small instances of SpeculationCore: programs of five addresses.           *)
EXTENDS SpeculationCore

op(d, s)     == [kind |-> "op", rd |-> d, rs |-> s, target |-> 0]
branch(s, a) == [kind |-> "branch", rd |-> 0, rs |-> s, target |-> a]
plain(k)     == [kind |-> k, rd |-> 0, rs |-> 0, target |-> 0]
csr(d, s)    == [kind |-> "csr", rd |-> d, rs |-> s, target |-> 0]

Text(s) == [a \in 0 .. Len(s) - 1 |-> s[a + 1]]

(* The handler is at address 3. *)
MCPrograms ==
  {Text(<<op(1, 1), branch(1, 0), op(1, 1), op(1, 1), plain("mret")>>),
   Text(<<op(1, 1), [op(1, 1) EXCEPT !.kind = "fault"], op(1, 1), op(1, 1), plain("mret")>>),
   Text(<<op(1, 1), csr(1, 1), branch(1, 1), op(1, 1), plain("mret")>>),
   Text(<<branch(1, 2), op(1, 1), plain("ecall"), op(1, 1), plain("mret")>>)}
=============================================================================
