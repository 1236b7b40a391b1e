------------------------ MODULE SpeculativeRegisters ------------------------
(***************************************************************************)
(* The registers of one core: the speculative ones with the tags of        *)
(* pending instructions (regfile/RegFileEvo.bsv), the architectural ones   *)
(* (regfile/RegFileArch.bsv) with the buffer of commit in front of them,   *)
(* and how issue gathers operands (exec_core/Issue.bsv).                   *)
(*                                                                         *)
(* Within a cycle the result bus comes first, issue reads and reserves     *)
(* next, a flush comes last: the three ports of the speculative registers. *)
(* Writes of commit reach the architectural registers a cycle later and    *)
(* are read another cycle later.                                           *)
(***************************************************************************)
EXTENDS Naturals, Sequences

CONSTANTS Register, Tag, Value

VARIABLES
  registers,   (* speculative: the tag of the youngest writer, its value,   *)
               (* or Invalid                                                *)
  regs,        (* architectural                                             *)
  out_buffer   (* what commit wrote in the last cycle, in program order     *)

reg_vars == <<registers, regs, out_buffer>>

Invalid    == [is |-> "Invalid"]
AsTag(t)   == [is |-> "Tag", tag |-> t]
AsValue(v) == [is |-> "Value", value |-> v]

OperandRS == [is : {"Tag"}, tag : Tag] \cup [is : {"Value"}, value : Value]
EvoEntry  == OperandRS \cup {Invalid}

InitRegisters ==
  /\ registers  = [r \in Register |-> Invalid]
  /\ regs       = [r \in Register |-> 0]
  /\ out_buffer = <<>>

(* An entry or operand after the results on a bus have passed. *)
latch(entry, bus) ==
  IF entry.is = "Tag" /\ \E res \in bus : res.tag = entry.tag
  THEN AsValue((CHOOSE res \in bus : res.tag = entry.tag).value)
  ELSE entry

(* Port 1 of the speculative registers, behind the result bus. *)
result_bus(bus) == [r \in Register |-> latch(registers[r], bus)]

(* What issue reads: the speculative register, or the architectural one if  *)
(* that is Invalid.  Register 0 is 0.                                       *)
read_registers(r, bus) ==
  IF r = 0 THEN AsValue(0)
  ELSE IF result_bus(bus)[r] = Invalid THEN AsValue(regs[r])
  ELSE result_bus(bus)[r]

(* Mutant of cross_dependant: looks at instructions of any epoch. *)
cross_dependant_any(insts, n) ==
  {k \in 1 .. n - 1 : insts[n].rs # 0 /\ insts[k].rd = insts[n].rs}

(* The instructions of the bundle in front of the n-th that write its source. *)
cross_dependant(insts, n) ==
  {k \in 1 .. n - 1 : /\ insts[n].rs # 0
                      /\ insts[k].rd = insts[n].rs
                      /\ insts[k].epoch = insts[n].epoch}

(* The operand of the n-th instruction of the bundle: the youngest of them,  *)
(* or what the registers say.                                               *)
gather_operand(insts, n, bus) ==
  LET writers == cross_dependant(insts, n)
  IN  IF writers = {} THEN read_registers(insts[n].rs, bus)
      ELSE AsTag(insts[CHOOSE k \in writers : \A j \in writers : j <= k].tag)

(* Mutant of reserve_registers: puts back what the result bus has replaced. *)
reserve_registers_early(insts, bus, epoch) ==
  [r \in Register |->
     LET writers == {k \in 1 .. Len(insts) : insts[k].rd = r /\ insts[k].epoch = epoch}
     IN  IF writers = {} THEN registers[r]
         ELSE AsTag(insts[CHOOSE k \in writers : \A j \in writers : j <= k].tag)]

(* Destinations hold the tag of their youngest writer, unless the bundle's   *)
(* instruction is of an old epoch.                                          *)
reserve_registers(insts, bus, epoch) ==
  [r \in Register |->
     LET writers == {k \in 1 .. Len(insts) : insts[k].rd = r /\ insts[k].epoch = epoch}
     IN  IF writers = {} THEN result_bus(bus)[r]
         ELSE AsTag(insts[CHOOSE k \in writers : \A j \in writers : j <= k].tag)]

(* The architectural registers with the buffer written to them. *)
Written ==
  [r \in Register |->
     LET writers == {k \in 1 .. Len(out_buffer) : out_buffer[k].addr = r}
     IN  IF writers = {} THEN regs[r]
         ELSE out_buffer[CHOOSE k \in writers : \A j \in writers : j <= k].data]

(* One cycle: bus is on the result bus, insts are issued, commit writes      *)
(* writes and perhaps flushes.                                              *)
RegisterCycle(bus, insts, epoch, flush, writes) ==
  /\ registers'  = IF flush THEN [r \in Register |-> Invalid]
                            ELSE reserve_registers(insts, bus, epoch)
  /\ regs'       = Written
  /\ out_buffer' = writes

RegistersOK ==
  /\ registers \in [Register -> EvoEntry]
  /\ regs \in [Register -> Value]
  /\ out_buffer \in Seq([addr : Register \cup {0}, data : Value])
=============================================================================
