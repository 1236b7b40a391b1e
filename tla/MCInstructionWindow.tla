------------------------- MODULE MCInstructionWindow -------------------------
(* A small instance of InstructionWindow: three banks, a window that is not *)
(* a multiple of them.                                                      *)
EXTENDS InstructionWindow
==============================================================================
