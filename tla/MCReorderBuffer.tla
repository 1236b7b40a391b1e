-------------------------- MODULE MCReorderBuffer --------------------------
(* Instances of the reorder buffer for TLC.  The buffer treats its entries  *)
(* alike and their tags differ, so two instructions are enough to see one   *)
(* lost, repeated or overtaken.                                             *)
EXTENDS ReorderBuffer

CONSTANTS add, load

MCInst == {add, load}
=============================================================================
