------------------------------- MODULE MCFetch -------------------------------
(* A small instance of Fetch. *)
EXTENDS Fetch
==============================================================================
