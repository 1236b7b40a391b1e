---------------------------- MODULE PredictedPath ----------------------------
(***************************************************************************)
(* What fetching promises to the stages behind it: the instructions of a   *)
(* thread come as a path on which each one is at the address predicted by  *)
(* the one before, until a redirect starts another path under the next     *)
(* epoch.  Commit relies on it: it compares what an instruction led to     *)
(* with what was predicted, and never with what came.                      *)
(***************************************************************************)
EXTENDS Naturals, Sequences

CONSTANTS Thread, PC, EPOCHS

VARIABLES
  next,     (* by thread, the address the path continues at                *)
  epoch,    (* by thread, the epoch of the path                            *)
  out       (* the instructions that go on to decode, if any               *)

vars == <<next, epoch, out>>

Init == /\ next \in [Thread -> PC]
        /\ epoch = [t \in Thread |-> 0]
        /\ out = <<>>

IsPath(b, t) ==
  /\ b # <<>> /\ b[1].pc = next[t]
  /\ \A i \in DOMAIN b : b[i].thread = t /\ b[i].epoch = epoch[t]
  /\ \A i \in 2 .. Len(b) : b[i].pc = b[i - 1].next_pc

Extend(t) ==
  /\ out = <<>>
  /\ out' # <<>> /\ IsPath(out'[1], t)
  /\ next' = [next EXCEPT ![t] = out'[1][Len(out'[1])].next_pc]
  /\ UNCHANGED epoch

Take == out' = <<>> /\ UNCHANGED <<next, epoch>>

Redirect(t) ==
  /\ next' \in [Thread -> PC]
  /\ \A u \in Thread \ {t} : next'[u] = next[u]
  /\ epoch' = [epoch EXCEPT ![t] = (@ + 1) % EPOCHS]
  /\ UNCHANGED out

Next == Take \/ \E t \in Thread : Extend(t) \/ Redirect(t)

Spec == Init /\ [][Next]_vars
==============================================================================
