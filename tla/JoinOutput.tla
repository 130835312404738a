----------------------------- MODULE JoinOutput -----------------------------
(***************************************************************************)
(* What a join operator promises its consumer (spec section 8, "the       *)
(* result equals the relational join"): it emits, in batches, tuples of   *)
(* the join result it has not emitted yet, and it finishes once it has    *)
(* emitted all of them.  The order of tuples and the batch sizes are free. *)
(***************************************************************************)
EXTENDS Bags

VARIABLES
  result,   \* the join of the probe and build sides
  out,      \* bag of the tuples emitted so far
  done      \* the operator has finished

vars == << result, out, done >>

Init == out = EmptyBag /\ done = FALSE

\* emit a non-empty batch of fresh tuples of the result
Emit ==
  /\ ~done
  /\ \E S \in SUBSET (result \ BagToSet(out)) :
       /\ S # {}
       /\ out' = out (+) SetToBag(S)
  /\ UNCHANGED << result, done >>

\* finish once every tuple of the result was emitted
Finish ==
  /\ ~done
  /\ BagToSet(out) = result
  /\ done' = TRUE
  /\ UNCHANGED << result, out >>

Spec == Init /\ [][Emit \/ Finish]_vars /\ WF_vars(Emit \/ Finish)
=============================================================================
