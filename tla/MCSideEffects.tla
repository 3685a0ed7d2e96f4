--------------------------- MODULE MCSideEffects ---------------------------
(* Instances of SideEffects for TLC: the environments that are not Global   *)
(* are interchangeable, and so are promises.                                *)
EXTENDS SideEffects

Symmetry == Permutations(Addresses \ {Global}) \cup Permutations(Promises) \cup Permutations(Symbols)

(* What later steps depend on: of an environment object, whether it is      *)
(* there, its variables and when they were written; nothing of one that is  *)
(* gone, nor the counts, which are added to and never read, nor the latest  *)
(* action.  TLC checks the action properties on every step, also on one to  *)
(* a state that looks like an earlier one.                                  *)
View ==
  <<objects, [a \in Live |-> <<bindings[heap[a]], written[heap[a]]>>], created, observed, clock,
    full_stack, numbering, timestamp, promise_timestamps, variable_timestamps, observers>>
=============================================================================
