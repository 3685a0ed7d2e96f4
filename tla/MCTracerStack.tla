--------------------------- MODULE MCTracerStack ---------------------------
(* Instances of TracerStack for TLC: promises are interchangeable, and so *)
(* are contexts.                                                          *)
EXTENDS TracerStack, TLC

Symmetry == Permutations(Promises) \cup Permutations(Contexts)
=============================================================================
