---------------------------- MODULE MCStrictness ----------------------------
(* Instances of Strictness for TLC: promises are interchangeable, and so are *)
(* contexts.                                                                 *)
EXTENDS Strictness, TLC

Symmetry == Permutations(Promises) \cup Permutations(Contexts)
=============================================================================
