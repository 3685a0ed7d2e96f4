------------------------ MODULE MCPromiseEvaluation ------------------------
(* Instances of PromiseEvaluation for TLC: promises are interchangeable,  *)
(* and so are the addresses of environments.                              *)
EXTENDS PromiseEvaluation

Symmetry == Permutations(Promises) \cup Permutations(Addresses)
=============================================================================
