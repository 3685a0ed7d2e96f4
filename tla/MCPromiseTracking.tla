------------------------- MODULE MCPromiseTracking -------------------------
(* Instances of PromiseTracking for TLC: addresses are interchangeable. *)
EXTENDS PromiseTracking

Symmetry == Permutations(Addresses)
=============================================================================
