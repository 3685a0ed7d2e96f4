------------------------ MODULE MCFunctionIdentity ------------------------
(* Instances of FunctionIdentity for TLC: addresses are interchangeable, and *)
(* so are definitions.                                                       *)
EXTENDS FunctionIdentity

Symmetry == Permutations(Addresses) \cup Permutations(Definitions)
=============================================================================
