----------------------------- MODULE MCTypeWalk -----------------------------
(* Instances of TypeWalk for TLC: a function's environment in the global one. *)
EXTENDS TypeWalk

CONSTANTS global, local

MCEnvironments == {global, local}
MCChain == [e \in MCEnvironments |-> IF e = local THEN <<local, global>> ELSE <<global>>]
=============================================================================
