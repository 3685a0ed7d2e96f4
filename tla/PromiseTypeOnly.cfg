SPECIFICATION Spec
CONSTANTS
  Addresses = {a1}
  Switch = {"promise_type"}
  MaxPromises = 1
  MaxCalls = 1
  MaxPasses = 1
SYMMETRY Symmetry
INVARIANTS AlwaysMapped
\* The passes are bounded, and a failed assertion ends the process.
CHECK_DEADLOCK FALSE
