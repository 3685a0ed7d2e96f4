SPECIFICATION Spec
CONSTANTS
  Addresses = {a1}
  Switch = {"strictness", "promise_evaluation", "promise_slot_mutation", "promise_type"}
  MaxPromises = 1
  MaxCalls = 1
  MaxPasses = 1
SYMMETRY Symmetry
INVARIANTS OriginIsArgument
\* The passes are bounded, and a failed assertion ends the process.
CHECK_DEADLOCK FALSE
