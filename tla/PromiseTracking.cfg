SPECIFICATION Spec
CONSTANTS
  Addresses = {a1, a2}
  Switch = {"strictness", "promise_evaluation", "promise_slot_mutation", "promise_type"}
  MaxPromises = 3
  MaxCalls = 2
  MaxPasses = 2
SYMMETRY Symmetry
INVARIANTS TypeOK MapperFollowsHeap OriginIsArgumentButZero EveryArgumentHasOrigin PromisesConserved AlwaysMapped IdsNameOnePromise
\* The passes are bounded, and a failed assertion ends the process.
CHECK_DEADLOCK FALSE
