SPECIFICATION Spec
CONSTANTS
  Promises = {p1, p2}
  Addresses = {a1, a2}
  Nil = nil
  Primitives = {"special"}
  MaxEnvironments = 3
  MaxDepth = 3
  MaxPasses = 2
SYMMETRY Symmetry
INVARIANTS TypeOK EnvironmentIdsAreTrue
PROPERTY EvaluationsAreTrue
\* The passes are bounded.
CHECK_DEADLOCK FALSE
