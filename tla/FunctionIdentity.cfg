SPECIFICATION Spec
CONSTANTS
  Addresses = {a1, a2}
  Definitions = {d1, d2}
  MaxObjects = 4
  MaxCalls = 3
  MaxPasses = 2
SYMMETRY Symmetry
INVARIANTS DefinitionsAreTrue CallsNameTheirFunction BodiesOnFile
\* The passes are bounded.
CHECK_DEADLOCK FALSE
