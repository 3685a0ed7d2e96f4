SPECIFICATION StrictnessSpec
CONSTANTS
  Promises = {p1, p2}
  Contexts = {c1}
  TopLevel = top
  MaxCalls = 2
  MaxDepth = 3
  Positions = {0, 1}
  MaxForces = 2
  MaxUses = 1
SYMMETRY Symmetry
INVARIANTS StrictnessTypeOK OrderListsForced RowsRepeat
PROPERTIES OrdersAreTrue EscapesAreTrue
\* The uses are bounded, and undefined behaviour ends the process.
CHECK_DEADLOCK FALSE
