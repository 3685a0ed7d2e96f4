SPECIFICATION StrictnessSpec
CONSTANTS
  Promises = {p1}
  Contexts = {c1}
  TopLevel = top
  MaxCalls = 1
  MaxDepth = 3
  Positions = {0}
  MaxForces = 257
  MaxUses = 0
INVARIANT SingleOrderEntry
CHECK_DEADLOCK FALSE
