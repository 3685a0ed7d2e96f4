SPECIFICATION Spec
CONSTANTS
  Promises = {p1, p2}
  Contexts = {c1, c2}
  TopLevel = top
  MaxCalls = 3
  MaxDepth = 5
SYMMETRY Symmetry
INVARIANTS TypeOK FullStackMirrors CallStackAgrees NeverFails TraceNests CallsAccounted CallerIsParent
PROPERTY ImplementsCallLog
\* The process has ended once a handler met undefined behaviour.
CHECK_DEADLOCK FALSE
