SPECIFICATION Spec
CONSTANTS
  Addresses = {g, e}
  Global = g
  Symbols = {x, y}
  Promises = {p}
  MaxObjects = 3
  MaxActions = 2
  MaxDepth = 2
SYMMETRY Symmetry
INVARIANTS TypeOK ObserversAreTrue
PROPERTIES IdsNameOneVariable NoActionLost
VIEW View
