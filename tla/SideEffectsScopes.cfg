SPECIFICATION Spec
CONSTANTS
  Addresses = {g}
  Global = g
  Symbols = {x}
  Promises = {p}
  MaxObjects = 1
  MaxActions = 1
  MaxDepth = 1
SYMMETRY Symmetry
PROPERTIES CountedByScope
