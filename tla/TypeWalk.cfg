SPECIFICATION Spec
CONSTANTS
  Promises = {p}
  Symbols = {x, y}
  Bytecodes = {b}
  Ends = {v}
  global = global
  local = local
  Environments <- MCEnvironments
  Chain <- MCChain
  Nil = nil
  Unbound = unbound
INVARIANTS PromisesOnce OmegaIsTrue
PROPERTIES TrappedForEver Terminates
\* The walk ends.
CHECK_DEADLOCK FALSE
