SPECIFICATION Spec
CONSTANTS
  ColumnTypes <- Mixed
  MaxRows = 4
  Capacity = 3
  InputSize = 4
  OldRows = 5
  CountLimit = 3
INVARIANTS TypeOK HeaderTruthful ClosedIsComplete ReaderInStep
PROPERTIES AllOrNothing Closes
\* A table that is closed, and a process that has ended, stop.
CHECK_DEADLOCK FALSE
