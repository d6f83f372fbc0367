CONSTANTS
  Null = Null
  Rows <- MCRows
SPECIFICATION Spec
INVARIANT
  SeparationTotal
CHECK_DEADLOCK FALSE
