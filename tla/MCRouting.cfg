CONSTANTS
  Null = Null
  Rows <- MCRows
SPECIFICATION Spec
INVARIANTS
  TypeOK
  ExclusiveRouting
  LostOnlyWithoutStatus
  FaultNamed
  
  
\* a row is read once, and then its two branches have nothing left to do
CHECK_DEADLOCK FALSE
