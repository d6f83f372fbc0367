CONSTANTS
  Null = Null
  NoRow = NoRow
  None = None
  Row <- OrderRows
  Key <- OrderKeys
  KeyOf <- OrderKeyOf
  Verdict <- OrderVerdict
  MaxCrashes = 1
  MaxDeploys = 2
  MaxTime = 1
SPECIFICATION FairSpec
INVARIANTS
  TypeOK
  IInv
  ErrorsReported
  SlotSafe
PROPERTIES
  ImplementsTable
  Delivered
  SlotReleased
