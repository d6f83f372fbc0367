CONSTANTS
  Null = Null
  NoRow = NoRow
  None = None
  Row <- OrderRows
  Key <- OrderKeys
  KeyOf <- OrderKeyOf
  Verdict <- OrderVerdict
  MaxCrashes = 1
  MaxDeploys = 1
  MaxTime = 1
SPECIFICATION Spec
INVARIANT
  ErrorCountExact
