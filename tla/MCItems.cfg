CONSTANTS
  Null = Null
  NoRow = NoRow
  None = None
  Row <- ItemRows
  Key <- ItemKeys
  KeyOf <- ItemKeyOf
  Verdict <- ItemVerdict
  MaxCrashes = 2
  MaxDeploys = 2
  MaxTime = 0
SPECIFICATION Spec
INVARIANTS
  CheckpointCovered
  PoisonNeverPassed
PROPERTY
  PublishedNeverRegresses
