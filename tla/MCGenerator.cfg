\* Two writers, three orders in batches of two and bursts of one, one item an order, and
\* a list of one entry, so that every further order trims it.
CONSTANTS
  OrderId = {o1, o2, o3}
  Existing <- MCExisting
  Fresh <- MCFresh
  Null = Null
  BatchSize = 2
  BurstSize = 1
  MaxItems = 1
  Limit = 1
SPECIFICATION FairSpec
INVARIANTS
  OrdersWhole
  ListedCommitted
  SuccessesCommitted
PROPERTY
  TasksKeepRunning
