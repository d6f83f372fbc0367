\* Two writers, two orders in batches and bursts of two, one item an order, and a list
\* of one entry, so that the second order trims it.
CONSTANTS
  OrderId = {o1, o2}
  Existing <- MCExisting
  Fresh <- MCFresh
  Null = Null
  BatchSize = 2
  BurstSize = 2
  MaxItems = 1
  Limit = 1
SPECIFICATION FairSpec
PROPERTY
  ReviewsAppear
