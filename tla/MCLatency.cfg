\* Seven attempts for sixty, a checkpoint every four for thirty, one unit to the
\* sink and from barrier to commit; two tests, so that the second meets any phase.
CONSTANTS
  Attempts = 7
  Interval = 4
  Delay = 1
  MaxFaults = 2
  MaxTests = 2
SPECIFICATION FairSpec
INVARIANTS
  TimeoutExplained
  LatencyAccurate
PROPERTY
  TestEnds
