\* Two tables, three runs of the script and two failures: a run can find jobs of
\* two earlier runs, and a job can fail before the list, or between list and cancel.
\* The system may come to rest.
CONSTANTS
  Table = {"orders", "payments"}
  MaxRuns = 3
  MaxFaults = 2
SPECIFICATION FairSpec
INVARIANT
  SurvivorsMissed
PROPERTY
  TakesOver
CHECK_DEADLOCK FALSE
