\* Every program on its own input and on every short one: see the module. The inputs
\* end, and the jobs with them.
CONSTANTS
  Absent = Absent
  WindowJobs <- MCWindowJobs
  Counted <- MCCounted
  RowStreams <- MCRowStreams
  Summed <- MCSummed
  Sources <- MCSources
  MaxExpired = 2
SPECIFICATION Spec
INVARIANTS
  Tiled
  SumsOfSuffixes
  Accounted
PROPERTIES
  AllReported
  ImplementsResults
CHECK_DEADLOCK FALSE
