\* Every program on its own input and on every short one, with two failures a job: see
\* the module. The inputs end, and the jobs with them.
CONSTANTS
  Absent = Absent
  Words <- MCWords
  Files <- MCFiles
  Tables <- MCTables
  Parsed <- MCParsed
  Messages <- MCMessages
  Backlog <- MCBacklog
  Collected <- MCCollected
  MaxDrawn = 3
  MaxFailures = 2
SPECIFICATION Spec
INVARIANTS
  FilesExact
  ViewExact
  PartsMerge
  PoisonBlocks
  NoneSkipped
  WithoutFailureExact
  DocumentsExact
PROPERTY
  JobsComplete
CHECK_DEADLOCK FALSE
