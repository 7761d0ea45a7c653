SPECIFICATION FairSpec
CONSTANTS
  Paths <- MCOnePath
  MaxCount = 1
  MaxOpens = 2
  MaxCmds = 5
  MaxEs = 2
  SlowThreads = TRUE
  NULL = NULL
PROPERTIES CommandsTaken ControlReturns
\* The process may die, and the release of the patch may hang.
CHECK_DEADLOCK FALSE
