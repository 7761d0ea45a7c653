SPECIFICATION Spec
CONSTANTS
  Paths <- MCOnePath
  MaxCount = 1
  MaxOpens = 1
  MaxCmds = 3
  MaxEs = 1
  SlowThreads = FALSE
  NULL = NULL
PROPERTY ThreadsExitBeforeClose
\* The process may die, and the release of the patch may hang.
CHECK_DEADLOCK FALSE
