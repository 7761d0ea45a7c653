SPECIFICATION Spec
CONSTANTS
  Paths <- MCOnePath
  MaxCount = 1
  MaxOpens = 1
  MaxCmds = 4
  MaxEs = 1
  SlowThreads = FALSE
  NULL = NULL
PROPERTY FirstNewData
\* The process may die, and the release of the patch may hang.
CHECK_DEADLOCK FALSE
