SPECIFICATION FairSpec
CONSTANTS
  Paths <- MCOnePath
  MaxCount = 1
  MaxOpens = 1
  MaxCmds = 1
  MaxEs = 1
  SlowThreads = FALSE
  NULL = NULL
PROPERTY ReleaseReturns
\* The release of the patch may hang.
CHECK_DEADLOCK FALSE
