SPECIFICATION Spec
CONSTANTS
  Paths <- MCTwoPaths
  MaxCount = 2
  MaxOpens = 2
  MaxCmds = 3
  MaxEs = 2
  SlowThreads = TRUE
  NULL = NULL
INVARIANTS TypeOK InputDemuxOpen PackagesOwned PackagesInOrder ThreadsMatchState
\* The process may die, and the release of the patch may hang.
CHECK_DEADLOCK FALSE
