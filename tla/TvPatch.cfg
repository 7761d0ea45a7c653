SPECIFICATION Spec
CONSTANTS
  WriteBytes <- MCWriteBytes
  RingSize <- MCRingSize
  MaxCaptured = 2
  MaxChanges = 2
INVARIANTS TypeOK InOrder OldDataIsOnePeriod StartsAtSyncWord NothingFreedIsUsed
PROPERTIES ReleaseReturns FormatIsFollowed
\* The patch is released, or the process dies.
CHECK_DEADLOCK FALSE
