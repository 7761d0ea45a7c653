SPECIFICATION Spec
CONSTANTS
  Bytes <- MCBytes
  Zero = 0
  Chunks <- MCChunks
  Counts <- MCCounts
  Drops <- MCDrops
  Sizes <- MCSizes
INVARIANTS TypeOK InBounds
PROPERTY FifoSpec
\* A fault ends the process.
CHECK_DEADLOCK FALSE
