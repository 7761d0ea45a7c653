SPECIFICATION Spec
CONSTANTS
  Bytes <- MCBytes
  Zero = 0
  Chunks <- MCChunks
  Counts <- MCCounts
  Drops <- MCDrops
  Sizes <- MCSizes

PROPERTY ResizeEmpties
\* A fault ends the process.
CHECK_DEADLOCK FALSE
