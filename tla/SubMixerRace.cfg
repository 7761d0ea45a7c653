SPECIFICATION Spec
CONSTANTS
  a = a
  b = b
  Streams <- MCStreams
  Framework <- MCFramework
  NInports = 2
  Cap = 4
  ChunkLen = 2
  WriteLens <- MCWriteLens
  MaxUnits = 5
  NULL = NULL
  None = None
  Mixer = Mixer
INVARIANT IndexWasAvailable
\* A use of freed memory ends the process.
CHECK_DEADLOCK FALSE
