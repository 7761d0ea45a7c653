SPECIFICATION FairSpec
CONSTANTS
  a = a
  b = b
  Streams <- MCStreams
  Framework <- MCStreams
  NInports = 2
  Cap = 4
  ChunkLen = 2
  WriteLens <- MCWriteLens
  MaxUnits = 5
  NULL = NULL
  None = None
  Mixer = Mixer
INVARIANTS TypeOK NothingFreedIsUsed TablesAgree StreamIntact
PROPERTIES ChannelsSpec WritesReturn ExitTaken
