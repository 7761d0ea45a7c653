SPECIFICATION Spec
CONSTANTS
  pcm = pcm
  raw = raw
  Streams <- MCStreams
  Raw <- MCRaw
  Synced <- MCRaw
  MaxCalls = 8
  MaxMessages = 12
  NULL = NULL
INVARIANTS TypeOK NothingFreedIsUsed PausedOnlyIfAsked FlagsAgree 
PROPERTIES CallsReturn ThreadJoined
\* The framework may stop calling, and the process may die.
CHECK_DEADLOCK FALSE
