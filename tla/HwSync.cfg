SPECIFICATION Spec
CONSTANTS
  NA = NA
  EOS = EOS
  MaxBody = 3
  Misread <- MCMisread
  Payloads <- MCPayloads
  Bursts <- MCBursts
  Dts = FALSE
  AptsNum = 2
  Capacity = 3
  MaxFlushes = 2
INVARIANTS TypeOK OffsetsMatchInput LookupIsLatest NothingIsLost
\* The stream ends.
CHECK_DEADLOCK FALSE
