\* One seek while the reader resolves the bounds of a chunk.
SPECIFICATION Spec
CONSTANTS
  TrackCount    = 2
  LookupLen     = 2
  WindowEntries = 2
  ReadChunks    = 1
  QueueDepth    = 2
  PcmCapacity   = 1
  MaxGen        = 2
  MaxCmds       = 1
  MaxUnmounts   = 0
  IoErrors      = FALSE
  Timeouts      = FALSE
  Prompt        = TRUE
INVARIANTS
  BoundsAssertion
CHECK_DEADLOCK FALSE
