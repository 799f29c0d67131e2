\* Two callers' commands in any order, tasks prompt in their hand-over windows.
SPECIFICATION Spec
CONSTANTS
  TrackCount    = 2
  LookupLen     = 2
  WindowEntries = 2
  ReadChunks    = 1
  QueueDepth    = 3
  PcmCapacity   = 1
  MaxGen        = 3
  MaxCmds       = 2
  MaxUnmounts   = 0
  IoErrors      = FALSE
  Timeouts      = FALSE
  Prompt        = TRUE
INVARIANTS
  NoStaleChunk
  SingleRead
  ChunkIntact
  PcmFresh
  PoolConserved
  PausedIsQuiet
PROPERTIES
  NeverGivenUp
  OneSession
CHECK_DEADLOCK FALSE
