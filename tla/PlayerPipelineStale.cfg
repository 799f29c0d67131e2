\* As PlayerPipelinePrompt, but the service may overtake the start of a track.
SPECIFICATION Spec
CONSTANTS
  TrackCount    = 2
  LookupLen     = 2
  WindowEntries = 2
  ReadChunks    = 1
  QueueDepth    = 2
  PcmCapacity   = 1
  MaxGen        = 2
  MaxCmds       = 1
  MaxUnmounts   = 0
  IoErrors      = FALSE
  Timeouts      = FALSE
  Prompt        = FALSE
INVARIANTS
  NoStaleChunk
CHECK_DEADLOCK FALSE
