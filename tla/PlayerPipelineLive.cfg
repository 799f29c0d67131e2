\* Whole tracks of three chunks, two lookup windows and two reads each; one
\* command; fair tasks.
SPECIFICATION FairSpec
CONSTANTS
  TrackCount    = 1
  LookupLen     = 3
  WindowEntries = 2
  ReadChunks    = 2
  QueueDepth    = 2
  PcmCapacity   = 1
  MaxGen        = 2
  MaxCmds       = 1
  MaxUnmounts   = 0
  IoErrors      = FALSE
  Timeouts      = FALSE
  Prompt        = TRUE
PROPERTIES
  PlaysInOrder
  WholeTrack
  StopEnds
  AutoAdvance
CHECK_DEADLOCK FALSE
