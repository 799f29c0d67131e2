\* Everything may go wrong: late tasks, I/O errors, timeouts, an unmount.
SPECIFICATION Spec
CONSTANTS
  TrackCount    = 1
  LookupLen     = 1
  WindowEntries = 2
  ReadChunks    = 1
  QueueDepth    = 2
  PcmCapacity   = 1
  MaxGen        = 2
  MaxCmds       = 1
  MaxUnmounts   = 1
  IoErrors      = TRUE
  Timeouts      = TRUE
  Prompt        = FALSE
INVARIANTS
  TypeOK
  NoLostWakeup
  CompletionOnce
  PlayingIsLoaded
CHECK_DEADLOCK FALSE
