\* Two tasks set the playback mode at the same time.
SPECIFICATION Spec
CONSTANTS
  TrackCount      = 3
  LookupLen       = 3
  RestartSeconds  = 1
  FastSeekSeconds = 2
  Setters         = {console, companion}
  Undisturbed     = FALSE
INVARIANTS
  OrderIsPermutation
CHECK_DEADLOCK FALSE
