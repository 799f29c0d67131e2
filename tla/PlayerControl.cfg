\* Three tracks of three seconds; mode changes do not overlap other tasks.
SPECIFICATION Spec
CONSTANTS
  TrackCount      = 3
  LookupLen       = 3
  RestartSeconds  = 1
  FastSeekSeconds = 2
  Setters         = {console}
  Undisturbed     = TRUE
INVARIANTS
  TypeOK
  OrderIsPermutation
  CountedOnce
PROPERTIES
  NoImmediateRepeat
  ShuffleVisitsAll
CHECK_DEADLOCK FALSE
