\* Two cartridges of two tracks, any number of boots.
SPECIFICATION Spec
CONSTANTS
  Cartridges = {albumA, albumB}
  TrackCount = 2
  LookupLen  = 2
  QueueDepth = 2
  MaxStale   = 1
  None       = None
INVARIANTS
  TypeOK
  ForeignErased
  RtcCurrent
  SavedBeforeRestart
PROPERTIES
  ResumesAfterReset
SYMMETRY CartridgeSymmetry
