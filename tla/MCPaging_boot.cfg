SPECIFICATION Spec
CONSTANTS
  nframes = 80
  PER_TABLE = 32
  HEAP_END = 160
  HEAP_TABLE = 8
  START = 1
  UserPages = {}
  Values = {0}
  StaleBits <- MCStaleBits
  Leftovers <- MCLeftovers
  BRK_MAX = 32
INVARIANTS FrameGivenOnce BitmapTruth PlacedStays
