SPECIFICATION Spec
CONSTANTS
  nframes = 48
  PER_TABLE = 8
  HEAP_END = 40
  HEAP_TABLE = 10
  START = 1
  UserPages = {64, 65, 72}
  Values = {0, 1}
  StaleBits <- MCClear
  Leftovers = {1}
  BRK_MAX = 31
INVARIANTS WalkRight KernelShared
PROPERTIES SpacesKept
