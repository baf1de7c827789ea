SPECIFICATION Spec
CONSTANTS
  PAGE_SIZE = 4096
  SMALLEST_BIN_LOG = 2
  NUM_BINS = 11
  HDR = 16
  BIG_HDR = 48
  KHEAP_END <- Arena3
  PLACEMENT_START = 7000
  PLACEMENT_MAX = 9700
  Sizes = {0, 1000, 4000, 4048}
  AlignedSizes = {1, 4097}
  Counts = {2}
INVARIANTS HeapOK NoLeak ChainOK PlacementOK NoOverlap
PROPERTIES GrowsOnlyWhenNothingFits PromiseKept
CHECK_DEADLOCK FALSE
