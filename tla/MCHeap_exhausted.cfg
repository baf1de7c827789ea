SPECIFICATION Spec
CONSTANTS
  PAGE_SIZE = 4096
  SMALLEST_BIN_LOG = 2
  NUM_BINS = 11
  HDR = 16
  BIG_HDR = 48
  KHEAP_END <- Arena4
  PLACEMENT_START = 5000
  PLACEMENT_MAX = 9700
  Sizes = {0, 1500, 4000}
  AlignedSizes = {1}
  Counts = {}
INVARIANT ExhaustionReturns
CHECK_DEADLOCK FALSE
