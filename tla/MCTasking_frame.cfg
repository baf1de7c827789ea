SPECIFICATION FairSpec
CONSTANTS
  Procs = {kernel, c1}
  kernel = kernel
  NULL = NULL
  TICKS = 4
  Naps = {1}
PROPERTIES FrameRestored
CHECK_DEADLOCK FALSE
