SPECIFICATION FairSpec
CONSTANTS
  Procs = {kernel, c1, c2, c3}
  kernel = kernel
  NULL = NULL
  TICKS = 6
  Naps = {0, 1, 4}
INVARIANTS SwitchIsSafe OwnDirectory InterruptsOff QueueIsRootAndYoungest SleepLongEnough
PROPERTIES ChildRuns SleepEnds  TimerServed
CHECK_DEADLOCK FALSE
