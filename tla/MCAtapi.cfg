SPECIFICATION FairSpec
CONSTANTS
  Machines <- TestMachines
  LBA = {16}
  Counts = {2}
  PROMPT = TRUE
INVARIANTS WordsInPhase ReadOutcome InterruptComes DrivesFound
PROPERTIES ReadReturns
