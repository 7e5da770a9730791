CONSTANTS
  Machines <- MCMachines
  Noise <- MCNoise
  Faults <- MCFaults
  MaxNoise = 2
  Prompt = TRUE
CHECK_DEADLOCK FALSE
SPECIFICATION FairSpec
INVARIANTS
  NothingMissing
  NoUnexpected
PROPERTIES
  FatalStops
  Ticks
