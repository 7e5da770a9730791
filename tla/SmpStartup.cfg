CONSTANTS
  Byte = 8
  MadtHeader = 4
  StrayLengths = {0, 1, 4}
  Processors = {0, 1, 2}
  BootProcessor = 0
  Machines <- MCMachines
  Madts <- MCMadts
  MaxVector = 1
  Vectors = {1, 2}
CHECK_DEADLOCK FALSE
SPECIFICATION FairSpec
INVARIANTS
  StackExclusive
  OnlyListedStart
  CorruptionStops
PROPERTIES
  StartupEnds
