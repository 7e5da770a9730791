CONSTANTS
  TableEntries = 3
  PageSize = 2
  Modulus = 1024
  Plans <- MCPlans
  FirstFrame = 4
  MaxFrames = 15
  MaxUsed = 81
SPECIFICATION Spec
INVARIANTS
  CursorConsistent
  PromisesKept
  TablesAreTree
  UsedPagesCounted
PROPERTIES
  UnmapUnmaps
