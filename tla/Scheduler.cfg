CONSTANTS
  Procs = {p1, p2, p3}
  Dummy = p1
  NoProc = NoProc
  Steps = 2
  LateReturn = FALSE
  p1 = p1
  p2 = p2
  p3 = p3
SPECIFICATION SchedulerFairSpec
INVARIANTS
  OneRing
  ContextsKept
PROPERTIES
  EveryoneRuns
