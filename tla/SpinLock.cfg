CONSTANTS
  Actors = {c1, c2, c3}
  NoActor = NoActor
  Versions = 3
  c1 = c1
  c2 = c2
  c3 = c3
SPECIFICATION FairSpec
INVARIANTS
  SeesEarlierSections
PROPERTIES
  ImplementsMutex
  SomeoneGetsIn
