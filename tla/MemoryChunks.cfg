CONSTANTS
  Actors = {c1, c2}
  NoActor = NoActor
  c1 = c1
  c2 = c2
  TableLength = 3
  HalfBits = 2
  PageSize = 2
  AddressModulus = 64
  CountModulus = 32
  Ops = {"reserve", "allocate", "consecutive", "allocated"}
  ReserveArgs <- MCReserveArgs
  ConsecutiveArgs = {4, 8}
  OverrunWords = 1
  MaxHeld = 1
SPECIFICATION FairSpec
INVARIANTS
  Exclusive
  HeldIsMarked

  
