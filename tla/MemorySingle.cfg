CONSTANTS
  Actors = {c1, c2}
  NoActor = NoActor
  c1 = c1
  c2 = c2
  TableLength = 3
  HalfBits = 2
  PageSize = 2
  AddressModulus = 64
  CountModulus = 32
  Ops = {"reserve", "allocate", "free"}
  ReserveArgs <- MCReserveRanges
  ConsecutiveArgs = {}
  OverrunWords = 0
  MaxHeld = 3
SPECIFICATION FairSpec
INVARIANTS
  SinglesCounted
  ReservableNeverHeld
PROPERTIES
  AllocateReturns
  ImplementsPageAllocator
