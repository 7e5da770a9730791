CONSTANTS
  Users = {u1, u2, u3}
  HeaderSize = 2
  Alignment = 2
  Root = 1
  Limit = 23
  Requests = {1, 4}
CHECK_DEADLOCK FALSE
SPECIFICATION Spec
INVARIANTS
  ChunksDisjoint
  LinksOrdered
  DataKept
