CONSTANTS
  Width = 2
  Height = 2
  Visible = 1
  Modulus = 5
  Events <- ReleaseEvents
  QueueLength = 3
  Column = 0
  TextLength = 1
SPECIFICATION FairSpec
INVARIANTS
  DecodedRight
  ShiftFollows
PROPERTIES
  HandlerReturns
