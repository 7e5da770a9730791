CONSTANTS
  IntBits = 4
  LongBits = 6
  Formats <- MCFormats
  Arguments <- MCArguments
CHECK_DEADLOCK FALSE
SPECIFICATION Spec
INVARIANTS
  FormatRight
  FitsBuffer
