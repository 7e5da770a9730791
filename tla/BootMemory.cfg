CONSTANTS
  PageSize = 4
  HalfBits = 4
  BitsPerByte = 4
  AddressModulus = 1024
  KernelBase = 8
  KernelSize = 8
  TagHeader = 2
  EntrySize = 3
  MaxTotalSize = 100
  Infos <- MCInfos
  Maps <- MCMaps
  Behinds <- MCBehinds
CHECK_DEADLOCK FALSE
SPECIFICATION Spec
INVARIANTS
  FindsTheMap
  TablePlaced
  ReservedKept
