CONSTANTS
  Alignment = 2
  GuardBytes = 2
  SizeLimit = 256
  MemorySize = 48
  Requested = 4
  GroupBits = 2
  Sizes = {0, 1, 4, 5}
SPECIFICATION Spec
INVARIANTS TypeOK HeldBlocks FreeIsFound
PROPERTY KeepsContract
CHECK_DEADLOCK FALSE
