CONSTANTS
  Alignment = 16
  GuardBytes = 0
  SizeLimit = 1024
  ChunkSize = 64
  Header = 16
  ChunkHeader = 32
  Span = 1024
  Sizes = {0, 16, 32, 64, 1020}
  MaxChunks = 2
  MaxReturned = 1
SPECIFICATION Spec
INVARIANTS TypeOK FreeListSane BlocksApart UsedExact
PROPERTIES ReallocateKeepsContents KeepsContract
VIEW StateBeforeNext
CHECK_DEADLOCK FALSE
