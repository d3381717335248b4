CONSTANTS
  Alignment = 16
  GuardBytes = 0
  SizeLimit = 1024
  ChunkSize = 96
  Header = 16
  ChunkHeader = 32
  Span = 1024
  Sizes = {16}
  MaxChunks = 2
  MaxReturned = 1
SPECIFICATION Spec
INVARIANT NoTouchingFree
VIEW StateBeforeNext
CHECK_DEADLOCK FALSE
