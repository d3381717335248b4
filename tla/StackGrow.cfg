CONSTANTS
  Alignment = 16
  GuardBytes = 16
  SizeLimit = 4096
  InfoSize = 16
  Capacity = 256
  Sizes = {16, 32}
  MaxMarks = 0
  MaxReturned = 1
  KeepStale = FALSE
  GiveBackLate = FALSE
SPECIFICATION Spec
INVARIANT StackInside
VIEW StateBeforeNext
CHECK_DEADLOCK FALSE
