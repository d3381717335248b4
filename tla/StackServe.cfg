CONSTANTS
  Alignment = 8
  GuardBytes = 8
  SizeLimit = 4096
  InfoSize = 16
  Capacity = 176
  Sizes = {8, 16, 32}
  MaxMarks = 1
  MaxReturned = 1
  KeepStale = FALSE
  GiveBackLate = FALSE
SPECIFICATION Spec
INVARIANTS TypeOK WalkDown TopTight
PROPERTIES ReallocateKeepsContents KeepsContract
VIEW StateBeforeNext
CHECK_DEADLOCK FALSE
