CONSTANTS
  Alignment = 16
  GuardBytes = 0
  SizeLimit = 1024
  InfoSize = 24
  TotalSize = 144
  Sizes = {16, 32}
  Pointers <- AlignedAddresses
SPECIFICATION ServeSpec
CHECK_DEADLOCK FALSE
INVARIANT AlwaysDefined
