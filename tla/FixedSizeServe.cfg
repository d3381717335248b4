CONSTANTS
  Alignment = 16
  GuardBytes = 16
  SizeLimit = 1024
  InfoSize = 24
  TotalSize = 272
  Sizes = {16, 48}
  Pointers <- AlignedAddresses
SPECIFICATION ServeSpec
INVARIANTS TypeOK Validated HeldBlocks StartsOver DamagedKeptBack
PROPERTIES ReallocateKeepsContents KeepsContract
CHECK_DEADLOCK FALSE
