CONSTANTS
  Threads = {t1, t2}
  Allocators = {a, b}
  Std = Std
  None = None
SPECIFICATION Spec
INVARIANTS CallsWholeAllocator GivesBackToOrigin
SYMMETRY MCSymmetry
CHECK_DEADLOCK FALSE
