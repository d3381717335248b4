CONSTANTS
  Places = {0, 1, 2, 3, 4, 5}
  Sizes = {0, 1}
  MaxBlocks = 5
SPECIFICATION Spec
INVARIANTS TypeOK ScanKeepsMemory SortedAfterScan SmallArraysExact
PROPERTY Terminates
CHECK_DEADLOCK FALSE
