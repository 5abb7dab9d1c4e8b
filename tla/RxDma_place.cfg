SPECIFICATION Spec
CONSTANTS
  Size = 4
  Block = 2
  Depth = 2
  MaxBytes = 8
INVARIANT WritesIntoTheRing
CHECK_DEADLOCK FALSE
