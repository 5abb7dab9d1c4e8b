SPECIFICATION Spec
CONSTANTS
  Size = 4
  Block = 2
  Depth = 2
  MaxBytes = 8
INVARIANTS InOrder OverflowTells
PROPERTIES OnlyDmaLaps BytesCounted
CHECK_DEADLOCK FALSE
