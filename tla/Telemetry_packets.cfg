SPECIFICATION Spec
CONSTANTS
  Durations = {1, 2}
  TraceSamples = 2
  MaxInterrupts = 2
  MaxBursts = 2
  MaxResets = 1
INVARIANTS PacketAgrees TraceMadeGood FreeWorstTold
PROPERTIES TraceArrives
