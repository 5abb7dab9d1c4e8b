SPECIFICATION NoisySpec
CONSTANTS
  Bits = 3
  Poly = 3
  Sync0 = 5
  Sync1 = 2
  PayloadBytes = 1
  BurstBytes = 16
  MaxFaults = 2
INVARIANTS NoSilentFault Heals
