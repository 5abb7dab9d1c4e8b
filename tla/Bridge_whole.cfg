SPECIFICATION BridgeSpec
CONSTANTS
  ByteTime = 2
  SlotTime = 3
  KernelTick = 7
  Frame = 6
  SensorRing = 22
  BridgeRing = 32
  Payload = 4
  DataFrames = 4
  BlockSize = 2
  Period = 20
  TraceEvery = 1
  TraceSamples = 1
  Endless = TRUE
  MaxBursts = 1
  Phases <- AllPhases
  Bits = 3
  Poly = 3
  Sync0 = 5
  Sync1 = 2
  PayloadBytes = 1
  BurstBytes = 16
  RxRingBytes = 16
  Requests = TRUE
  HandBacks = 1
INVARIANTS BridgeTypeOK NoFaults Reassembled LedgerBalanced SnapshotFresh AnsweredByNextWake TableDivides
