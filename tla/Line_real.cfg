SPECIFICATION BoundedSpec
CONSTANTS
  ByteTime = 434
  SlotTime = 675
  KernelTick = 5000
  Frame = 69
  SensorRing = 256
  BridgeRing = 4096
  Payload = 8
  DataFrames = 128
  BlockSize = 8
  Period = 1010
  TraceEvery = 12
  TraceSamples = 128
  Endless = FALSE
  MaxBursts = 1
  Phases <- SampledPhases
INVARIANTS StreamsWhole LineFull PeakBounded ReadyForNext TraceShowsPeak
