SPECIFICATION Spec
CONSTANTS
  Bauds = 3
  SynthRates = 5
  FastBaud = 3
  FastSynth = 3
  RowQueue = 4
  ByteBudget = 4
  FifoThreshold = 2
  DmaBlock = 2
  SynthBudget = 3
  SettlePackets = 1
  PointPackets = 4
  CalmPackets = 1
INVARIANTS HistogramOfRow
