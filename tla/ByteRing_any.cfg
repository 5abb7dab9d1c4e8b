SPECIFICATION Spec
CONSTANTS
  Byte = {b1, b2}
  None = None
  Size = 2
  Laps = 2
  Roles = {"producer", "consumer", "telemetry", "sweep"}
  Rank <- AnyOrder
INVARIANTS TypeOK CountsConservative PeakCovers
PROPERTY ImplementsFifo
