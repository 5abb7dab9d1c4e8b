SPECIFICATION Spec
CONSTANTS
  Browsers = {steady}
  Stalled = {stuck}
  Points = {0, 1}
  QueueMax = 1
  History = 2
  MaxSamples = 3
  NoRow = NoRow
INVARIANTS Sound NoGap SessionShown
PROPERTIES RowsArrive GoneNoticed QuietTold
CHECK_DEADLOCK FALSE
