SPECIFICATION LogsSpec
CONSTANTS
  Buffer = 20
  Lines <- LineAndPart
  Streams = {1}
  MaxLines = 3
INVARIANTS
  WholeFramesShown
