SPECIFICATION Spec
CONSTANTS
  None = None
  CutoffMillivolts = 2
  CutoffPercent = 0
  VoltageWhileSearching = FALSE
  EmptyReads = 3
  SpanSearching = 2
  SpanNormal = 4
  MinSpacing = 1
  MaxGap = 4
  Expiry = 4
  U8Max = 255
  Boards = {"ip5306", "xiao", "dk"}
  Readings <- MCReadings
  MinPercent = 50
  NormalInterval = 3
  FastInterval = 1
  Grace = 1
  MaxTime = 7
INVARIANTS
  CutoffEarned
  FlatCellGoesOff
  ShownIsCurrent
