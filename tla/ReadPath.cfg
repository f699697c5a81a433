CONSTANTS
  blk1 = blk1
  blk2 = blk2
  None = None
  Block = {blk1, blk2}
  QueueLen = 2
  ReadTries = 2
  ReadEveryN = 2
  GapHeads = 2
SPECIFICATION LiveSpec
INVARIANTS
  OwedIsHeld
  ReadyIsFresh
PROPERTIES
  ReadsServed
  DisplayKeepsUp
CHECK_DEADLOCK FALSE
