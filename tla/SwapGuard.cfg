CONSTANTS
  root_blk = root_blk
  fat_blk = fat_blk
  data_blk = data_blk
  card1 = card1
  card2 = card2
  old1 = old1
  new1 = new1
  old2 = old2
  new2 = new2
  None = None
  Block = {root_blk, fat_blk}
  Root = root_blk
  Fat = fat_blk
  Phases = 2
  Payload = {old1, new1, old2, new2}
  Card = {card1, card2}
  Maker <- MakerOf
  Factory <- FactoryOf
  WriteTries = 2
  GuardTries = 1
  QueueDepth = 1
  PipeDepth = 1
SPECIFICATION LiveSpec
CONSTRAINT OneSave

  
PROPERTIES
  
  SameCardPasses
  
CHECK_DEADLOCK FALSE
