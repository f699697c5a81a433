CONSTANTS
  root_blk = root_blk
  fat_blk = fat_blk
  d1 = d1
  d2 = d2
  s1 = s1
  s2 = s2
  None = None
  Blank = Blank
  Block = {root_blk, fat_blk}
  Root = root_blk
  Fat = fat_blk
  ReadBlock = {root_blk, fat_blk}
  WriteBlock = {fat_blk}
  SeqNo = {s1}
  Payload = {d1}
  Phases = 1
  QueueDepth = 1
  OutboxLen = 1
  Seeds = {1}
  EpochMod = 8
  MaxEpoch = 3
SPECIFICATION LiveSpec
CONSTRAINT SavesOnly
PROPERTIES
  EverySaveAnswered
CHECK_DEADLOCK FALSE
