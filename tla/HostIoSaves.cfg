CONSTANTS
  root_blk = root_blk
  fat_blk = fat_blk
  d1 = d1
  d2 = d2
  s1 = s1
  s2 = s2
  None = None
  Blank = Blank
  Block = {root_blk, fat_blk}
  Root = root_blk
  Fat = fat_blk
  ReadBlock = {root_blk, fat_blk}
  WriteBlock = {fat_blk}
  SeqNo = {s1, s2}
  Payload = {d1}
  Phases = 1
  QueueDepth = 2
  OutboxLen = 3
  Seeds = {1}
  EpochMod = 8
  MaxEpoch = 3
SPECIFICATION Spec
CONSTRAINT FewRefusals
SYMMETRY Symmetry
INVARIANTS
  
  OneSlotPerSave
PROPERTIES
  KeepsLedger
CHECK_DEADLOCK FALSE
