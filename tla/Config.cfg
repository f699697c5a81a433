SPECIFICATION FairSpec

CONSTANTS
  SlotCount = 2
  Maps = {m0, m1}
  Default = m0
  Xbox = Xbox
  Generic = Generic
  NoSave = NoSave
  NoMap = NoMap
  Seqs = {1, 2}
  NoSeq = 0
  QueueDepth = 1

INVARIANTS
  StoredIsLoaded

PROPERTIES
  JournalKeeps
  EachItsOwn
  SilentSessionEnds
