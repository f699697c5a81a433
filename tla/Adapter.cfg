SPECIFICATION FairSpec

CONSTANTS
  MaxSaves = 1

INVARIANTS
  NothingRunsOn
  PauseHasEnd

PROPERTIES
  GoesDownDrained
  AskedGoesDown
