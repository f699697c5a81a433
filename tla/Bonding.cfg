SPECIFICATION FairSpec

CONSTANTS
  Hosts = {h1, h2}
  NoBond = NoBond
  NoSnapshot = NoSnapshot
  NoLink = NoLink
  NoSave = NoSave
  MaxPairings = 2

INVARIANTS
  PersistedIsInFlash
  ServedIsBonded

PROPERTIES
  OnlyItsHostRewrites
  BondReachesFlash

