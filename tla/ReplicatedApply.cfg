SPECIFICATION FairSpec
CONSTANTS
  a = a
  c = c
  Keys <- MCKeys
  Commands <- MCCommands
  Catalog = c
  MaxLog = 4
  MaxBatch = 3
  MaxFaults = 2
INVARIANTS TypeOK CheckpointMatchesObjects CatalogCacheCurrent
PROPERTIES AppliesAtomically LogIsDrained
CHECK_DEADLOCK FALSE
