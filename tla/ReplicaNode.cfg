SPECIFICATION FairSpec
CONSTANTS
  n1 = n1
  n2 = n2
  n3 = n3
  n4 = n4
  n5 = n5
  Ids = {n1, n2, n3, n4}
  Founders <- FoundersMC
  Protocols = {2}
  SnapshotEntries = 2
  MaxReady = 1
  Probes = TRUE
  MaxLog = 3
  MaxCrashes = 1
  MaxFailures = 1
INVARIANTS ConfigurationFollowsLog WorkIsQueued SnapshotFollowsLog
PROPERTIES CommitIsApplied ConfigurationIsSnapshotted
CHECK_DEADLOCK FALSE
