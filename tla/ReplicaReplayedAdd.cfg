SPECIFICATION Spec
CONSTANTS
  n1 = n1
  n2 = n2
  n3 = n3
  n4 = n4
  n5 = n5
  Ids = {n1, n2, n3, n4, n5}
  Founders <- FoundersMC
  Protocols = {1}
  SnapshotEntries = 2
  MaxReady = 3
  Probes = FALSE
  MaxLog = 3
  MaxCrashes = 1
  MaxFailures = 0
SYMMETRY Symmetric
INVARIANTS ReplicasAgree
CHECK_DEADLOCK FALSE
