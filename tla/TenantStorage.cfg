SPECIFICATION Spec
CONSTANTS
  k1 = k1
  k2 = k2
  r1 = r1
  r2 = r2
  Keys = {k1, k2}
  Readers = {r1, r2}
  SegmentTarget = 2
  Keep = 1
  MaxRetired = 2
  Workloads <- MCWorkloads
INVARIANTS ViewsReadable RecordsAreTrue NeverAmbiguous
CHECK_DEADLOCK FALSE
PROPERTIES GarbageIsCollected
