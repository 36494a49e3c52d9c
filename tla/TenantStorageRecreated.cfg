SPECIFICATION Spec
CONSTANTS
  k1 = k1
  k2 = k2
  r1 = r1
  r2 = r2
  Keys = {k1, k2}
  Readers = {}
  SegmentTarget = 3
  Keep = 1
  MaxRetired = 2
  Workloads <- RecreatedWorkload
SYMMETRY KeySymmetry
INVARIANTS ViewsReadable
CHECK_DEADLOCK FALSE
