CONSTANTS
    Ids = {r1, r2}
    SegmentBytes = 2
    MaxBytes = 5
    ControlReserve = 1
    QueueMemory = 2
    Durabilities = {"sync", "os"}
    MaxLSN = 5
    Workloads <- MCWorkloads
SPECIFICATION FairSpec
INVARIANTS NeverCorrupt AcknowledgedSurvive
PROPERTIES ServesAgain
CHECK_DEADLOCK FALSE
