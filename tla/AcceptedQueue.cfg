CONSTANTS
    n1 = n1
    n2 = n2
    b1 = b1
    b2 = b2
    d1 = d1
    d2 = d2
    Replicas = {n1, n2}
    Batches = {b1, b2}
    Requests <- MCRequests
    Budget <- MCBudget
    FlushMaxRequests = 1
    HttpOps = {"commit", "disable"}
    Workloads <- MCWorkloads
SPECIFICATION FairSpec
INVARIANTS ReplicasAgree PublishedInOrder ReadsSeeAcknowledged PauseExcludesWriters
PROPERTY AcceptedIsFinished
CHECK_DEADLOCK FALSE
