SPECIFICATION Spec
CONSTANTS
  r1 = r1
  r2 = r2
  commit = commit
  purge = purge
  create = create
  disable = disable
  Requests <- TwoRequests
  Callers <- CommitPurgeCreate
  Operation <- CommitPurgeCreateOps
  Guarded <- OneGuarded
  FlushMaxRequests = 2
  Workloads <- MixedWorkloads
INVARIANTS
  DurablePlansFit
  OutcomesAreTrue
  PreparedInLogOrder
  BarrierDrains
PROPERTIES
  FinishedHasOutcome
  GenerationsStayApart
  AcknowledgedFinish
  CallsReturn
CHECK_DEADLOCK FALSE
