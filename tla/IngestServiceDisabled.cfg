SPECIFICATION SpecOperated
CONSTANTS
  r1 = r1
  r2 = r2
  commit = commit
  purge = purge
  create = create
  disable = disable
  Requests <- OneRequest
  Callers <- Disabler
  Operation <- DisablerOps
  Guarded = {}
  FlushMaxRequests = 1
  Workloads <- DisabledOnce
INVARIANTS OutcomesAreTrue
CHECK_DEADLOCK FALSE
