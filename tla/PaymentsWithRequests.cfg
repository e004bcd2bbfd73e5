SPECIFICATION FairSpec
CHECK_DEADLOCK FALSE
CONSTANTS
  Payments = {p1}
  Clients = {c1, c2}
  Worker = worker
  MaxAttempts = 2
  MaxRetries = 2
  MaxJobs = 3
  MaxCrashes = 0
  MaxDbErrors = 1
INVARIANTS HistoryIsAPath RetryCountNotOverstated SuccessWasAuthorized
