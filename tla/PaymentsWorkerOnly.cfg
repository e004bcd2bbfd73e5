SPECIFICATION FairSpec
CHECK_DEADLOCK FALSE
CONSTANTS
  Payments = {p1, p2}
  Clients = {}
  Worker = worker
  MaxAttempts = 2
  MaxRetries = 3
  MaxJobs = 3
  MaxCrashes = 1
  MaxDbErrors = 2
INVARIANTS TypeOK ChargedHonestly RetryCountIsExact NeverDropped
PROPERTIES LifecycleSpec PaymentSettles
