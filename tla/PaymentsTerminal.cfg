SPECIFICATION FairSpec
CHECK_DEADLOCK FALSE
CONSTANTS
  Payments = {p1}
  Clients = {c1}
  Worker = worker
  MaxAttempts = 2
  MaxRetries = 2
  MaxJobs = 2
  MaxCrashes = 0
  MaxDbErrors = 0
PROPERTIES TerminalIsFinal
