SPECIFICATION FairSpec
CHECK_DEADLOCK FALSE
CONSTANTS
  Payments = {p1}
  Total = 3
  Requests = {r1, r2}
  Keys = {k1, k2}
  Amounts = {2}
  Full = full
  Endpoints = {e1}
  None = none
  Refused = refused
  Failure = error500
  MaxAttempts = 2
  MaxCrashes = 0
  MaxDbErrors = 0
INVARIANTS NeverOverRefunded
