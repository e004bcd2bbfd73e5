SPECIFICATION FairSpec
CHECK_DEADLOCK FALSE
CONSTANTS
  Payments = {p1}
  Total = 3
  Requests = {r1, r2}
  Keys = {k1, k2}
  Amounts = {1, 2}
  Full = full
  Endpoints = {e1, e2}
  None = none
  Refused = refused
  Failure = error500
  MaxAttempts = 2
  MaxCrashes = 1
  MaxDbErrors = 1
INVARIANTS TypeOK SameKeyOneRefund RefundsFit AnnouncedOnce NeverDropped
PROPERTIES SettledIsFinal RefundSettles
