SPECIFICATION FairSpec
CHECK_DEADLOCK FALSE
CONSTANTS
  Requests = {r1, r2}
  Keys = {k1}
  NoRequest = none
  Failure = error500
  MaxAttempts = 3
  MaxCrashes = 0
  MaxDbErrors = 0
PROPERTIES KeyIsHonoured
