SPECIFICATION FairSpec
CHECK_DEADLOCK FALSE
CONSTANTS
  Requests = {r1, r2, r3}
  Keys = {k1}
  NoRequest = none
  Failure = error500
  MaxAttempts = 2
  MaxCrashes = 1
  MaxDbErrors = 2
INVARIANTS TypeOK SameKeySameAnswer AnswerIsCommitted DroppedOnlyIfEarly
PROPERTIES EveryRequestEnds PendingIsProcessedUnless
