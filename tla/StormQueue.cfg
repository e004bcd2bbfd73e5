SPECIFICATION FairSpec
CONSTANTS
  Jobs = {j1, j2}
  MaxAttempts = 2
  Delays <- MCDelays
  MaxTime = 1
  MaxDispatch = 1
  MaxRetries = 1
  MaxFaults = 1
INVARIANTS TypeOK HandlerRunsBounded
PROPERTIES NeverEarly LifecycleSpec EveryJobSettles QueuedUnlessConsumerEnded
