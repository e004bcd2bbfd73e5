SPECIFICATION FairSpec
CONSTANTS
  Jobs = {j1, j2}
  MaxAttempts = 2
  Delays <- MCDelays
  MaxTime = 0
  MaxDispatch = 1
  MaxRetries = 0
  MaxFaults = 1
PROPERTIES QueuedJobIsTaken
