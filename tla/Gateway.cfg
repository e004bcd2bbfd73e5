SPECIFICATION FairSpec
CONSTANTS
  Keys = {k1}
  Cost = 3
  Burst = 2
  Rate = 2
  Grain = 2
  MaxTime = 3
  MaxRestarts = 1
  Clients = {c1}
  Consumer = consumer
  Poller = poller
  PoolSize = 2
INVARIANTS TypeOK AdmissionsBounded RetryAfterIsHonest
PROPERTIES EveryUseEnds
