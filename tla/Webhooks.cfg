SPECIFICATION FairSpec
CHECK_DEADLOCK FALSE
CONSTANTS
  Endpoints = {e1}
  Dispatches = {d1, d2}
  MaxDeliveries = 2
  MaxAttempts = 2
  MaxFaults = 2
INVARIANTS TypeOK EventIsFound PostsBounded NeverDropped EndIsHonest AtMostOneLate
PROPERTIES EndIsFinal EventEnds
