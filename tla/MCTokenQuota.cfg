SPECIFICATION Spec
CONSTANTS
  r1 = r1
  r2 = r2
  j1 = j1
  j2 = j2
  Requests <- TwoRequests
  Jobs <- TwoJobs
  Quota = 2
  MaxExtra = 1
  InitialQuota = 3
  TTL = 1
  Settings <- ThreeSettings
  MaxRequests <- FewerWithRedis
  MaxEdits = 1
  MaxFaults = 1
INVARIANTS
  UsedIsCharged
  OverdraftBounded
PROPERTY DeletedIsForgotten
CHECK_DEADLOCK FALSE
