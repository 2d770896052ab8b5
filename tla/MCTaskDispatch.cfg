SPECIFICATION DispatchFairSpec
CONSTANTS
  Workers <- MCWorkers
  MaxQuota = 2
  MaxFailures = 2
  MaxCrashes = 2

  
  
PROPERTIES
  
  
  ClaimEnds
CHECK_DEADLOCK FALSE
