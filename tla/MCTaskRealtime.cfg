SPECIFICATION RealtimeFairSpec
CONSTANTS
  Workers <- MCWorkers
  MaxQuota = 1
  MaxFailures = 0
  MaxCrashes = 0
PROPERTIES
  FailureRefunded
CHECK_DEADLOCK FALSE
