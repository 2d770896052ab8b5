SPECIFICATION Spec
CONSTANTS
  r1 = r1
  r2 = r2
  Requests <- MCRequests
  Subs <- MCSubs
  Snapshot <- MCPolicy
  Start = 1
  End <- MCEnd
  Retention = 3
  MaxLag = 0
  MaxLife = 1
  MaxAmount = 2
  MaxTime = 6
SYMMETRY RequestSymmetry
INVARIANTS
  AggregateIsUsage
  PeriodWithinLimit
  
CHECK_DEADLOCK FALSE
