SPECIFICATION RetrySpec
CONSTANTS
  a1 = a1
  a2 = a2
  b1 = b1
  b2 = b2
  Channels <- Trio
  AutoGroups <- AB
  AutoToken = TRUE
  CrossGroupRetry = TRUE
  RetryTimes = 2
  GroupsOf <- TrioGroups
  Priority <- TrioPriority
  Weight <- TrioWeight
  MaxChanges = 2
INVARIANTS
  AttemptsBounded
  RetriesDescend
  
CHECK_DEADLOCK FALSE
