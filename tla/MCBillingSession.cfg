SPECIFICATION FairSpec
CONSTANTS
  MaxQuota = 3
  MaxStreamed = 2
  MaxFailures = 2
  TokenRollbackAttempts = 2
INVARIANTS
  ChargedExactly
  RefundedHoldsNothing
  RefundStaysPossible
  ProgressNeverOvercharges
PROPERTIES
  ImplementsReservation
  RefundCompletes
CHECK_DEADLOCK FALSE
