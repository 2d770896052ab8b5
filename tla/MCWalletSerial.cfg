SPECIFICATION WalletSpec
CONSTANTS
  r1 = r1
  r2 = r2
  Requests <- MCRequests
  Isolation = "serial"
  Operations <- AllOperations
  StartQuota = 2
  CodeQuota = 2
  MaxAmount = 2
  MaxOps = 5
SYMMETRY RequestSymmetry
INVARIANTS
  LedgerBalances
  NeverOverdrawn
  TransferredOnce
  RedeemedOnce
CHECK_DEADLOCK FALSE
