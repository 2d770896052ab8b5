SPECIFICATION Spec
CONSTANTS
  p1 = p1
  p2 = p2
  u1 = u1
  u2 = u2
  o1 = o1
  o2 = o2
  g = g
  Users = {u1, u2}
  Plans = {p1, p2}
  Orders = {o1, o2}
  MaxSubs = 2
  Groups = {g}
  Nothing = Nothing
  Limits = {0, 1, 2}
  Start <- Shared
  Upgrade <- Vip
  BaseGroup = "default"
  AirdropPlan = p1
  Reservation = 2
  Checkout = 1
  Duration = 1
  SnapshotReads = FALSE
  Undisturbed = TRUE
  MaxTime = 2
  MaxEvents = 2
  Edits <- Asked
SYMMETRY OrderSymmetry
INVARIANTS
  StockMatchesOrders
  
  IssuedOnce
  PendingCompletable
  
CHECK_DEADLOCK FALSE
