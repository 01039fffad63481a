CONSTANTS
  o1 = o1
  h1 = h1  h2 = h2
  k1 = k1  k2 = k2
  a1 = a1
  x1 = x1
  NoAdmin = NoAdmin
  Orders <- OneOrder
  Hooks <- OneHook
  Admins <- OneAdmin
  Tasks <- TwoTasks
  Approvers <- AnyName
  Gateways <- AllGateways
  Totals <- Large
  Amounts <- PartOrAll
  Threshold = 2
  Targets <- OnlyPaid
  MaxUpdates = 0
  MaxFailures = 1
SPECIFICATION FairSpec
INVARIANT TypeOK
INVARIANT RefundTrail
PROPERTY HighValueNamesAnother
PROPERTY ChargedSettles
PROPERTY DisputeReaches
CHECK_DEADLOCK FALSE
