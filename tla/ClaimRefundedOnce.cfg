CONSTANTS
  o1 = o1
  h1 = h1  h2 = h2
  k1 = k1  k2 = k2
  a1 = a1
  x1 = x1
  NoAdmin = NoAdmin
  Orders <- OneOrder
  Hooks <- OneHook
  Admins <- OneAdmin
  Tasks <- TwoTasks
  Approvers <- OneAdmin
  Gateways <- OnlyPaystack
  Totals <- Larger
  Amounts <- Part
  Threshold = 2
  Targets <- OnlyPaid
  MaxUpdates = 0
  MaxFailures = 0
SPECIFICATION Spec
PROPERTY RefundedOrderNotRefunded
CHECK_DEADLOCK FALSE
