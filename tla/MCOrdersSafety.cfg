CONSTANTS
  o1 = o1
  h1 = h1  h2 = h2
  k1 = k1  k2 = k2
  a1 = a1
  x1 = x1
  NoAdmin = NoAdmin
  Orders <- OneOrder
  Hooks <- TwoHooks
  Admins <- OneAdmin
  Tasks <- OneTask
  Approvers <- OneAdmin
  Gateways <- AllGateways
  Totals <- Small
  Amounts <- WholeOnly
  Threshold = 2
  Targets <- CancelOrPay
  MaxUpdates = 1
  MaxFailures = 1
SPECIFICATION Spec
SYMMETRY Alike
INVARIANT StatusTruthful
INVARIANT AckedIsSettled
INVARIANT DisputeRecorded
INVARIANT SettledIsConfirmed
INVARIANT ConfirmationsBounded
 
PROPERTY RefundHandleKept
PROPERTY ImplementsLifecycle
CHECK_DEADLOCK FALSE
