CONSTANTS
  o1 = o1
  h1 = h1  h2 = h2
  k1 = k1  k2 = k2
  a1 = a1
  x1 = x1
  NoAdmin = NoAdmin
  Orders <- OneOrder
  Hooks <- OneHook
  Admins <- OneAdmin
  Tasks <- OneTask
  Approvers <- OneAdmin
  Gateways <- OnlyPaystack
  Totals <- Small
  Amounts <- NoAmounts
  Threshold = 2
  Targets <- OnlyPaid
  MaxUpdates = 1
  MaxFailures = 0
SPECIFICATION Spec
PROPERTY OnlyWebhookPays
CHECK_DEADLOCK FALSE
