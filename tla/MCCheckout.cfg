CONSTANTS
  s1 = s1
  r1 = r1  r2 = r2
  p1 = p1
  Sessions <- OneSession
  Requests <- TwoRequests
  Products <- OneProduct
  Quantities <- OneUnit
  Listings <- ListedOrNot
  Fees <- Flat
  Coupons <- OneUse
  MaxBegun = 5
  MaxEdits = 1
  MaxFailures = 1
SPECIFICATION Spec
SYMMETRY Alike
INVARIANT TypeOK
INVARIANT CouponOverrun
INVARIANT CouponCounted
INVARIANT TotalsAddUp
INVARIANT OrderedOnce
PROPERTY CartKeptUntilOrdered
CHECK_DEADLOCK FALSE
