CONSTANTS
  u1 = u1  u2 = u2  u3 = u3
  i1 = i1  i2 = i2
  n1 = n1  n2 = n2
  p1 = p1  p2 = p2
  r1 = r1  r2 = r2
  User <- Users
  Request <- TwoRequests
  Item <- Things
  Names <- TwoNames
  Providers <- TwoProviders
  Threshold = 2
  MaxMinutes = 3
  Staffing <- Staff
  Granted <- Promotions
  Offers <- Together
  MaxTime = 4
  MaxBegun = 5
  MaxFailures = 1
SPECIFICATION Spec
SYMMETRY Alike
INVARIANT TypeOK
INVARIANT CountersExact
INVARIANT AuditTrail
INVARIANT SettingsAsSubmitted
PROPERTY LockStands
PROPERTY EscalationApproved
 
CHECK_DEADLOCK FALSE
