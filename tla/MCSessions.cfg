CONSTANTS
  u1 = u1  u2 = u2
  s1 = s1  s2 = s2  s3 = s3
  r1 = r1  r2 = r2
  NoUser = NoUser
  NoSid = NoSid
  NoAccount = NoAccount
  Absent = Absent
  User <- TwoUsers
  Sid <- Ids
  Request <- TwoRequests
  Accounts <- Some
  Granted <- Promotions
  Redis = TRUE
  MaxBegun = 3
  MaxEdits = 1
  MaxFailures = 1
SPECIFICATION Spec
SYMMETRY Alike
INVARIANT TypeOK
INVARIANT SecondFactor
PROPERTY DeadStaysDead
PROPERTY ImplementsAccess
CHECK_DEADLOCK FALSE
