CONSTANTS
  r1 = r1  r2 = r2
  m1 = m1  m2 = m2
  Request <- TwoRequests
  Mail <- TwoMails
  Attempts = 2
  MaxStalled = 1
  Concurrency = 1
  MaxFailures = 1
  MaxSignals = 2
SPECIFICATION Spec
INVARIANT TypeOK
INVARIANT WorkBounded
PROPERTY CleanExit
PROPERTY Stops
PROPERTY ConfirmationsEnd
