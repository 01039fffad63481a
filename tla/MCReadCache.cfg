CONSTANTS
  home = home  product = product
  r1 = r1  r2 = r2
  w1 = w1  w2 = w2
  Pages <- OnePage
  Readers <- TwoReaders
  Writers <- TwoWriters
  MaxWrites = 2
  MaxFailures = 1
SPECIFICATION FairSpec
INVARIANT TypeOK
INVARIANT FreshServed
PROPERTY ImplementsFreshReads
PROPERTY StaleEnds
PROPERTY Answered
CHECK_DEADLOCK FALSE
