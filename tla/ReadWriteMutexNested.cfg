\* TitanISC: a worker takes the read lock again while it holds it.
CONSTANTS
  Threads = {t1, t2}
  MaxDepth = 2
SPECIFICATION FairSpec
PROPERTY NestedReadReturns
