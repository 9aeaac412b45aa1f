SPECIFICATION FairSpec
CONSTANTS
  Close = 3
  Overlap = 1
  Contents = {"a", "b"}
  Original = "a"
  MaxCorrections = 1
  Workers = {w1}
  w1 = w1
  Collector = c
  c = c
  None = None
  MaximumAttempts = 2
CHECK_DEADLOCK FALSE
INVARIANT NothingLost
INVARIANT CurrentIsNewest
INVARIANT OnlyOvertakenBlocked
PROPERTY BatchesSettle
