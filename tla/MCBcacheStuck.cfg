\* Three buckets with a buffer each for two processes that hold none: a free
\* buffer is always there.
SPECIFICATION FairSpec
CONSTANTS
  NBUCKETS = 3
  NBUF = 3
  Block = {1, 2, 3, 4}
  Value = {0}
  Zero = 0
  Proc = {p1, p2}
  NoProc = NoProc
  MaxHold = 1
CHECK_DEADLOCK FALSE
PROPERTIES
  BreadReturns
