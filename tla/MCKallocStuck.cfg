\* Three CPUs, memory that never runs out.
SPECIFICATION FairSpec
CONSTANTS
  NCPU = 3
  NPAGE = 2
  Thread = {t1, t2}
  NoThread = NoThread
  MaxOut = 2
CHECK_DEADLOCK FALSE
PROPERTIES
  KallocReturns
