\* Two buffers for three blocks, so that buffers move between buckets; blocks
\* 1 and 3 share a bucket.  A heap of seven units.
SPECIFICATION SumSpec
CONSTANTS
  NBUCKETS = 2
  NBUF = 2
  Block = {1, 2, 3}
  Value = {0, 1}
  Zero = 0
  Proc = {p1, p2, p3}
  NoProc = NoProc
  MaxHold = 1
  Locker = {p1, p2, p3}
  NoLocker = NoLocker
  HEAP = 7
  MinCore = 3
  MaxBytes = 4
  HeaderSize = 2
  Sleeper = {y1, y2}
  Clock = Clock
  TUINT = 4
  Nap <- Naps
  BootLock <- BootLocks
  Counted = {"kmem"}
  PipeLock = {"pa", "pb"}
  NLOCK = 5
  MaxNts = 1
  TOP = 2
  REPORT = 3
  Want = {0, 2}
SYMMETRY ProcSymmetry
INVARIANTS
  BuffersSound
  ReadsLatest
  
  SleepLockSound
  SleepsLongEnough
  StatsSound
PROPERTIES
  KeepsBlock

