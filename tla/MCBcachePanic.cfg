SPECIFICATION Spec
CONSTANTS
  NBUCKETS = 2
  NBUF = 2
  Block = {1, 3, 5}
  Value = {0}
  Zero = 0
  Proc = {p1}
  NoProc = NoProc
  MaxHold = 1
CHECK_DEADLOCK FALSE
INVARIANTS
  PanicsOnlyIfFull
