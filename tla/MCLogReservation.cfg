\* log.size as mkfs writes it: LOGSIZE blocks, one of them the header.
SPECIFICATION Spec
CONSTANTS
  MAXOPBLOCKS = 1
  LOGSIZE = 3
  NLog = 3
  Proc = {p1, p2, p3}
  Block = {a, b, c}
  Value = {0}
  Zero = 0
INVARIANTS
  NewBlockFits
