\* The log as mkfs makes it: log.size = LOGSIZE, header included.
SPECIFICATION Spec
CONSTANTS
  MAXOPBLOCKS = 2
  LOGSIZE = 4
  NLog = 4
  Proc = {p1, p2}
  Block = {a, b, c, d}
  Value = {0, 1}
  Zero = 0
SYMMETRY Symmetry
INVARIANTS
  TransactionSound
  
PROPERTIES
  RefinesAtomicStore
