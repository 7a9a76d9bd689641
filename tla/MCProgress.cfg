SPECIFICATION SumSpec
CONSTANTS
  MAXOPBLOCKS = 1
  LOGSIZE = 2
  NLog = 4
  LogProc = {x1, x2, x3}
  Block = {a}
  Value = {0}
  Zero = 0
  NCPU = 2
  NPAGE = 2
  Thread = {x1, x2}
  NoThread = NoThread
  MaxOut = 2
  PIPESIZE = 1
  UINT = 2
  Reader = {x1}
  Writer = {x2}
  Byte = {0}
  Asked = {0, 1, 2}
  NoProc = NoProc
  NUM = 4
  IDX = 8
  User = {x1, x2}
  NoUser = NoUser
  Handler = x3
  Agent = {x1, x2, x3}
CHECK_DEADLOCK FALSE
INVARIANTS
  
  PagesKept
PROPERTIES
  BeginOpWoken
  
  CallsReturn
  RwReturns
  RefinesPageAllocator
