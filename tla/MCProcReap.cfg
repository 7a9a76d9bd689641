\* The process table alone; nobody calls kill.
SPECIFICATION ReapSpec
CONSTANTS
  CPU = {c1, c2}
  NPROC = 3
  NoCPU = NoCPU
  MaxPid = 4
  KillPids = {}
  Hart = {0, 1}
  Task = {p, q}
  NoTask = NoTask
  PGSIZE = 2
  FAN = 3
  UINT = 32
  NPAGES = 19
  Slot = {1, 2}
  Delta <- Deltas
  Program <- Programs
  MAXVA = 6
  WORD = 8
  Byte = {0, 1}
  Frame = {1, 2}
  MaxLen = 4
  PTRSIZE = 2
PROPERTY
  OrphansReaped
