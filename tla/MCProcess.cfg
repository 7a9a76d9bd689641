\* Two CPUs, three slots, two forks: a slot can be used again, and a child can
\* have a child.  Two harts and two tasks.  Pages of two bytes, page tables of
\* three entries, and so few pages that every allocation can fail.
SPECIFICATION SumSpec
CONSTANTS
  CPU = {c1, c2}
  NPROC = 3
  NoCPU = NoCPU
  MaxPid = 4
  KillPids = {0, 2}
  Hart = {0, 1}
  Task = {p, q}
  NoTask = NoTask
  PGSIZE = 2
  FAN = 3
  UINT = 32
  NPAGES = 19
  Slot = {1, 2}
  Delta <- Deltas
  Program <- Programs
  MAXVA = 6
  WORD = 8
  Byte = {0, 1}
  Frame = {1, 2}
  MaxLen = 4
  PTRSIZE = 2
SYMMETRY CPUSymmetry
INVARIANTS
  SchedNeverPanics
  OneCpuPerThread
  FamilySound
  TrapsTransparent
  AddressSpacesSound
  CopiesExact
