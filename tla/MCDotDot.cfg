\* One process.
SPECIFICATION Spec
CONSTANTS
  Proc = {p}
  NoProc = NoProc
  NINODES = 3
  Name = {"a", "b"}
  SysCall <- SysCalls
INVARIANTS
  TreeNeverPanics
