\* Rings of two entries whose counters wrap around, more threads than
\* descriptors, lines of five tokens, texts longer than grep's buffer.
SPECIFICATION SumSpec
CONSTANTS
  CPU = {c1, c2}
  NLock = 2
  NoCPU = NoCPU
  MaxPush = 1
  PIPESIZE = 2
  UINT = 4
  Reader = {r1}
  Writer = {w1, w2}
  Byte = {0, 1}
  Asked = {2}
  NoProc = NoProc
  NUM = 7
  IDX = 7
  User = {u1, u2, u3}
  NoUser = NoUser
  Handler = Handler
  SIZE = 2
  UUINT = 4
  Putter = {q1, q2}
  Syncer = {s1}
  Char = {0, 1}
  NoOne = NoOne
  Uartintr = Uartintr
  INPUT_BUF = 2
  CUINT = 4
  ConsProc = {e1, e2}
  Letter = {"a", "0"}
  NUL = "0"
  MaxRead = 2
  Token = {"a", "|", "<", ">", "&", ";", "(", ")"}
  MaxLine = 5
  MAXARGS = 4
  NOFILE = 6
  ReChar = {"a", ".", "*", "^", "$"}
  TextChar = {"a", "b", "n"}
  MaxRe = 3
  MaxText = 5
  BUFSIZE = 4
INVARIANTS
  NoPanic
  NoSelfDeadlock
  PipeSound
  DiskSound
  OutputNotStalled
  ShellSound
  GrepWritesMatches
PROPERTIES
  IntrRestored
  LockIsAtomic
  PipeIsFifo
  UartIsFifo
  ConsoleIsLineDiscipline
