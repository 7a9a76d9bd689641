\* Three inodes, so that a freed one is used again at once; files that reach
\* their indirect blocks; fewer entries of ftable than descriptors; files of the
\* image around the boundaries of blocks and of the direct blocks.
SPECIFICATION SumSpec
CONSTANTS
  Proc = {p, q}
  NoProc = NoProc
  NINODES = 3
  Name = {"a", "b"}
  SysCall <- SysCalls
  DataFile = {1, 2}
  BSIZE = 2
  NDIRECT = 1
  NBLOCKS = 8
  BPB = 1
  MAXOPBLOCKS = 6
  UINT = 16
  Count = {3}
  Process = {i0, c1}
  Initproc = i0
  NFILE = 3
  NOFILE = 2
  NPIPE = 1
  IMGBSIZE = 4
  IMGNDIRECT = 2
  IMGNINDIRECT = 2
  IPB = 2
  DIRENT = 2
  FSSIZE = 30
  IMGINODES = 5
  LOGSIZE = 2
  FileSize = {0, 1, 4, 7, 9, 13, 16, 17}
SYMMETRY ProcSymmetry
INVARIANTS
  TreeSound
  FileBlocksSound
  FilesSound
  ImageSound
