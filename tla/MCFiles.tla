------------------------------ MODULE MCFiles ------------------------------
(***************************************************************************)
(* The directory tree, the contents of files, the table of open files and  *)
(* mkfs for TLC.  Each is on its own: `running` chooses the one that takes *)
(* steps.                                                                  *)
(***************************************************************************)
EXTENDS Inode, TLC

CONSTANTS DataFile, BSIZE, NDIRECT, NBLOCKS, BPB, MAXOPBLOCKS, UINT, Count,
          Process, Initproc, NFILE, NOFILE, NPIPE,
          IMGBSIZE, IMGNDIRECT, IMGNINDIRECT, IPB, DIRENT, FSSIZE, IMGINODES, LOGSIZE, FileSize

VARIABLES running, disk, off, wr, bytes, ftable, ofile, call, iref, ends, img

D == INSTANCE FileData WITH Inode <- DataFile, File <- DataFile, IpOf <- [f \in DataFile |-> f], Writer <- Proc
F == INSTANCE FileTable
M == INSTANCE Mkfs WITH BSIZE <- IMGBSIZE, NDIRECT <- IMGNDIRECT, NINDIRECT <- IMGNINDIRECT, NINODES <- IMGINODES

ProcSymmetry == Permutations(Proc)

SC(name, path) == [call |-> name, path |-> path, new |-> <<>>, relative |-> FALSE]
SysCalls ==
  {SC(name, path) : name \in {"create", "unlink"}, path \in {<<"a">>, <<"a", "b">>}}
    \cup {SC("mkdir", <<"a">>), SC("chdir", <<"a">>), SC("open", <<"a", "b">>), SC("unlink", <<"b">>)}
    \cup {[SC("link", path) EXCEPT !.new = <<"b">>] : path \in {<<"a">>, <<"a", "b">>}}

\* What the variables of the components that do not run are.
NotRunning == 0

SumInit ==
  /\ running \in {"tree", "data", "table", "mkfs"}
  /\ IF running = "tree" THEN Init ELSE dinode = NotRunning /\ ent = NotRunning /\ itable = NotRunning /\ fth = NotRunning /\ ipanic = NotRunning
  /\ IF running = "data" THEN D!Init ELSE disk = NotRunning /\ off = NotRunning /\ wr = NotRunning /\ bytes = NotRunning
  /\ IF running = "table" THEN F!Init ELSE ftable = NotRunning /\ ofile = NotRunning /\ call = NotRunning /\ iref = NotRunning /\ ends = NotRunning
  /\ IF running = "mkfs" THEN M!Init ELSE img = NotRunning

SumNext ==
  /\ \/ running = "tree" /\ Next /\ UNCHANGED <<disk, off, wr, bytes, ftable, ofile, call, iref, ends, img>>
     \/ running = "data" /\ D!Next /\ UNCHANGED <<vars, ftable, ofile, call, iref, ends, img>>
     \/ running = "table" /\ F!Next /\ UNCHANGED <<vars, disk, off, wr, bytes, img>>
     \/ running = "mkfs" /\ M!Next /\ UNCHANGED <<vars, disk, off, wr, bytes, ftable, ofile, call, iref, ends>>
  /\ UNCHANGED running

SumSpec ==
  SumInit /\ [][SumNext]_<<running, vars, disk, off, wr, bytes, ftable, ofile, call, iref, ends, img>>

\* No inode is freed while somebody has it, the entries of a linked directory name
\* allocated inodes that count them, and the kernel does not panic over a damaged
\* tree, while processes create, link, unlink and open the same names
\* (fs.c:332-358, 628-661; sysfile.c:119-284).
TreeSound == running = "tree" => InodesStay /\ EntriesAlive /\ TreeNeverPanics

\* Files read back what was written, the bitmap marks exactly the blocks in use,
\* and each part of a write fits in a transaction (fs.c:377-517, file.c:134-181).
FileBlocksSound == running = "data" => D!ReadsBack /\ D!BitmapExact /\ D!WriteFitsLog

\* References to open files, and theirs to inodes and pipe ends, are counted
\* exactly through dup, fork, close, exit and the failures of open and pipe
\* (file.c:29-83, sysfile.c:40-105, 457-486).
FilesSound == running = "table" => F!FileRefsExact /\ F!ObjectsHeldOnce

\* The image that mkfs makes is one the kernel can use (mkfs.c:69-173).
ImageSound == running = "mkfs" => M!ImageSound
=============================================================================
