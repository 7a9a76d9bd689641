----------------------------- MODULE MCProgress -----------------------------
(***************************************************************************)
(* What must eventually happen, for TLC: the page allocator, the log, a    *)
(* pipe and the disk driver, each on its own.  `running` chooses the one   *)
(* that takes steps; the others stay as they start.                        *)
(***************************************************************************)
EXTENDS KallocFail

CONSTANTS MAXOPBLOCKS, LOGSIZE, NLog, LogProc, Block, Value, Zero,
          PIPESIZE, UINT, Reader, Writer, Byte, Asked, NoProc,
          NUM, IDX, User, NoUser, Handler,
          Agent   \* the threads, processes and handlers of all of them

VARIABLES running,
          home, logblk, head, cache, pin, lh, outstanding, committing, boot, tail, lpc, wrote,
          pi, pth,
          disk, vth, dev

L == INSTANCE Log WITH pc <- lpc, Proc <- LogProc
P == INSTANCE Pipe
D == INSTANCE Virtio

logvars == <<home, logblk, head, cache, pin, lh, outstanding, committing, boot, tail, lpc, wrote>>
pipevars == <<pi, pth>>
diskvars == <<disk, vth, dev>>
allvars == <<hvars, logvars, pipevars, diskvars>>

SumInit ==
  /\ running \in {"kalloc", "log", "pipe", "disk"}
  /\ HInit /\ L!Init /\ P!Init /\ D!Init

SumNext ==
  /\ \/ running = "kalloc" /\ HNext /\ UNCHANGED <<logvars, pipevars, diskvars>>
     \/ running = "log" /\ L!Next /\ UNCHANGED <<hvars, pipevars, diskvars>>
     \/ running = "pipe" /\ P!Next /\ UNCHANGED <<hvars, logvars, diskvars>>
     \/ running = "disk" /\ D!Next /\ UNCHANGED <<hvars, logvars, pipevars>>
  /\ UNCHANGED running

\* The steps that the Fairness of Kalloc, Log, Pipe and Virtio is about.  The
\* components share the names of their agents, so that one formula serves the one
\* that runs: agent x takes the steps Strong(x), and Weak(x, k) are those that
\* Log, Kalloc and Virtio ask weak fairness for, the device's among them.
Strong(x) ==
  \/ /\ running = "kalloc" /\ x \in Thread /\ (KallocStep(x) \/ KfreeStep(x))
     /\ UNCHANGED <<exhausted, logvars, pipevars, diskvars>>
  \/ /\ running = "pipe" /\ x \in Reader \cup Writer /\ P!Step(x)
     /\ UNCHANGED <<hvars, logvars, diskvars>>
  \/ /\ running = "disk"
     /\ (x \in User /\ D!RwStep(x)) \/ (x = Handler /\ D!Intr)
     /\ UNCHANGED <<hvars, logvars, pipevars>>

StrongClose(x) ==
  running = "pipe" /\ x \in Reader \cup Writer /\ P!Fileclose(x) /\ UNCHANGED <<hvars, logvars, diskvars>>

Weak(x, k) ==
  \/ /\ running = "kalloc" /\ x \in Thread /\ k = 0 /\ \E c \in CPU : Dispatch(x, c)
     /\ UNCHANGED <<exhausted, logvars, pipevars, diskvars>>
  \/ /\ running = "log"
     /\ (k = 0 /\ L!CommitStep(x)) \/ (k = 1 /\ L!EndOp(x)) \/ (k = 2 /\ (L!BeginOp(x) \/ L!BeginOpSleep(x)))
     /\ UNCHANGED <<hvars, pipevars, diskvars>>
  \/ /\ running = "disk"
     /\ (x \in Reader /\ D!DeviceComplete(k)) \/ (k = 0 /\ x \in Writer /\ D!DeviceFetch)
     /\ UNCHANGED <<hvars, logvars, pipevars>>

SumFairness ==
  \A x \in Agent : /\ SF_allvars(Strong(x))
                   /\ SF_allvars(StrongClose(x))
                   /\ \A k \in 0 .. NUM - 1 : WF_allvars(Weak(x, k))

SumSpec == SumInit /\ [][SumNext]_<<running, allvars>> /\ SumFairness

\* Every process that sleeps in begin_op is woken up (log.c:130-135, 159-162).
BeginOpWoken == L!BeginOpWoken

\* Every read and write of a pipe returns, once the processes at the other end
\* read, write or close (pipe.c:58-133).
CallsReturn == P!CallsReturn

\* Every transfer that has its descriptors ends, and whoever sleeps for
\* descriptors is woken (virtio_disk.c:168, 219-226, 262-264, 303-306).
RwReturns == D!RwReturns
=============================================================================
