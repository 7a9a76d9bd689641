------------------------------ MODULE MCPools ------------------------------
(***************************************************************************)
(* What is shared and handed out, for TLC: the buffer cache, sleep         *)
(* locks, the heap of user programs, the clock and the lock statistics.    *)
(* Each is on its own: `running` chooses the one that takes steps.         *)
(***************************************************************************)
EXTENDS Bcache, SleepLock, TLC

CONSTANTS HEAP, MinCore, MaxBytes, HeaderSize,
          Sleeper, Clock, TUINT, Nap,
          BootLock, Counted, PipeLock, NLOCK, MaxNts, TOP, REPORT, Want

VARIABLES running,
          heap, taken,
          tick, tkth,
          locks, nts, ppc, rd

M == INSTANCE Umalloc
T == INSTANCE Ticks WITH Proc <- Sleeper
Q == INSTANCE LockStats

mvars == <<heap, taken>>
tkvars == <<tick, tkth>>
lsvars == <<locks, nts, ppc, rd>>

\* -1 is the largest unsigned number of ticks.
Naps == {-1, 0, 1, 2}

BootLocks == <<"cons", "kmem">>

ProcSymmetry == Permutations(Proc)

\* What the variables of the other components that do not run are.
NotRunning == 0

SumInit ==
  /\ running \in {"bcache", "malloc", "sleeplock", "ticks", "lockstats"}
  /\ Init /\ Initsleeplock
  /\ IF running = "malloc" THEN M!Init ELSE heap = NotRunning /\ taken = NotRunning
  /\ IF running = "ticks" THEN T!Init ELSE tick = NotRunning /\ tkth = NotRunning
  /\ IF running = "lockstats" THEN Q!Init
     ELSE locks = NotRunning /\ nts = NotRunning /\ ppc = NotRunning /\ rd = NotRunning

\* All buffers may be in use for ever, bget may panic, and two misses may
\* wait for each other.
SumNext ==
  /\ \/ running = "bcache" /\ (Next \/ UNCHANGED vars) /\ UNCHANGED <<mvars, slvars, tkvars, lsvars>>
     \/ running = "malloc" /\ M!Next /\ UNCHANGED <<vars, slvars, tkvars, lsvars>>
     \/ running = "sleeplock" /\ SleepLockNext /\ UNCHANGED <<vars, mvars, tkvars, lsvars>>
     \/ running = "ticks" /\ T!Next /\ UNCHANGED <<vars, mvars, slvars, lsvars>>
     \/ running = "lockstats" /\ Q!Next /\ UNCHANGED <<vars, mvars, slvars, tkvars>>
  /\ UNCHANGED running

SumSpec == SumInit /\ [][SumNext]_<<running, vars, mvars, slvars, tkvars, lsvars>>

\* malloc and free keep the free list circular, sorted and coalesced, and no two
\* blocks the program has overlap each other or the free ones (umalloc.c:24-90).
HeapSound == running = "malloc" => M!HeapSound

\* sys_sleep returns after as many ticks as it was asked for, also when the counter
\* wraps around, and nobody sleeps whose time is over (sysproc.c:64-73, trap.c:165-168).
SleepsLongEnough == running = "ticks" => T!SleepsLongEnough

\* The lock statistics name each lock that exists once and no other, and their
\* total misses no kmem or bcache lock (spinlock.c:17-43, 189-224).
StatsSound == running = "lockstats" => Q!StatsSound
=============================================================================
