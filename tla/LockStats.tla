----------------------------- MODULE LockStats -----------------------------
(***************************************************************************)
(* The lock statistics of kernel/spinlock.c and kernel/stats.c: the table  *)
(* `locks` of all spinlocks, to which the lock of a pipe comes and goes    *)
(* with the pipe, and the report a read of the device gets piece by piece. *)
(* The locks spin, and are counted, while the report is made.  Its text is *)
(* left out: it has REPORT units, and its numbers are tot and the locks    *)
(* that were found the most contended.                                     *)
(***************************************************************************)
EXTENDS Integers, FiniteSetsExt, Sequences

CONSTANTS BootLock,   \* the locks of kernel memory, in the order main initialises them
          Counted,    \* those of them whose name starts with kmem or bcache
          PipeLock,   \* the locks of pipes, by the page they are in
          NLOCK,
          MaxNts,     \* bound: failed test-and-sets of a lock
          TOP,        \* 5 in the code
          REPORT,     \* the size of a report
          Want        \* how much a read asks for

None == "none"

\* More than any nts: 100000000 in the code.
ManyTimes == MaxNts + 1

Range0 == 0 .. NLOCK - 1

VARIABLES
  locks,  \* the table
  nts,    \* nts[l]: how often a test-and-set of l failed
  ppc,    \* ppc[l]: how far the pipe of l is made or unmade
  rd      \* statsread and statslock: where it is, sz and off, and statslock's
          \* tot, i, t, top, last and (history) the sum of nts when it started

lsvars == <<locks, nts, ppc, rd>>

\* What main initialises is in the table before there is any process.
Init ==
  /\ locks = [k \in Range0 |-> IF k < Len(BootLock) THEN BootLock[k + 1] ELSE None]
  /\ nts = [l \in {BootLock[k] : k \in 1 .. Len(BootLock)} \cup PipeLock |-> 0]
  /\ ppc = [l \in PipeLock |-> "unused"]
  /\ rd = [pc |-> "idle", sz |-> 0, off |-> 0, n |-> 0, tot |-> 0, i |-> 0, t |-> 0, top |-> 0, last |-> 0, sum |-> 0]

\* The lock of a pipe is used from the end of initlock until its last close.
InUse(l) == l \in PipeLock => ppc[l] = "listed"

\* acquire finds l locked
Spin(l) ==
  /\ InUse(l) /\ nts[l] < MaxNts
  /\ nts' = [nts EXCEPT ![l] = @ + 1]
  /\ UNCHANGED <<locks, ppc, rd>>

-----------------------------------------------------------------------------
\* Mutant: freelock and findslot do not take lock_locks.
LockLocksAlways == TRUE

\* statslock does not hold lock_locks.
LockLocksFree == rd.pc \notin {"sum", "top", "topend"}

\* pipealloc: the page is allocated and initlock clears the counters
Pipealloc(l) ==
  /\ ppc[l] = "unused"
  /\ ppc' = [ppc EXCEPT ![l] = "open"] /\ nts' = [nts EXCEPT ![l] = 0]
  /\ UNCHANGED <<locks, rd>>

\* findslot: the first free slot (there are more slots than locks)
Findslot(l) ==
  /\ ppc[l] = "open" /\ LockLocksFree
  /\ locks' = [locks EXCEPT ![Min({k \in Range0 : locks[k] = None})] = l]
  /\ ppc' = [ppc EXCEPT ![l] = "listed"]
  /\ UNCHANGED <<nts, rd>>

\* pipeclose: freelock, then kfree of the page the lock is in
Freelock(l) ==
  /\ ppc[l] = "listed" /\ LockLocksFree
  /\ locks' = [k \in Range0 |-> IF locks[k] = l THEN None ELSE locks[k]]
  /\ ppc' = [ppc EXCEPT ![l] = "unlisted"]
  /\ UNCHANGED <<nts, rd>>

Kfree(l) ==
  /\ ppc[l] = "unlisted"
  /\ ppc' = [ppc EXCEPT ![l] = "unused"]
  /\ UNCHANGED <<locks, nts, rd>>

-----------------------------------------------------------------------------
\* What statslock has added up or will, if nothing more happens.
SumOf == FoldSet(LAMBDA l, s : s + nts[l], 0, Counted)

\* statsread(n): make a new report unless there is one
Statsread(n) ==
  /\ rd.pc = "idle"
  /\ rd' = [rd EXCEPT !.n = n, !.pc = IF rd.sz = 0 THEN "make" ELSE "copy"]
  /\ UNCHANGED <<locks, nts, ppc>>

\* statslock: acquire(&lock_locks), which nobody holds across steps
Statslock ==
  /\ rd.pc = "make"
  /\ rd' = [rd EXCEPT !.pc = "sum", !.tot = 0, !.i = 0, !.sum = SumOf]
  /\ UNCHANGED <<locks, nts, ppc>>

\* A scan of the table ends with it or at a slot without a lock.
Ends == IF rd.i = NLOCK THEN TRUE ELSE locks[rd.i] = None

SumOne ==
  /\ rd.pc = "sum"
  /\ rd' = IF Ends THEN [rd EXCEPT !.pc = "top", !.i = 0, !.t = 0, !.top = 0, !.last = ManyTimes]
           ELSE [rd EXCEPT !.i = @ + 1, !.tot = IF locks[rd.i] \in Counted THEN @ + nts[locks[rd.i]] ELSE @]
  /\ UNCHANGED <<locks, nts, ppc>>

\* One comparison of the search for the next most contended lock.
TopOne ==
  /\ rd.pc = "top"
  /\ rd' = IF Ends THEN [rd EXCEPT !.pc = "topend"]
           ELSE LET x == nts[locks[rd.i]] IN
                [rd EXCEPT !.i = @ + 1, !.top = IF x > nts[locks[rd.top]] /\ x < rd.last THEN rd.i ELSE @]
  /\ UNCHANGED <<locks, nts, ppc>>

\* Print it and search again, or release lock_locks with the report done.
TopEnd ==
  /\ rd.pc = "topend"
  /\ LET last == nts[locks[rd.top]] IN
     rd' = IF rd.t + 1 < TOP THEN [rd EXCEPT !.pc = "top", !.t = @ + 1, !.i = 0, !.top = 0, !.last = last]
           ELSE [rd EXCEPT !.pc = "copy", !.sz = REPORT]
  /\ UNCHANGED <<locks, nts, ppc>>

\* The piece statsread copies, which may fail, or the end of the report.
Copy(ok) ==
  LET left == rd.sz - rd.off  m == Min({left, rd.n}) IN
  /\ rd.pc = "copy"
  /\ rd' = [rd EXCEPT !.pc = "idle", !.n = 0, !.sz = IF left > 0 THEN @ ELSE 0,
                      !.off = IF left > 0 THEN (IF ok THEN @ + m ELSE @) ELSE 0]
  /\ UNCHANGED <<locks, nts, ppc>>

Next ==
  \/ \E l \in DOMAIN nts : Spin(l)
  \/ \E l \in PipeLock : Pipealloc(l) \/ Findslot(l) \/ Freelock(l) \/ Kfree(l)
  \/ \E n \in Want : Statsread(n)
  \/ Statslock \/ SumOne \/ TopOne \/ TopEnd
  \/ \E ok \in BOOLEAN : Copy(ok)

Spec == Init /\ [][Next]_lsvars

-----------------------------------------------------------------------------
\* The table names every lock that is initialised and not freed exactly once, and
\* none whose page is free: what the scan has chosen is still there.  The total
\* counts every kmem and bcache lock, between what it was when the report started
\* and what it is now, although pipes leave holes in the table, which end a scan
\* (spinlock.c:17-43, 189-224, pipe.c:69-74).
StatsSound ==
  /\ \A l \in DOMAIN nts :
       Cardinality({k \in Range0 : locks[k] = l}) = IF l \in PipeLock /\ ppc[l] # "listed" THEN 0 ELSE 1
  /\ rd.pc \in {"top", "topend"} => locks[rd.top] # None /\ rd.tot >= rd.sum /\ rd.tot <= SumOf
=============================================================================
