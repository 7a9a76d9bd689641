------------------------------- MODULE Bcache -------------------------------
(***************************************************************************)
(* kernel/bio.c: the buffer cache, hashed into NBUCKETS buckets with a     *)
(* lock each, and kernel/sleeplock.c as bio.c uses it.                     *)
(*                                                                         *)
(* A critical section under one bucket lock is one step, taken when the    *)
(* lock is free.  The exception is a miss in bget: it keeps the lock of    *)
(* its own bucket while it searches the others, taking their locks one at  *)
(* a time, so that lock is part of the state.  The device is always        *)
(* ROOTDEV; a buffer that was never used has device 0 and matches nothing. *)
(*                                                                         *)
(* The processes are the file system: a process changes a block only while *)
(* it holds the buffer, and before brelse it writes the block or pins it,  *)
(* as log_write does.  A process that holds buffers asks only for higher   *)
(* blocks.                                                                 *)
(***************************************************************************)
EXTENDS Integers, Sequences, FiniteSets, Functions

CONSTANTS NBUCKETS, NBUF,
          Block,      \* numbers of the disk blocks the file system uses
          Value, Zero,  \* contents of a block, and those of an unused buffer
          Proc, NoProc,
          MaxHold     \* bound: buffers a process holds at once

ASSUME BcacheAssumption ==
         /\ NBUCKETS \in Nat \ {0} /\ NBUF \in Nat /\ Block \subseteq Nat
         /\ NoProc \notin Proc /\ Zero \in Value /\ MaxHold \in Nat

Buf == 1 .. NBUF
Bucket == 0 .. NBUCKETS - 1
NoBuf == 0
NoBlock == -1

VARIABLES
  lock,     \* lock[k]: the process that holds bcache.lock[k]
  chain,    \* chain[k]: the buffers of bucket k from head.next on
  blockno, refcnt, valid, data,  \* the fields of a buffer
  sleep,    \* sleep[b]: the process that holds b->lock
  disk,     \* disk[n]: block n on the disk
  pinned,   \* buffers pinned by the log
  pc, want, \* where a process is; the blockno it passed to bread
  nextIdx,  \* the local nextIdx of bget
  buf,      \* the buffer bget or brelse works on
  held,     \* held[p]: the buffers bread returned to p, not yet released
  truth     \* history: truth[n] is what was last stored in block n

bufvars == <<blockno, refcnt, valid, data>>
procvars == <<pc, want, nextIdx, buf, held>>
vars == <<lock, chain, bufvars, sleep, disk, pinned, procvars, truth>>

TypeOK ==
  /\ lock \in [Bucket -> Proc \cup {NoProc}]
  /\ chain \in [Bucket -> Seq(Buf)]
  /\ blockno \in [Buf -> Block \cup {NoBlock}]
  /\ refcnt \in [Buf -> Nat]
  /\ valid \in [Buf -> BOOLEAN]
  /\ data \in [Buf -> Value]
  /\ sleep \in [Buf -> Proc \cup {NoProc}]
  /\ disk \in [Block -> Value]
  /\ pinned \subseteq Buf
  /\ pc \in [Proc -> {"user", "bget", "search", "insert", "sleeplock", "fill",
                      "unref", "panic"}]
  /\ want \in [Proc -> Block \cup {NoBlock}]
  /\ nextIdx \in [Proc -> Bucket]
  /\ buf \in [Proc -> Buf \cup {NoBuf}]
  /\ held \in [Proc -> SUBSET Buf]
  /\ truth \in [Block -> Value]

\* binit: every buffer is put at the head of bucket 0.
Init ==
  /\ lock = [k \in Bucket |-> NoProc]
  /\ chain = [k \in Bucket |->
                IF k = 0 THEN [j \in 1 .. NBUF |-> NBUF + 1 - j] ELSE <<>>]
  /\ blockno = [b \in Buf |-> NoBlock]
  /\ refcnt = [b \in Buf |-> 0]
  /\ valid = [b \in Buf |-> FALSE]
  /\ data = [b \in Buf |-> Zero]
  /\ sleep = [b \in Buf |-> NoProc]
  /\ disk = [n \in Block |-> Zero]
  /\ pinned = {}
  /\ pc = [p \in Proc |-> "user"]
  /\ want = [p \in Proc |-> NoBlock]
  /\ nextIdx = [p \in Proc |-> 0]
  /\ buf = [p \in Proc |-> NoBuf]
  /\ held = [p \in Proc |-> {}]
  /\ truth = disk

-----------------------------------------------------------------------------
getIndex(n) == n % NBUCKETS

Goto(p, l) == pc' = [pc EXCEPT ![p] = l]

Cached(n) == {b \in Range(chain[getIndex(n)]) : blockno[b] = n}

\* bread(n) is called.
BreadCall(p, n) ==
  /\ pc[p] = "user"
  /\ Cardinality(held[p]) < MaxHold
  /\ \A b \in held[p] : blockno[b] < n
  /\ want' = [want EXCEPT ![p] = n]
  /\ Goto(p, "bget")
  /\ UNCHANGED <<lock, chain, bufvars, sleep, disk, pinned, nextIdx, buf, held, truth>>

\* bget finds the block: refcnt++ under the lock of the bucket.
BgetHit(p) ==
  /\ pc[p] = "bget"
  /\ lock[getIndex(want[p])] = NoProc
  /\ \E b \in Cached(want[p]) :
       /\ refcnt' = [refcnt EXCEPT ![b] = @ + 1]
       /\ buf' = [buf EXCEPT ![p] = b]
  /\ Goto(p, "sleeplock")
  /\ UNCHANGED <<lock, chain, blockno, valid, data, sleep, disk, pinned, want,
                 nextIdx, held, truth>>

\* Mutant: the bucket is unlocked before the search for a buffer.
KeepLockNot(p, k) == UNCHANGED lock

KeepLock(p, k) == lock' = [lock EXCEPT ![k] = p]

\* bget does not find it and keeps the lock of the bucket.
BgetMiss(p) ==
  /\ pc[p] = "bget"
  /\ lock[getIndex(want[p])] = NoProc
  /\ Cached(want[p]) = {}
  /\ KeepLock(p, getIndex(want[p]))
  /\ nextIdx' = [nextIdx EXCEPT ![p] = getIndex(want[p] + 1)]
  /\ Goto(p, "search")
  /\ UNCHANGED <<chain, bufvars, sleep, disk, pinned, want, buf, held, truth>>

\* Mutant: a buffer in use counts as unused.
UnusedOrPinned(b) == refcnt[b] = 0 \/ b \in pinned

Unused(b) == refcnt[b] = 0

\* Mutant: b->valid is left as it was.
StaleDataKept(b) == UNCHANGED valid

\* b->valid = 0
StaleData(b) == valid' = [valid EXCEPT ![b] = FALSE]

\* The neighbours of the j-th buffer of a chain are linked to each other.
Unlink(s, j) == [i \in 1 .. Len(s) - 1 |-> s[IF i < j THEN i ELSE i + 1]]

\* Bucket nextIdx has an unused buffer: the last one from head.prev backwards
\* is taken over and unlinked, and the lock of that bucket is released.
Recycle(p) ==
  LET k == nextIdx[p] IN
  /\ pc[p] = "search"
  /\ k # getIndex(want[p])
  /\ lock[k] = NoProc
  /\ \E j \in DOMAIN chain[k] :
       LET b == chain[k][j] IN
       /\ Unused(b)
       /\ \A i \in DOMAIN chain[k] : i > j => ~ Unused(chain[k][i])
       /\ blockno' = [blockno EXCEPT ![b] = want[p]]
       /\ StaleData(b)
       /\ refcnt' = [refcnt EXCEPT ![b] = 1]
       /\ chain' = [chain EXCEPT ![k] = Unlink(@, j)]
       /\ buf' = [buf EXCEPT ![p] = b]
  /\ Goto(p, "insert")
  /\ UNCHANGED <<lock, data, sleep, disk, pinned, want, nextIdx, held, truth>>

\* It has none: go on with the next bucket.
SearchNext(p) ==
  LET k == nextIdx[p] IN
  /\ pc[p] = "search"
  /\ k # getIndex(want[p])
  /\ lock[k] = NoProc
  /\ \A j \in DOMAIN chain[k] : ~ Unused(chain[k][j])
  /\ nextIdx' = [nextIdx EXCEPT ![p] = getIndex(k + 1)]
  /\ UNCHANGED <<lock, chain, bufvars, sleep, disk, pinned, pc, want, buf, held, truth>>

\* panic("bget: no buffers")
SearchPanic(p) ==
  /\ pc[p] = "search"
  /\ nextIdx[p] = getIndex(want[p])
  /\ Goto(p, "panic")
  /\ UNCHANGED <<lock, chain, bufvars, sleep, disk, pinned, want, nextIdx, buf, held, truth>>

\* Put the recycled buffer at the head of its bucket and release the lock.
Insert(p) ==
  LET k == getIndex(want[p]) IN
  /\ pc[p] = "insert"
  /\ chain' = [chain EXCEPT ![k] = <<buf[p]>> \o @]
  /\ lock' = [lock EXCEPT ![k] = NoProc]
  /\ Goto(p, "sleeplock")
  /\ UNCHANGED <<bufvars, sleep, disk, pinned, want, nextIdx, buf, held, truth>>

SleepFree(b) == sleep[b] = NoProc

\* acquiresleep(&b->lock)
AcquireSleep(p) ==
  /\ pc[p] = "sleeplock"
  /\ SleepFree(buf[p])
  /\ sleep' = [sleep EXCEPT ![buf[p]] = p]
  /\ Goto(p, "fill")
  /\ UNCHANGED <<lock, chain, bufvars, disk, pinned, want, nextIdx, buf, held, truth>>

\* The rest of bread: read the block from the disk unless b->valid.
BreadFill(p) ==
  LET b == buf[p] IN
  /\ pc[p] = "fill"
  /\ data' = IF valid[b] THEN data ELSE [data EXCEPT ![b] = disk[blockno[b]]]
  /\ valid' = [valid EXCEPT ![b] = TRUE]
  /\ held' = [held EXCEPT ![p] = @ \cup {b}]
  /\ buf' = [buf EXCEPT ![p] = NoBuf]
  /\ want' = [want EXCEPT ![p] = NoBlock]
  /\ nextIdx' = [nextIdx EXCEPT ![p] = 0]
  /\ Goto(p, "user")
  /\ UNCHANGED <<lock, chain, blockno, refcnt, sleep, disk, pinned, truth>>

-----------------------------------------------------------------------------
\* The file system stores v in the block.
Modify(p, b, v) ==
  /\ pc[p] = "user" /\ b \in held[p]
  /\ data' = [data EXCEPT ![b] = v]
  /\ truth' = [truth EXCEPT ![blockno[b]] = v]
  /\ UNCHANGED <<lock, chain, blockno, refcnt, valid, sleep, disk, pinned, procvars>>

Bwrite(p, b) ==
  /\ pc[p] = "user" /\ b \in held[p]
  /\ disk' = [disk EXCEPT ![blockno[b]] = data[b]]
  /\ UNCHANGED <<lock, chain, bufvars, sleep, pinned, procvars, truth>>

Pin(b) == refcnt' = [refcnt EXCEPT ![b] = @ + 1]

\* bpin, called once per transaction by log_write.
Bpin(p, b) ==
  /\ pc[p] = "user" /\ b \in held[p] \ pinned
  /\ lock[getIndex(blockno[b])] = NoProc
  /\ Pin(b)
  /\ pinned' = pinned \cup {b}
  /\ UNCHANGED <<lock, chain, blockno, valid, data, sleep, disk, procvars, truth>>

\* bunpin, called by install_trans after it wrote the block.
Bunpin(p, b) ==
  /\ pc[p] = "user" /\ b \in held[p] \cap pinned
  /\ data[b] = disk[blockno[b]]
  /\ lock[getIndex(blockno[b])] = NoProc
  /\ refcnt' = [refcnt EXCEPT ![b] = @ - 1]
  /\ pinned' = pinned \ {b}
  /\ UNCHANGED <<lock, chain, blockno, valid, data, sleep, disk, procvars, truth>>

\* brelse up to releasesleep.
Brelse(p, b) ==
  /\ pc[p] = "user" /\ b \in held[p]
  /\ data[b] = disk[blockno[b]] \/ b \in pinned
  /\ sleep' = [sleep EXCEPT ![b] = NoProc]
  /\ held' = [held EXCEPT ![p] = @ \ {b}]
  /\ buf' = [buf EXCEPT ![p] = b]
  /\ Goto(p, "unref")
  /\ UNCHANGED <<lock, chain, bufvars, disk, pinned, want, nextIdx, truth>>

ToFront(s, b) ==
  LET j == CHOOSE i \in DOMAIN s : s[i] = b
  IN <<b>> \o Unlink(s, j)

\* Its critical section: refcnt--, and an unused buffer moves to the head.
BrelseUnref(p) ==
  LET b == buf[p]
      k == getIndex(blockno[b])
  IN /\ pc[p] = "unref"
     /\ lock[k] = NoProc
     /\ refcnt' = [refcnt EXCEPT ![b] = @ - 1]
     /\ chain' = IF refcnt[b] = 1 THEN [chain EXCEPT ![k] = ToFront(@, b)] ELSE chain
     /\ buf' = [buf EXCEPT ![p] = NoBuf]
     /\ Goto(p, "user")
     /\ UNCHANGED <<lock, blockno, valid, data, sleep, disk, pinned, want, nextIdx,
                    held, truth>>

Bread(p) ==
  BgetHit(p) \/ BgetMiss(p) \/ Recycle(p) \/ SearchNext(p) \/ SearchPanic(p)
  \/ Insert(p) \/ AcquireSleep(p) \/ BreadFill(p)

Use(p) ==
  \E b \in Buf : \/ \E v \in Value : Modify(p, b, v)
                 \/ Bwrite(p, b) \/ Bpin(p, b) \/ Bunpin(p, b)

Next ==
  \E p \in Proc :
    \/ \E n \in Block : BreadCall(p, n)
    \/ Bread(p)
    \/ Use(p)
    \/ \E b \in Buf : Brelse(p, b)
    \/ BrelseUnref(p)

Spec == Init /\ [][Next]_vars

\* Processes are scheduled, a process ends up releasing the buffers it has,
\* and a bucket lock or sleep lock that keeps being released is won.
Fairness ==
  \A p \in Proc : /\ SF_vars(Bread(p))
                  /\ SF_vars(BrelseUnref(p))
                  /\ WF_vars(Use(p) \/ \E b \in Buf : Brelse(p, b))
                  /\ \A b \in Buf : SF_vars(Brelse(p, b))

FairSpec == Spec /\ Fairness

-----------------------------------------------------------------------------
\* No block has two buffers, not even while a buffer moves between buckets:
\* two processes would each change their own copy (bio.c:5-6).
OneBufPerBlock ==
  \A b, c \in Buf : b # c /\ blockno[b] = blockno[c] => blockno[b] = NoBlock

\* A buffer is once on the chain its block hashes to, where bget will look for
\* it, unless a process is just moving it there.
OnItsChain ==
  /\ \A k \in Bucket : IsInjective(chain[k])
  /\ \A b \in Buf :
       LET On == {k \in Bucket : b \in Range(chain[k])}
           Moving == {p \in Proc : pc[p] = "insert" /\ buf[p] = b}
       IN /\ \/ (\E k \in Bucket : On = {k}) /\ Moving = {}
             \/ On = {} /\ (\E p \in Proc : Moving = {p})
          /\ blockno[b] # NoBlock => \A k \in On : k = getIndex(blockno[b])

\* The processes that use the buffer or wait for it.
Users(b) == {p \in Proc : b \in held[p] \cup {buf[p]}}

\* refcnt is the number of processes that use or wait for the buffer, and one
\* for the log's pin.
RefcntExact ==
  \A b \in Buf : refcnt[b] = Cardinality(Users(b)) + IF b \in pinned THEN 1 ELSE 0

\* "Only one process at a time can use a buffer" (bio.c:13): bread returns a
\* buffer to one process, whose sleep lock it keeps until brelse, and the block
\* it asked for.
ExclusiveUse ==
  \A p \in Proc : \A b \in held[p] :
    /\ sleep[b] = p
    /\ \A q \in Proc \ {p} : b \notin held[q]

\* Every block has its one buffer where bget looks for it, refcnt counts the
\* buffer's users, and one of them at a time has it (bio.c:5-13, 66-120, 145-185).
BuffersSound == TypeOK /\ OneBufPerBlock /\ OnItsChain /\ RefcntExact /\ ExclusiveUse

\* A buffer in use or pinned by the log is never recycled for another block.
KeepsBlock ==
  [][\A b \in Buf :
       Users(b) # {} \/ b \in pinned => blockno'[b] = blockno[b]]_vars

\* A process that has a buffer sees what was last stored in its block, by
\* whichever process, through recycling, reloading and pinning.
ReadsLatest ==
  \A p \in Proc : \A b \in held[p] : valid[b] /\ data[b] = truth[blockno[b]]

\* Unless it panics, bread returns (bio.c:66-68).
BreadReturns ==
  [](\A p \in Proc : pc[p] # "panic") =>
    \A p \in Proc : (pc[p] = "bget") ~> (pc[p] = "user")

\* "If not found, allocate a buffer" (bio.c:67): bget gives up only if every
\* buffer is in use.
PanicsOnlyIfFull ==
  (\E p \in Proc : pc[p] = "panic") => \A b \in Buf : refcnt[b] > 0
=============================================================================
