-------------------------------- MODULE Log --------------------------------
(***************************************************************************)
(* kernel/log.c: the redo log under the file system, with crashes at every *)
(* step and recovery at boot.                                              *)
(*                                                                         *)
(* The disk has the home blocks, the log blocks and the log header; a block*)
(* write is atomic and done when bwrite returns.  The buffer cache is what *)
(* bread gives: cache[b], kept while the buffer is pinned, and read from   *)
(* home again once an unpinned buffer is recycled.  Each part of log.c     *)
(* under log.lock is one step, and so is each bread/bwrite pair of commit. *)
(***************************************************************************)
EXTENDS Integers, Sequences, FiniteSets, Functions

CONSTANTS MAXOPBLOCKS, LOGSIZE,   \* param.h
          NLog,                   \* log.size, the sb.nlog mkfs wrote
          Proc,
          Block,                  \* home blocks
          Value, Zero             \* contents of a block, and those mkfs wrote

ASSUME LogAssumption ==
         /\ MAXOPBLOCKS \in Nat \ {0} /\ LOGSIZE \in Nat /\ NLog \in Nat \ {0}
         /\ MAXOPBLOCKS =< LOGSIZE
         /\ Zero \in Value

VARIABLES
  home, logblk, head,       \* on disk: home[b], logblk[k], the header's blocks
  cache, pin,               \* pin[b]: pins of block b's buffer
  lh, outstanding, committing,  \* struct log; lh as a sequence of blocks
  boot,                     \* "up", or where recovery is
  tail,                     \* the local tail of write_log or install_trans
  pc, wrote                 \* per process; the blocks its operation wrote

diskvars == <<home, logblk, head>>
logvars == <<lh, outstanding, committing>>
vars == <<diskvars, cache, pin, logvars, boot, tail, pc, wrote>>

CommitPC == {"write_log", "install", "finish"}

TypeOK ==
  /\ home \in [Block -> Value]
  /\ logblk \in [1 .. LOGSIZE -> Value]
  /\ head \in Seq(Block)
  /\ cache \in [Block -> Value]
  /\ pin \in [Block -> Nat]
  /\ lh \in Seq(Block) /\ Len(lh) =< LOGSIZE
  /\ outstanding \in Nat
  /\ committing \in BOOLEAN
  /\ boot \in {"read_head", "install", "up"}
  /\ tail \in 0 .. LOGSIZE
  /\ pc \in [Proc -> {"out", "begin", "asleep", "op", "panic"} \cup CommitPC]
  /\ wrote \in [Proc -> SUBSET Block]

\* A disk made by mkfs, and a kernel about to call initlog.
Init ==
  /\ home = [b \in Block |-> Zero]
  /\ logblk = [k \in 1 .. LOGSIZE |-> Zero]
  /\ head = <<>>
  /\ cache = home
  /\ pin = [b \in Block |-> 0]
  /\ lh = <<>> /\ outstanding = 0 /\ committing = FALSE
  /\ boot = "read_head"
  /\ tail = 0
  /\ pc = [p \in Proc |-> "out"]
  /\ wrote = [p \in Proc |-> {}]

-----------------------------------------------------------------------------
\* Operations run once recovery is over and as long as nobody panicked: a
\* panic keeps log.lock for ever.
Running == boot = "up" /\ \A p \in Proc : pc[p] # "panic"

At(p, l) == Running /\ pc[p] = l

Goto(p, l) == pc' = [pc EXCEPT ![p] = l]

\* Mutant: nobody is woken.
WakeupForgotten(p, l) == Goto(p, l)

\* wakeup(&log), while p goes on to l.
WakeupAndGoto(p, l) ==
  pc' = [q \in Proc |-> CASE q = p -> l
                          [] q # p /\ pc[q] = "asleep" -> "begin"
                          [] OTHER -> pc[q]]

BeginOpCall(p) ==
  /\ At(p, "out")
  /\ Goto(p, "begin")
  /\ UNCHANGED <<diskvars, cache, pin, logvars, boot, tail, wrote>>

\* Mutant: the space of the operations under way is not reserved.
MustWaitLess == committing \/ Len(lh) + MAXOPBLOCKS > LOGSIZE

\* The two conditions for which begin_op sleeps.
MustWait == committing \/ Len(lh) + (outstanding + 1) * MAXOPBLOCKS > LOGSIZE

BeginOpSleep(p) ==
  /\ At(p, "begin")
  /\ MustWait
  /\ Goto(p, "asleep")
  /\ UNCHANGED <<diskvars, cache, pin, logvars, boot, tail, wrote>>

BeginOp(p) ==
  /\ At(p, "begin")
  /\ ~ MustWait
  /\ outstanding' = outstanding + 1
  /\ Goto(p, "op")
  /\ wrote' = [wrote EXCEPT ![p] = {}]
  /\ UNCHANGED <<diskvars, cache, pin, lh, committing, boot, tail>>

\* Mutant: every log_write appends, without log absorption.
AppendAlways(b) ==
  /\ lh' = Append(lh, b)
  /\ pin' = [pin EXCEPT ![b] = @ + 1]

\* The block is added to lh and pinned, unless it is there.
AppendBlock(b) ==
  IF b \in Range(lh)
    THEN UNCHANGED <<lh, pin>>
    ELSE /\ lh' = Append(lh, b)
         /\ pin' = [pin EXCEPT ![b] = @ + 1]

LogFull == Len(lh) >= LOGSIZE \/ Len(lh) >= NLog - 1

\* bread, a change of the data, log_write, brelse by an operation that writes
\* at most MAXOPBLOCKS blocks.
LogWrite(p, b, v) ==
  /\ At(p, "op")
  /\ Cardinality(wrote[p] \cup {b}) =< MAXOPBLOCKS
  /\ cache' = [cache EXCEPT ![b] = v]
  /\ wrote' = [wrote EXCEPT ![p] = @ \cup {b}]
  /\ IF LogFull \/ outstanding < 1
       THEN Goto(p, "panic") /\ UNCHANGED <<lh, pin>>
       ELSE AppendBlock(b) /\ UNCHANGED pc
  /\ UNCHANGED <<diskvars, outstanding, committing, boot, tail>>

\* end_op up to its first release.
EndOp(p) ==
  /\ At(p, "op")
  /\ outstanding' = outstanding - 1
  /\ IF committing
       THEN Goto(p, "panic") /\ UNCHANGED committing
       ELSE \/ /\ outstanding = 1
               /\ committing' = TRUE
               /\ Goto(p, IF lh = <<>> THEN "finish" ELSE "write_log")
            \/ /\ outstanding > 1
               /\ WakeupAndGoto(p, "out")
               /\ UNCHANGED committing
  /\ UNCHANGED <<diskvars, cache, pin, lh, boot, tail, wrote>>

-----------------------------------------------------------------------------
\* write_log: one block from the cache to the log.
WriteLog(p) ==
  /\ At(p, "write_log")
  /\ tail < Len(lh)
  /\ logblk' = [logblk EXCEPT ![tail + 1] = cache[lh[tail + 1]]]
  /\ tail' = tail + 1
  /\ UNCHANGED <<home, head, cache, pin, logvars, boot, pc, wrote>>

\* Mutant: the header is written before the log blocks are.
LogWrittenAlways == TRUE

LogWritten == tail = Len(lh)

\* write_head: the commit.
WriteHead(p) ==
  /\ At(p, "write_log")
  /\ LogWritten
  /\ head' = lh
  /\ tail' = 0
  /\ Goto(p, "install")
  /\ UNCHANGED <<home, logblk, cache, pin, logvars, boot, wrote>>

\* One turn of install_trans, on the header in memory.
InstallBlock ==
  LET b == lh[tail + 1] IN
  /\ tail < Len(lh)
  /\ home' = [home EXCEPT ![b] = logblk[tail + 1]]
  /\ cache' = [cache EXCEPT ![b] = logblk[tail + 1]]
  /\ tail' = tail + 1

\* install_trans(0)
Install(p) ==
  /\ At(p, "install")
  /\ InstallBlock
  /\ pin' = [pin EXCEPT ![lh[tail + 1]] = @ - 1]
  /\ UNCHANGED <<logblk, head, logvars, boot, pc, wrote>>

Installed == tail = Len(lh)

\* lh.n = 0; write_head
EraseHead == Installed /\ lh' = <<>> /\ head' = <<>> /\ tail' = 0

Clear(p) ==
  /\ At(p, "install")
  /\ EraseHead
  /\ Goto(p, "finish")
  /\ UNCHANGED <<home, logblk, cache, pin, outstanding, committing, boot, wrote>>

\* The end of end_op.
Finish(p) ==
  /\ At(p, "finish")
  /\ committing' = FALSE
  /\ WakeupAndGoto(p, "out")
  /\ UNCHANGED <<diskvars, cache, pin, lh, outstanding, boot, tail, wrote>>

-----------------------------------------------------------------------------
\* The buffer cache recycles a buffer that is not pinned; the next bread of
\* the block reads its home.
Evict(b) ==
  /\ boot = "up"
  /\ pin[b] = 0
  /\ cache' = [cache EXCEPT ![b] = home[b]]
  /\ UNCHANGED <<diskvars, pin, logvars, boot, tail, pc, wrote>>

\* Power fails: only the disk is left.
Crash ==
  /\ cache' = home
  /\ pin' = [b \in Block |-> 0]
  /\ lh' = <<>> /\ outstanding' = 0 /\ committing' = FALSE
  /\ boot' = "read_head"
  /\ tail' = 0
  /\ pc' = [p \in Proc |-> "out"]
  /\ wrote' = [p \in Proc |-> {}]
  /\ UNCHANGED diskvars

\* recover_from_log: read_head, install_trans(1), lh.n = 0, write_head.
ReadHead ==
  /\ boot = "read_head"
  /\ lh' = head
  /\ boot' = "install"
  /\ UNCHANGED <<diskvars, cache, pin, outstanding, committing, tail, pc, wrote>>

RecoverInstall ==
  /\ boot = "install"
  /\ InstallBlock
  /\ UNCHANGED <<logblk, head, pin, logvars, boot, pc, wrote>>

RecoverClear ==
  /\ boot = "install"
  /\ EraseHead
  /\ boot' = "up"
  /\ UNCHANGED <<home, logblk, cache, pin, outstanding, committing, pc, wrote>>

Recover == ReadHead \/ RecoverInstall \/ RecoverClear

\* end_op and commit, once begun, go on.
CommitStep(p) == WriteLog(p) \/ WriteHead(p) \/ Install(p) \/ Clear(p) \/ Finish(p)

Next ==
  \/ \E p \in Proc : \/ BeginOpCall(p) \/ BeginOpSleep(p) \/ BeginOp(p)
                     \/ \E b \in Block, v \in Value : LogWrite(p, b, v)
                     \/ EndOp(p)
                     \/ CommitStep(p)
  \/ \E b \in Block : Evict(b)
  \/ Recover
  \/ Crash

Spec == Init /\ [][Next]_vars

\* Processes are scheduled, and an operation ends.
Fairness ==
  \A p \in Proc : /\ WF_vars(CommitStep(p))
                  /\ WF_vars(EndOp(p))
                  /\ WF_vars(BeginOp(p) \/ BeginOpSleep(p))

FairSpec == Spec /\ Fairness

-----------------------------------------------------------------------------
\* What recovery would make of the disk as it is now.
Recovered ==
  [b \in Block |-> IF b \in Range(head)
                     THEN logblk[CHOOSE k \in DOMAIN head : head[k] = b]
                     ELSE home[b]]

Active == {p \in Proc : pc[p] \in {"op", "panic"}}

AS == INSTANCE AtomicStore
        WITH mem <- IF boot = "up" THEN cache ELSE Recovered,
             stable <- Recovered,
             active <- Active

\* The log implements the atomic store: a crash at any step, also during
\* recovery, leaves the last commit, whole, and a commit has the writes of
\* whole operations only (log.c:12-16, 99-101).
RefinesAtomicStore == AS!Spec

\* When no operation and no commit is under way all that was written has
\* reached its home, and the log is empty.
QuietIsDurable ==
  boot = "up" /\ outstanding = 0 /\ ~ committing =>
    home = cache /\ lh = <<>> /\ head = <<>>

\* A commit runs alone: one process commits, and none is inside an operation
\* (log.c:13-14), so end_op never finds log.committing set.
CommitsAlone ==
  committing =>
    /\ outstanding = 0 /\ Active = {}
    /\ \E p \in Proc : {q \in Proc : pc[q] \in CommitPC} = {p}

\* Each block of the transaction has one entry in the log and one pin, from
\* its first log_write to its installation, and no other block has a pin.
PinsMatchLog ==
  boot = "up" =>
    LET Installing == \E p \in Proc : pc[p] = "install"
        From == IF Installing THEN tail + 1 ELSE 1
    IN /\ IsInjective(lh)
       /\ \A b \in Block : pin[b] = IF \E k \in From .. Len(lh) : lh[k] = b THEN 1 ELSE 0

\* A transaction is committed by one process alone, with one entry and one pin for
\* each of its blocks, and leaves nothing behind (log.c:12-16, 144-235).
TransactionSound == TypeOK /\ CommitsAlone /\ PinsMatchLog /\ QuietIsDurable

\* The transaction fits the log on the disk: log block k is log.start + k, and
\* the log is log.size blocks with its header.
FitsOnDisk == Len(lh) =< NLog - 1 /\ Len(head) =< NLog - 1

\* The blocks that the operations under way have written, each operation's own.
Written == {w \in Active \X Block : w[2] \in wrote[w[1]]}

\* The reservation made in begin_op holds: what the operations under way may
\* still write fits the log as well, MAXOPBLOCKS blocks each less those they have
\* written (log.c:133-134).
RoomReserved ==
  Len(lh) + MAXOPBLOCKS * Cardinality(Active) - Cardinality(Written) =< LOGSIZE

\* What is in the log and what may still come has room (log.c:131-134, 220).
RoomSound == FitsOnDisk /\ RoomReserved

\* An operation that begin_op let in and that has written fewer than
\* MAXOPBLOCKS blocks can write another: begin_op waited until it fits the log
\* (log.c:134).
NewBlockFits ==
  \A p \in Proc :
    At(p, "op") /\ Cardinality(wrote[p]) < MAXOPBLOCKS => ~ LogFull

\* Every process that sleeps in begin_op is woken up.
BeginOpWoken == \A p \in Proc : (pc[p] = "asleep") ~> (pc[p] # "asleep")
=============================================================================
