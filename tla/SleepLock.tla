----------------------------- MODULE SleepLock -----------------------------
(***************************************************************************)
(* kernel/sleeplock.c: a lock that is held across sleeps, made of a flag   *)
(* and a pid that a spinlock protects.  sleep and wakeup are one step each, *)
(* as module Proc shows them to be for whoever holds the spinlock; kill    *)
(* ends a sleep early.                                                     *)
(***************************************************************************)
EXTENDS Integers, FiniteSets

CONSTANTS Locker,
          NoLocker   \* nobody: the pid 0 of a free lock

VARIABLES
  sl,    \* locked and pid of the sleep lock, and the holder of its spinlock lk
  slth   \* slth[p]: where p is, and what holdingsleep last told it

slvars == <<sl, slth>>

\* initsleeplock
Initsleeplock ==
  /\ sl = [locked |-> FALSE, pid |-> NoLocker, lk |-> NoLocker]
  /\ slth = [p \in Locker |-> [pc |-> "out", says |-> "nothing"]]

At(p, l) == slth[p].pc = l

SlGoto(p, l) == slth' = [slth EXCEPT ![p] = [pc |-> l, says |-> "nothing"]]

-----------------------------------------------------------------------------
\* acquiresleep, releasesleep and holdingsleep are called; brelse and iunlock
\* call the last from inside, and a process that never had the lock may too.
Call(p) ==
  /\ \/ At(p, "out") /\ (SlGoto(p, "lock") \/ SlGoto(p, "askout"))
     \/ At(p, "in") /\ (SlGoto(p, "unlock") \/ SlGoto(p, "askin"))
  /\ UNCHANGED sl

\* acquire(&lk->lk), also at the end of sleep.
Acquire(p) ==
  /\ slth[p].pc \in {"lock", "unlock", "askout", "askin"} /\ sl.lk = NoLocker
  /\ sl' = [sl EXCEPT !.lk = p]
  /\ SlGoto(p, CASE At(p, "lock") -> "test" [] At(p, "unlock") -> "clear"
               [] At(p, "askout") -> "tellout" [] At(p, "askin") -> "tellin")

\* The test of acquiresleep: sleep while the lock is taken, else take it.
Test(p) ==
  /\ At(p, "test")
  /\ \/ sl.locked /\ sl' = [sl EXCEPT !.lk = NoLocker] /\ SlGoto(p, "asleep")
     \/ ~ sl.locked /\ sl' = [sl EXCEPT !.locked = TRUE] /\ SlGoto(p, "setpid")

SetPid(p) ==
  /\ At(p, "setpid")
  /\ sl' = [sl EXCEPT !.pid = p, !.lk = NoLocker]
  /\ SlGoto(p, "in")

Clear(p) ==
  /\ At(p, "clear")
  /\ sl' = [sl EXCEPT !.locked = FALSE, !.pid = NoLocker]
  /\ SlGoto(p, "wake")

\* Mutant: releasesleep wakes nobody.
WokenNobody(p) == {}

\* wakeup(lk): all who sleep on the lock.
Woken(p) == {q \in Locker : At(q, "asleep")}

Wake(p) ==
  /\ At(p, "wake")
  /\ sl' = [sl EXCEPT !.lk = NoLocker]
  /\ slth' = [q \in Locker |-> IF q = p THEN [pc |-> "out", says |-> "nothing"]
                             ELSE IF q \in Woken(p) THEN [slth[q] EXCEPT !.pc = "lock"] ELSE slth[q]]

\* holdingsleep
Holdingsleep(p) ==
  /\ At(p, "tellin") \/ At(p, "tellout")
  /\ sl' = [sl EXCEPT !.lk = NoLocker]
  /\ slth' = [slth EXCEPT ![p] = [pc |-> IF At(p, "tellin") THEN "in" ELSE "out",
                                  says |-> IF sl.locked /\ sl.pid = p THEN "yes" ELSE "no"]]

\* kill wakes a sleeper, which tests again.
Kill(p) == At(p, "asleep") /\ SlGoto(p, "lock") /\ UNCHANGED sl

SleepLockNext == \E p \in Locker : Call(p) \/ Acquire(p) \/ Test(p) \/ SetPid(p) \/ Clear(p) \/ Wake(p)
                          \/ Holdingsleep(p) \/ Kill(p)

SleepLockSpec == Initsleeplock /\ [][SleepLockNext]_slvars

-----------------------------------------------------------------------------
Inside(p) == slth[p].pc \in {"in", "unlock", "askin", "tellin"}

\* At most one process is inside, holdingsleep tells each whether it is the one,
\* and nobody sleeps for a lock that is free unless a wakeup is on its way
\* (sleeplock.c:21-52).
SleepLockSound ==
  /\ \A p, q \in Locker : Inside(p) /\ Inside(q) => p = q
  /\ \A p \in Locker : slth[p].says # "nothing" => (slth[p].says = "yes") = Inside(p)
  /\ \A p \in Locker : At(p, "asleep") => sl.locked \/ \E q \in Locker : At(q, "wake")
=============================================================================
