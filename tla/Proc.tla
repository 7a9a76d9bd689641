-------------------------------- MODULE Proc --------------------------------
(***************************************************************************)
(* kernel/proc.c: fork, exit, wait, kill, yield, sleep, wakeup and the     *)
(* scheduler, on several CPUs.                                             *)
(*                                                                         *)
(* A process is its slot of proc[], counted from 1, so 0 is the null       *)
(* pointer.  A spinlock is its holder (module Spinlock): the CPU that has  *)
(* it.  What is done while one p->lock is held and touches only that slot  *)
(* is one step, which waits for the lock.  Between two steps a CPU may run *)
(* any other.                                                              *)
(***************************************************************************)
EXTENDS Integers, FiniteSets

CONSTANTS CPU,
          NPROC,    \* slots of proc[]
          NoCPU,    \* a lock that is free
          MaxPid,   \* bound: no fork once nextpid has reached it
          KillPids  \* the arguments kill is called with

ASSUME ProcAssumption ==
         NPROC \in Nat \ {0} /\ NoCPU \notin CPU /\ MaxPid \in Nat /\ KillPids \subseteq Nat

Proc == 1 .. NPROC
NoProc == 0
initproc == 1

VARIABLES
  state, parent, pid, killed, chan,  \* of each slot; chan is the process that
                                     \* wait sleeps on, or NoProc
  plock,      \* plock[p]: the CPU that holds p->lock
  wait_lock,  \* the CPU that holds it
  nextpid,
  on,         \* on[c]: c->proc, whose kernel thread CPU c executes
  pc, ret,    \* where each thread is, and where it goes once scheduled again
  i, w,       \* its loop variables: of the loop under way, and of wakeup
  havekids,   \* local of wait
  n           \* the argument of kill

locals == <<i, w, havekids, n>>
slotvars == <<state, parent, pid, killed, chan>>
vars == <<slotvars, plock, wait_lock, nextpid, on, pc, ret, locals>>

\* Where a thread holds no lock, so that a timer interrupt can make it yield.
NoLockPC == {"user", "alloc", "setparent", "runnable", "kill", "wait", "exit"}
\* From where acquire(&wait_lock) is called to where it spins, interrupts off.
Spinning == [setparent |-> "parentlock", exit |-> "exitlock", wait |-> "waitlock"]

PC == NoLockPC \cup {"parentlock", "exitlock", "waitlock", "reparent", "wakeinit",
                     "wakeparent", "zlock", "zombie", "scan", "sleeplock", "sleep",
                     "sched", "resume", "panic"}

TypeOK ==
  /\ state \in [Proc -> {"UNUSED", "USED", "SLEEPING", "RUNNABLE", "RUNNING", "ZOMBIE"}]
  /\ parent \in [Proc -> Proc \cup {NoProc}]
  /\ pid \in [Proc -> Nat]
  /\ killed \in [Proc -> BOOLEAN]
  /\ chan \in [Proc -> Proc \cup {NoProc}]
  /\ plock \in [Proc -> CPU \cup {NoCPU}]
  /\ wait_lock \in CPU \cup {NoCPU}
  /\ nextpid \in Nat
  /\ on \in [CPU -> Proc \cup {NoProc}]
  /\ pc \in [Proc -> PC]
  /\ ret \in [Proc -> NoLockPC]
  /\ i \in [Proc -> Proc \cup {NPROC + 1}]
  /\ w \in [Proc -> Proc \cup {NPROC + 1}]
  /\ havekids \in [Proc -> BOOLEAN]
  /\ n \in [Proc -> Nat]

\* After procinit and userinit: the first process is about to be scheduled.
Init ==
  /\ state = [p \in Proc |-> IF p = initproc THEN "RUNNABLE" ELSE "UNUSED"]
  /\ parent = [p \in Proc |-> NoProc]
  /\ pid = [p \in Proc |-> IF p = initproc THEN 1 ELSE 0]
  /\ killed = [p \in Proc |-> FALSE]
  /\ chan = [p \in Proc |-> NoProc]
  /\ plock = [p \in Proc |-> NoCPU]
  /\ wait_lock = NoCPU
  /\ nextpid = 2
  /\ on = [c \in CPU |-> NoProc]
  /\ pc = [p \in Proc |-> "resume"]
  /\ ret = [p \in Proc |-> "user"]
  /\ i = [p \in Proc |-> 1]
  /\ w = [p \in Proc |-> 1]
  /\ havekids = [p \in Proc |-> FALSE]
  /\ n = [p \in Proc |-> 0]

-----------------------------------------------------------------------------
\* CPU c executes the thread of p, which is at l.
At(c, p, l) == on[c] = p /\ pc[p] = l

Goto(p, l) == pc' = [pc EXCEPT ![p] = l]

Free(q) == plock[q] = NoCPU

Held(c) == {q \in Proc : plock[q] = c}

\* Its noff is 1: c holds one lock.
NoffIsOne(c) == IF wait_lock = c THEN Held(c) = {} ELSE \E q \in Proc : Held(c) = {q}

\* A loop variable moves on, or is reset.
Advance(p) == i' = [i EXCEPT ![p] = @ + 1]
Restart(p) == i' = [i EXCEPT ![p] = 1]

-----------------------------------------------------------------------------
\* The scheduler of c finds q RUNNABLE; it switches to q with q->lock held.
\* Mutant: the lock is not taken.
SchedulerNoLock(c, q) ==
  /\ on[c] = NoProc /\ Held(c) = {} /\ state[q] = "RUNNABLE"
  /\ state' = [state EXCEPT ![q] = "RUNNING"]
  /\ plock' = [plock EXCEPT ![q] = c]
  /\ on' = [on EXCEPT ![c] = q]
  /\ UNCHANGED <<parent, pid, killed, chan, wait_lock, nextpid, pc, ret, locals>>

Scheduler(c, q) ==
  /\ on[c] = NoProc /\ Held(c) = {}
  /\ Free(q) /\ state[q] = "RUNNABLE"
  /\ state' = [state EXCEPT ![q] = "RUNNING"]
  /\ plock' = [plock EXCEPT ![q] = c]
  /\ on' = [on EXCEPT ![c] = q]
  /\ UNCHANGED <<parent, pid, killed, chan, wait_lock, nextpid, pc, ret, locals>>

\* swtch has come back to it: c->proc = 0; release(&p->lock).
SchedulerBack(c, q) ==
  /\ on[c] = NoProc /\ plock[q] = c
  /\ plock' = [plock EXCEPT ![q] = NoCPU]
  /\ UNCHANGED <<slotvars, wait_lock, nextpid, on, pc, ret, locals>>

\* sched: its checks, and swtch to the scheduler.
Sched(c, p) ==
  /\ At(c, p, "sched")
  /\ IF plock[p] # c \/ ~ NoffIsOne(c) \/ state[p] = "RUNNING"
       THEN Goto(p, "panic") /\ UNCHANGED on
       ELSE Goto(p, "resume") /\ on' = [on EXCEPT ![c] = NoProc]
  /\ UNCHANGED <<slotvars, plock, wait_lock, nextpid, ret, locals>>

\* After swtch, in sleep, yield and forkret: chan = 0; release(&p->lock).
Resume(c, p) ==
  /\ At(c, p, "resume")
  /\ chan' = [chan EXCEPT ![p] = NoProc]
  /\ plock' = [plock EXCEPT ![p] = NoCPU]
  /\ Goto(p, ret[p])
  /\ ret' = [ret EXCEPT ![p] = "user"]
  /\ UNCHANGED <<state, parent, pid, killed, wait_lock, nextpid, on, locals>>

\* Interrupts are on: a timer interrupt can make p yield.
CanYield(p) == pc[p] \in NoLockPC

\* The timer interrupts p, and yield puts it back among the RUNNABLE.
Yield(c, p) ==
  /\ on[c] = p /\ CanYield(p)
  /\ Free(p)
  /\ plock' = [plock EXCEPT ![p] = c]
  /\ state' = [state EXCEPT ![p] = "RUNNABLE"]
  /\ ret' = [ret EXCEPT ![p] = pc[p]]
  /\ Goto(p, "sched")
  /\ UNCHANGED <<parent, pid, killed, chan, wait_lock, nextpid, on, locals>>

-----------------------------------------------------------------------------
\* Mutant: p->state = UNUSED is forgotten.
FreeProcKeepsState(q) ==
  /\ pid' = [pid EXCEPT ![q] = 0]
  /\ parent' = [parent EXCEPT ![q] = NoProc]
  /\ chan' = [chan EXCEPT ![q] = NoProc]
  /\ killed' = [killed EXCEPT ![q] = FALSE]
  /\ UNCHANGED state

\* The slot as freeproc leaves it; its next thread will start at forkret.
freeproc(q) ==
  /\ state' = [state EXCEPT ![q] = "UNUSED"]
  /\ pid' = [pid EXCEPT ![q] = 0]
  /\ parent' = [parent EXCEPT ![q] = NoProc]
  /\ chan' = [chan EXCEPT ![q] = NoProc]
  /\ killed' = [killed EXCEPT ![q] = FALSE]

\* push_off, the first thing acquire does.
PushOff(c, p) ==
  /\ on[c] = p /\ pc[p] \in DOMAIN Spinning
  /\ Goto(p, Spinning[pc[p]])
  /\ UNCHANGED <<slotvars, plock, wait_lock, nextpid, on, ret, locals>>

\* usertrap: a system call by a process that nobody has killed.
Call(c, p, l) ==
  /\ At(c, p, "user") /\ ~ killed[p]
  /\ Goto(p, l)
  /\ UNCHANGED <<slotvars, plock, wait_lock, nextpid, on, ret, locals>>

Fork(c, p) ==
  /\ nextpid + Cardinality({q \in Proc : "alloc" \in {pc[q], ret[q]}}) < MaxPid
  /\ Call(c, p, "alloc")

\* allocproc: a slot that is in use, and the end of the table.
AllocNext(c, p) ==
  /\ At(c, p, "alloc")
  /\ \/ /\ i[p] > NPROC
        /\ Restart(p)
        /\ Goto(p, "user")
     \/ /\ i[p] \in Proc
        /\ Free(i[p]) /\ state[i[p]] # "UNUSED"
        /\ Advance(p)
        /\ UNCHANGED pc
  /\ UNCHANGED <<slotvars, plock, wait_lock, nextpid, on, ret, w, havekids, n>>

\* allocproc finds the slot but memory runs out, there or in uvmcopy: freeproc.
AllocFails(c, p) ==
  /\ At(c, p, "alloc")
  /\ i[p] \in Proc
  /\ Free(i[p]) /\ state[i[p]] = "UNUSED"
  /\ nextpid' = nextpid + 1
  /\ freeproc(i[p])
  /\ Restart(p)
  /\ Goto(p, "user")
  /\ UNCHANGED <<plock, wait_lock, on, ret, w, havekids, n>>

\* allocproc and the copying in fork, up to the first release of np->lock.
Alloc(c, p) ==
  LET np == i[p] IN
  /\ At(c, p, "alloc")
  /\ np \in Proc
  /\ Free(np) /\ state[np] = "UNUSED"
  /\ pid' = [pid EXCEPT ![np] = nextpid]
  /\ nextpid' = nextpid + 1
  /\ state' = [state EXCEPT ![np] = "USED"]
  /\ Goto(p, "setparent")
  /\ UNCHANGED <<parent, killed, chan, plock, wait_lock, on, ret, locals>>

\* Under wait_lock: np->parent = p.
ForkSetParent(c, p) ==
  /\ At(c, p, "parentlock")
  /\ wait_lock = NoCPU
  /\ parent' = [parent EXCEPT ![i[p]] = p]
  /\ Goto(p, "runnable")
  /\ UNCHANGED <<state, pid, killed, chan, plock, wait_lock, nextpid, on, ret, locals>>

\* Under np->lock: np->state = RUNNABLE.  The child starts at forkret.
ForkRunnable(c, p) ==
  /\ At(c, p, "runnable")
  /\ Free(i[p])
  /\ state' = [state EXCEPT ![i[p]] = "RUNNABLE"]
  /\ Restart(p)
  /\ Goto(p, "user")
  /\ UNCHANGED <<parent, pid, killed, chan, plock, wait_lock, nextpid, on, ret, w, havekids, n>>

-----------------------------------------------------------------------------
\* kill(m), for a pid other than that of init, which would then exit and panic.
KillCall(c, p, m) ==
  /\ At(c, p, "user") /\ ~ killed[p]
  /\ m # pid[initproc]
  /\ n' = [n EXCEPT ![p] = m]
  /\ Goto(p, "kill")
  /\ UNCHANGED <<slotvars, plock, wait_lock, nextpid, on, ret, i, w, havekids>>

\* kill returns.
KillReturn(p) ==
  /\ Restart(p)
  /\ n' = [n EXCEPT ![p] = 0]
  /\ Goto(p, "user")

\* The loop finds the process.
Kill(c, p) ==
  LET q == i[p] IN
  /\ At(c, p, "kill")
  /\ q \in Proc
  /\ Free(q) /\ pid[q] = n[p]
  /\ killed' = [killed EXCEPT ![q] = TRUE]
  /\ state' = IF state[q] = "SLEEPING" THEN [state EXCEPT ![q] = "RUNNABLE"] ELSE state
  /\ KillReturn(p)
  /\ UNCHANGED <<parent, pid, chan, plock, wait_lock, nextpid, on, ret, w, havekids>>

KillNext(c, p) ==
  /\ At(c, p, "kill")
  /\ \/ i[p] > NPROC /\ KillReturn(p)
     \/ /\ i[p] \in Proc
        /\ Free(i[p]) /\ pid[i[p]] # n[p]
        /\ Advance(p)
        /\ UNCHANGED <<pc, n>>
  /\ UNCHANGED <<slotvars, plock, wait_lock, nextpid, on, ret, w, havekids>>

-----------------------------------------------------------------------------
\* One slot of the loop in wakeup(q), which skips the caller.
WakeSlot(p, q) ==
  LET s == w[p] IN
  /\ s \in Proc
  /\ s # p => Free(s)
  /\ state' = IF s # p /\ state[s] = "SLEEPING" /\ chan[s] = q
                THEN [state EXCEPT ![s] = "RUNNABLE"]
                ELSE state
  /\ w' = [w EXCEPT ![p] = @ + 1]
  /\ UNCHANGED <<parent, pid, killed, chan>>

\* wakeup returns.
WakeEnd(p) ==
  /\ w[p] > NPROC
  /\ w' = [w EXCEPT ![p] = 1]

\* exit, called by the process or by usertrap once it has been killed; not by
\* init, which would panic: user/init.c never exits.
Exit(c, p) ==
  /\ p # initproc
  /\ At(c, p, "user")
  /\ Goto(p, "exit")
  /\ UNCHANGED <<slotvars, plock, wait_lock, nextpid, on, ret, locals>>

ExitAcquire(c, p) ==
  /\ At(c, p, "exitlock")
  /\ wait_lock = NoCPU
  /\ wait_lock' = c
  /\ Goto(p, "reparent")
  /\ UNCHANGED <<slotvars, plock, nextpid, on, ret, locals>>

\* Mutant: the last slot is left out.
ReparentEndsEarly(p) == i[p] >= NPROC

ReparentEnds(p) == i[p] > NPROC

\* One slot of reparent: a child goes to init, which is then woken.
Reparent(c, p) ==
  /\ At(c, p, "reparent")
  /\ \/ /\ ReparentEnds(p)
        /\ Restart(p)
        /\ Goto(p, "wakeparent")
        /\ UNCHANGED parent
     \/ /\ i[p] \in Proc /\ parent[i[p]] = p
        /\ parent' = [parent EXCEPT ![i[p]] = initproc]
        /\ Advance(p)
        /\ Goto(p, "wakeinit")
     \/ /\ i[p] \in Proc /\ parent[i[p]] # p
        /\ Advance(p)
        /\ UNCHANGED <<parent, pc>>
  /\ UNCHANGED <<state, pid, killed, chan, plock, wait_lock, nextpid, on, ret, w, havekids, n>>

WakeInit(c, p) ==
  /\ At(c, p, "wakeinit")
  /\ \/ WakeSlot(p, initproc) /\ UNCHANGED pc
     \/ WakeEnd(p) /\ Goto(p, "reparent") /\ UNCHANGED slotvars
  /\ UNCHANGED <<plock, wait_lock, nextpid, on, ret, i, havekids, n>>

ExitWakes(p) == parent[p]

WakeParent(c, p) ==
  /\ At(c, p, "wakeparent")
  /\ \/ WakeSlot(p, ExitWakes(p)) /\ UNCHANGED pc
     \/ WakeEnd(p) /\ Goto(p, "zlock") /\ UNCHANGED slotvars
  /\ UNCHANGED <<plock, wait_lock, nextpid, on, ret, i, havekids, n>>

ExitLock(c, p) ==
  /\ At(c, p, "zlock")
  /\ Free(p)
  /\ plock' = [plock EXCEPT ![p] = c]
  /\ Goto(p, "zombie")
  /\ UNCHANGED <<slotvars, wait_lock, nextpid, on, ret, locals>>

\* state = ZOMBIE; release(&wait_lock)
ExitZombie(c, p) ==
  /\ At(c, p, "zombie")
  /\ state' = [state EXCEPT ![p] = "ZOMBIE"]
  /\ wait_lock' = NoCPU
  /\ Goto(p, "sched")
  /\ UNCHANGED <<parent, pid, killed, chan, plock, nextpid, on, ret, locals>>

-----------------------------------------------------------------------------
Wait(c, p) == Call(c, p, "wait")

\* acquire(&wait_lock), at the start of wait and at the end of sleep.
WaitAcquire(c, p) ==
  /\ At(c, p, "waitlock")
  /\ wait_lock = NoCPU
  /\ wait_lock' = c
  /\ Goto(p, "scan")
  /\ UNCHANGED <<slotvars, plock, nextpid, on, ret, locals>>

\* A slot that is not an exited child.
ScanNext(c, p) ==
  LET np == i[p] IN
  /\ At(c, p, "scan")
  /\ np \in Proc
  /\ parent[np] = p => Free(np) /\ state[np] # "ZOMBIE"
  /\ havekids' = IF parent[np] = p THEN [havekids EXCEPT ![p] = TRUE] ELSE havekids
  /\ Advance(p)
  /\ UNCHANGED <<slotvars, plock, wait_lock, nextpid, on, pc, ret, w, n>>

\* wait returns, and its locals are gone.
WaitReturn(p) ==
  /\ wait_lock' = NoCPU
  /\ Restart(p)
  /\ havekids' = [havekids EXCEPT ![p] = FALSE]
  /\ Goto(p, "user")

\* An exited child: freeproc, unless copyout of its status fails; init asks for
\* no status (user/init.c).
Reap(c, p) ==
  LET np == i[p] IN
  /\ At(c, p, "scan")
  /\ np \in Proc
  /\ parent[np] = p /\ Free(np) /\ state[np] = "ZOMBIE"
  /\ \/ freeproc(np)
     \/ p # initproc /\ UNCHANGED slotvars
  /\ WaitReturn(p)
  /\ UNCHANGED <<plock, nextpid, on, ret, w, n>>

\* The end of the scan: give up, or go to sleep.
ScanEnd(c, p) ==
  /\ At(c, p, "scan")
  /\ i[p] > NPROC
  /\ IF ~ havekids[p] \/ killed[p]
       THEN WaitReturn(p)
       ELSE /\ Goto(p, "sleeplock")
            /\ Restart(p)
            /\ havekids' = [havekids EXCEPT ![p] = FALSE]
            /\ UNCHANGED wait_lock
  /\ UNCHANGED <<slotvars, plock, nextpid, on, ret, w, n>>

\* sleep(p, &wait_lock): acquire(&p->lock) ...
SleepLock(c, p) ==
  /\ At(c, p, "sleeplock")
  /\ Free(p)
  /\ plock' = [plock EXCEPT ![p] = c]
  /\ Goto(p, "sleep")
  /\ UNCHANGED <<slotvars, wait_lock, nextpid, on, ret, locals>>

\* Mutant: the lock is not released.
SleepKeepsLock == UNCHANGED wait_lock

SleepReleasesLock == wait_lock' = NoCPU

\* ... release(&wait_lock); chan; state = SLEEPING.
Sleep(c, p) ==
  /\ At(c, p, "sleep")
  /\ SleepReleasesLock
  /\ chan' = [chan EXCEPT ![p] = p]
  /\ state' = [state EXCEPT ![p] = "SLEEPING"]
  /\ ret' = [ret EXCEPT ![p] = "wait"]
  /\ Goto(p, "sched")
  /\ UNCHANGED <<parent, pid, killed, plock, nextpid, on, locals>>

-----------------------------------------------------------------------------
\* What a thread does by itself, once it is inside the kernel.
Step(c, p) ==
  \/ PushOff(c, p)
  \/ AllocNext(c, p) \/ AllocFails(c, p) \/ Alloc(c, p)
  \/ ForkSetParent(c, p) \/ ForkRunnable(c, p)
  \/ Kill(c, p) \/ KillNext(c, p)
  \/ ExitAcquire(c, p) \/ Reparent(c, p) \/ WakeInit(c, p) \/ WakeParent(c, p)
  \/ ExitLock(c, p) \/ ExitZombie(c, p)
  \/ WaitAcquire(c, p) \/ ScanNext(c, p) \/ Reap(c, p) \/ ScanEnd(c, p)
  \/ SleepLock(c, p) \/ Sleep(c, p)

Next ==
  \E c \in CPU, p \in Proc :
    \/ Scheduler(c, p) \/ SchedulerBack(c, p) \/ Sched(c, p) \/ Resume(c, p)
    \/ Yield(c, p)
    \/ Fork(c, p) \/ Exit(c, p) \/ Wait(c, p)
    \/ \E m \in KillPids : KillCall(c, p, m)
    \/ Step(c, p)

Spec == Init /\ [][Next]_vars

\* A thread that is scheduled again and again makes progress, since timer
\* interrupts are far apart and no lock is refused for ever; the round-robin scan
\* of scheduler reaches every process that stays RUNNABLE; init waits for
\* children again and again (user/init.c).  A timer interrupt that comes while
\* interrupts are off stays pending until they are on.
Fairness ==
  /\ \A c \in CPU :
       /\ WF_vars(\E p \in Proc : SchedulerBack(c, p) \/ Sched(c, p) \/ Resume(c, p))
       /\ SF_vars(\E p \in Proc : Yield(c, p))
  /\ \A p \in Proc :
       /\ SF_vars(\E c \in CPU : Step(c, p))
       /\ SF_vars(\E c \in CPU : Scheduler(c, p))
  /\ SF_vars(\E c \in CPU : Wait(c, initproc))

FairSpec == Spec /\ Fairness

-----------------------------------------------------------------------------
\* None of the panics of sched is reached: whoever gives up the CPU holds its
\* own p->lock and no other lock, and has changed its state (proc.c:480-487).
SchedNeverPanics == \A p \in Proc : pc[p] # "panic"

\* Two CPUs never execute the same thread, and a thread is executed only while
\* its state is RUNNING, unless it is on its way through sched or its lock is
\* held: otherwise a second scheduler would run on its stack.
OneCpuPerThread ==
  \A c \in CPU, p \in Proc :
    on[c] = p =>
      /\ \A d \in CPU \ {c} : on[d] # p
      /\ state[p] # "RUNNING" => plock[p] = c /\ pc[p] = "sched"

\* No two processes have the same pid, and a slot in use has one.
PidsUnique ==
  /\ \A p, q \in Proc : p # q /\ pid[p] = pid[q] => pid[p] = 0
  /\ \A p \in Proc : (pid[p] = 0) <=> (state[p] = "UNUSED")

\* A parent is alive: a process that exits hands its children to init before
\* anyone can see it as a ZOMBIE (proc.c:363-372).
ParentsAlive ==
  \A p \in Proc :
    /\ parent[p] # NoProc => state[parent[p]] \notin {"UNUSED", "USED", "ZOMBIE"}
    /\ state[p] \in {"SLEEPING", "RUNNABLE", "RUNNING", "ZOMBIE"}
         /\ p # initproc => parent[p] # NoProc

\* No wakeup is lost between exit and wait: nobody sleeps in wait while it has
\* a child that has exited (proc.c:366-372, 425-426).
NobodySleepsOnZombie ==
  \A p, q \in Proc :
    parent[q] = p /\ state[q] = "ZOMBIE" /\ wait_lock = NoCPU => state[p] # "SLEEPING"

\* The process table is a tree of live processes with pids of their own, none of
\* which sleeps in wait over a child that has exited (proc.c:104-167, 323-428).
FamilySound == TypeOK /\ PidsUnique /\ ParentsAlive /\ NobodySleepsOnZombie

\* Nothing that exits stays in the table: init reaps every child it has or is
\* given (proc.c:323-334, 383-428).
OrphansReaped ==
  \A q \in Proc \ {initproc} :
    state[q] = "ZOMBIE" /\ parent[q] = initproc ~> state[q] = "UNUSED"

=============================================================================
