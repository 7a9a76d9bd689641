------------------------------ MODULE Spinlock ------------------------------
(***************************************************************************)
(* kernel/spinlock.c: acquire and release with push_off and pop_off, on    *)
(* CPUs that take interrupts.  On each CPU two contexts can be under way:  *)
(* the kernel thread and, above it, the interrupt handler.  They share the *)
(* CPU's noff, intena and interrupt-enable bit.  The stores and loads of   *)
(* lk->locked and lk->cpu are separate steps; the fences of the code make  *)
(* them appear in program order.                                           *)
(*                                                                         *)
(* Locks are numbered and a context takes them in increasing order: the    *)
(* discipline the callers need so as not to block each other.              *)
(***************************************************************************)
EXTENDS Integers, FiniteSets

CONSTANTS CPU,      \* the harts
          NLock,    \* number of spinlocks
          NoCPU,    \* lk->cpu = 0
          MaxPush   \* bound: plain push_offs a context may have outstanding

ASSUME SpinlockAssumption ==
         NLock \in Nat /\ NoCPU \notin CPU /\ MaxPush \in Nat

Lock == 1 .. NLock
NoLock == 0
Ctx == CPU \X {"thread", "intr"}
Thread(c) == <<c, "thread">>
Intr(c) == <<c, "intr">>

VARIABLES
  locked,   \* locked[l]: lk->locked
  owner,    \* owner[l]: lk->cpu
  noff,     \* noff[c]: depth of push_off nesting
  intena,   \* intena[c]: were interrupts on before push_off?
  intr,     \* intr[c]: the SIE bit of sstatus
  inIntr,   \* inIntr[c]: an interrupt handler runs on c
  pc,       \* pc[x]: where context x is
  lk,       \* lk[x]: the argument of acquire or release, or NoLock
  old,      \* old[x]: the local old of push_off
  held,     \* held[x]: the locks x has won and not yet given up
  pushed,   \* pushed[x]: plain push_offs of x not yet popped
  before    \* history: intr when x began its outermost push_off

cpuvars == <<noff, intena, intr>>
lockvars == <<locked, owner>>
vars == <<lockvars, cpuvars, inIntr, pc, lk, old, held, pushed, before>>

PC == {"run", "pushoff", "locked?", "cpu?", "tas", "setcpu",
       "clearcpu", "unlock", "popoff", "panic"}

TypeOK ==
  /\ locked \in [Lock -> {0, 1}]
  /\ owner \in [Lock -> CPU \cup {NoCPU}]
  /\ noff \in [CPU -> Nat]
  /\ intena \in [CPU -> BOOLEAN]
  /\ intr \in [CPU -> BOOLEAN]
  /\ inIntr \in [CPU -> BOOLEAN]
  /\ pc \in [Ctx -> PC]
  /\ lk \in [Ctx -> Lock \cup {NoLock}]
  /\ old \in [Ctx -> BOOLEAN]
  /\ held \in [Ctx -> SUBSET Lock]
  /\ pushed \in [Ctx -> Nat]
  /\ before \in [Ctx -> BOOLEAN]

Init ==
  /\ locked = [l \in Lock |-> 0]
  /\ owner = [l \in Lock |-> NoCPU]
  /\ noff = [c \in CPU |-> 0]
  /\ intena = [c \in CPU |-> FALSE]
  /\ intr = [c \in CPU |-> FALSE]
  /\ inIntr = [c \in CPU |-> FALSE]
  /\ pc = [x \in Ctx |-> "run"]
  /\ lk = [x \in Ctx |-> NoLock]
  /\ old = [x \in Ctx |-> FALSE]
  /\ held = [x \in Ctx |-> {}]
  /\ pushed = [x \in Ctx |-> 0]
  /\ before = [x \in Ctx |-> FALSE]

-----------------------------------------------------------------------------
\* The context that executes on its CPU: the handler, if there is one.
Active(x) == inIntr[x[1]] <=> x[2] = "intr"

At(x, l) == Active(x) /\ pc[x] = l

Goto(x, l) == pc' = [pc EXCEPT ![x] = l]

\* No push_off of x is outstanding.
Outermost(x) == held[x] = {} /\ pushed[x] = 0

\* old = intr_get(), for acquire(l) or for a plain push_off (l = NoLock).
PushOffGet(x, l) ==
  /\ At(x, "run")
  /\ IF l = NoLock THEN pushed[x] < MaxPush ELSE \A h \in held[x] : h < l
  /\ lk' = [lk EXCEPT ![x] = l]
  /\ old' = [old EXCEPT ![x] = intr[x[1]]]
  /\ before' = IF Outermost(x) THEN [before EXCEPT ![x] = intr[x[1]]] ELSE before
  /\ Goto(x, "pushoff")
  /\ UNCHANGED <<lockvars, cpuvars, inIntr, held, pushed>>

\* Mutant: interrupts stay on.
IntrOffForgotten(c) == UNCHANGED intr

IntrOff(c) == intr' = [intr EXCEPT ![c] = FALSE]

\* Mutant: intena = old at every level of nesting.
SaveIntenaAlways(c, o) == intena' = [intena EXCEPT ![c] = o]

\* if(noff == 0) intena = old
SaveIntena(c, o) ==
  intena' = IF noff[c] = 0 THEN [intena EXCEPT ![c] = o] ELSE intena

\* intr_off(); if(noff == 0) intena = old; noff += 1.
PushOff(x) ==
  LET c == x[1] IN
  /\ At(x, "pushoff")
  /\ IntrOff(c)
  /\ SaveIntena(c, old[x])
  /\ noff' = [noff EXCEPT ![c] = @ + 1]
  /\ IF lk[x] = NoLock
       THEN /\ pushed' = [pushed EXCEPT ![x] = @ + 1]
            /\ Goto(x, "run")
       ELSE /\ Goto(x, "locked?")
            /\ UNCHANGED pushed
  /\ old' = [old EXCEPT ![x] = FALSE]
  /\ UNCHANGED <<lockvars, inIntr, lk, held, before>>

\* holding(lk) in acquire: first lk->locked, then lk->cpu.
HoldingLocked(x) ==
  /\ At(x, "locked?")
  /\ Goto(x, IF locked[lk[x]] = 1 THEN "cpu?" ELSE "tas")
  /\ UNCHANGED <<lockvars, cpuvars, inIntr, lk, old, held, pushed, before>>

HoldingCpu(x) ==
  /\ At(x, "cpu?")
  /\ Goto(x, IF owner[lk[x]] = x[1] THEN "panic" ELSE "tas")
  /\ UNCHANGED <<lockvars, cpuvars, inIntr, lk, old, held, pushed, before>>

\* Mutant: the value returned by the swap is not tested.
TestAndSetBlind(x) ==
  /\ At(x, "tas")
  /\ locked' = [locked EXCEPT ![lk[x]] = 1]
  /\ held' = [held EXCEPT ![x] = @ \cup {lk[x]}]
  /\ Goto(x, "setcpu")
  /\ UNCHANGED <<owner, cpuvars, inIntr, lk, old, pushed, before>>

\* __sync_lock_test_and_set returns 0; until it does it changes nothing.
TestAndSet(x) ==
  /\ At(x, "tas")
  /\ locked[lk[x]] = 0
  /\ locked' = [locked EXCEPT ![lk[x]] = 1]
  /\ held' = [held EXCEPT ![x] = @ \cup {lk[x]}]
  /\ Goto(x, "setcpu")
  /\ UNCHANGED <<owner, cpuvars, inIntr, lk, old, pushed, before>>

SetCpu(x) ==
  /\ At(x, "setcpu")
  /\ owner' = [owner EXCEPT ![lk[x]] = x[1]]
  /\ lk' = [lk EXCEPT ![x] = NoLock]
  /\ Goto(x, "run")
  /\ UNCHANGED <<locked, cpuvars, inIntr, old, held, pushed, before>>

\* release(l): if(!holding(lk)) panic("release").
ReleaseCheck(x, l) ==
  /\ At(x, "run")
  /\ l \in held[x]
  /\ lk' = [lk EXCEPT ![x] = l]
  /\ Goto(x, IF locked[l] = 1 /\ owner[l] = x[1] THEN "clearcpu" ELSE "panic")
  /\ UNCHANGED <<lockvars, cpuvars, inIntr, old, held, pushed, before>>

\* Mutant: release leaves lk->cpu as it is.
ClearCpuForgotten(x) ==
  /\ At(x, "clearcpu")
  /\ Goto(x, "unlock")
  /\ UNCHANGED <<lockvars, cpuvars, inIntr, lk, old, held, pushed, before>>

ClearCpu(x) ==
  /\ At(x, "clearcpu")
  /\ owner' = [owner EXCEPT ![lk[x]] = NoCPU]
  /\ Goto(x, "unlock")
  /\ UNCHANGED <<locked, cpuvars, inIntr, lk, old, held, pushed, before>>

\* __sync_lock_release
Unlock(x) ==
  /\ At(x, "unlock")
  /\ locked' = [locked EXCEPT ![lk[x]] = 0]
  /\ held' = [held EXCEPT ![x] = @ \ {lk[x]}]
  /\ Goto(x, "popoff")
  /\ UNCHANGED <<owner, cpuvars, inIntr, lk, old, pushed, before>>

\* A plain pop_off is called.
PopOffCall(x) ==
  /\ At(x, "run")
  /\ pushed[x] > 0
  /\ pushed' = [pushed EXCEPT ![x] = @ - 1]
  /\ Goto(x, "popoff")
  /\ UNCHANGED <<lockvars, cpuvars, inIntr, lk, old, held, before>>

\* c->noff -= 1
Uncount(c) == noff' = [noff EXCEPT ![c] = @ - 1]

PopOff(x) ==
  LET c == x[1] IN
  /\ At(x, "popoff")
  /\ IF intr[c] \/ noff[c] < 1
       THEN /\ Goto(x, "panic")
            /\ UNCHANGED <<noff, intr>>
       ELSE /\ Uncount(c)
            /\ intr' = [intr EXCEPT ![c] = noff[c] = 1 /\ intena[c]]
            /\ Goto(x, "run")
  /\ lk' = [lk EXCEPT ![x] = NoLock]
  /\ UNCHANGED <<lockvars, intena, inIntr, old, held, pushed, before>>

-----------------------------------------------------------------------------
\* The trap hardware: an interrupt is taken only while intr is set; it clears
\* intr, and sret from the handler sets it again.  The handler gives back all
\* it took.
TrapEnter(c) ==
  /\ intr[c]
  /\ ~ inIntr[c]
  /\ inIntr' = [inIntr EXCEPT ![c] = TRUE]
  /\ intr' = [intr EXCEPT ![c] = FALSE]
  /\ UNCHANGED <<lockvars, noff, intena, pc, lk, old, held, pushed, before>>

\* kerneltrap returns to what it interrupted.
TrapReturn(c) ==
  /\ At(Intr(c), "run")
  /\ Outermost(Intr(c))
  /\ inIntr' = [inIntr EXCEPT ![c] = FALSE]
  /\ intr' = [intr EXCEPT ![c] = TRUE]
  /\ UNCHANGED <<lockvars, noff, intena, pc, lk, old, held, pushed, before>>

\* intr_on in usertrap (as in the scheduler's loop) and intr_off in
\* usertrapret, both by a thread that has no push_off outstanding.
UserTrapIntrOn(c) ==
  /\ At(Thread(c), "run")
  /\ Outermost(Thread(c))
  /\ intr' = [intr EXCEPT ![c] = TRUE]
  /\ UNCHANGED <<lockvars, noff, intena, inIntr, pc, lk, old, held, pushed, before>>

UserTrapRetIntrOff(c) ==
  /\ At(Thread(c), "run")
  /\ Outermost(Thread(c))
  /\ IntrOff(c)
  /\ UNCHANGED <<lockvars, noff, intena, inIntr, pc, lk, old, held, pushed, before>>

\* What a context does inside acquire, release, push_off and pop_off.
Step(x) ==
  \/ PushOff(x) \/ HoldingLocked(x) \/ HoldingCpu(x) \/ SetCpu(x)
  \/ ClearCpu(x) \/ Unlock(x) \/ PopOff(x)

\* Its caller gives back what it took.
GiveBack(x) == PopOffCall(x) \/ \E l \in Lock : ReleaseCheck(x, l)

Next ==
  \/ \E x \in Ctx : \/ \E l \in Lock \cup {NoLock} : PushOffGet(x, l)
                    \/ Step(x)
                    \/ TestAndSet(x)
                    \/ GiveBack(x)
  \/ \E c \in CPU : \/ TrapEnter(c)
                    \/ TrapReturn(c)
                    \/ UserTrapIntrOn(c)
                    \/ UserTrapRetIntrOff(c)

Spec == Init /\ [][Next]_vars

-----------------------------------------------------------------------------
\* Two contexts never hold the same lock, on one CPU or on two.
MutualExclusion ==
  \A x, y \in Ctx : x # y => held[x] \cap held[y] = {}

\* None of the panics of acquire, release and pop_off is reached by callers
\* that release what they acquired, although holding() reads lk->locked and
\* lk->cpu while other CPUs write them (spinlock.c:65, 98, 129, 152-155).
NoPanic == \A x \in Ctx : pc[x] # "panic"

\* The push_offs of x not yet popped: one for each lock, each plain push_off,
\* and the call of acquire or pop_off under way.
Depth(x) == Cardinality(held[x]) + pushed[x]
            + IF pc[x] \in {"locked?", "cpu?", "tas", "popoff"} THEN 1 ELSE 0

\* noff counts what the contexts of the CPU have pushed and not yet popped.
NoffCounts == \A c \in CPU : noff[c] = Depth(Thread(c)) + Depth(Intr(c))

\* "disable interrupts to avoid deadlock" (spinlock.c:64): no handler runs on
\* a CPU whose thread is inside a critical section, so no context spins for a
\* lock its own CPU holds.
NoSelfDeadlock ==
  \A c \in CPU :
    /\ inIntr[c] => held[Thread(c)] = {}
    /\ \A x, y \in {Thread(c), Intr(c)} : pc[x] = "tas" => lk[x] \notin held[y]

\* The outermost pop_off leaves interrupts as the outermost push_off found
\* them, whatever handlers did to intena meanwhile (spinlock.c:133-135).
IntrRestored ==
  [][\A x \in Ctx :
       pc[x] = "popoff" /\ pc'[x] # "popoff" /\ Outermost(x) => intr'[x[1]] = before[x]]_vars

Holder(l) ==
  IF \E x \in Ctx : l \in held[x]
    THEN (CHOOSE x \in Ctx : l \in held[x])[1]
    ELSE NoCPU

AL == INSTANCE AbstractLock WITH holder <- [l \in Lock |-> Holder(l)]

\* acquire and release implement the lock the other modules use: whenever who
\* holds what changes, one free lock is taken or one held lock is given back, in
\* one atomic step (spinlock.c:62-110).
LockIsAtomic == AL!Init /\ [][held' # held => AL!Next]_vars

\* The lock as a whole, seen through its holders, behaves like the abstract one.
RefinesAbstractLock == AL!Spec
=============================================================================
