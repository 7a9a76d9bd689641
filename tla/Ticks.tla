------------------------------- MODULE Ticks -------------------------------
(***************************************************************************)
(* The clock: clockintr of kernel/trap.c counts interrupts of CPU 0 and    *)
(* wakes the processes in sys_sleep of kernel/sysproc.c, which compares    *)
(* unsigned differences, so that the counter may wrap around and a        *)
(* negative number of ticks is a very large one.                           *)
(***************************************************************************)
EXTENDS Integers

CONSTANTS Proc, NoProc,
          Clock,    \* clockintr, as the holder of tickslock
          TUINT,    \* 2^32 in the code
          Nap       \* the numbers of ticks that are asked for

VARIABLES
  tick,   \* ticks and the holder of tickslock
  tkth    \* tkth[p]: where p is, n, ticks0, killed, what sys_sleep returned, and
          \* (history) how many ticks passed since ticks0 was read, up to TUINT

tkvars == <<tick, tkth>>

Idle == [pc |-> "idle", n |-> 0, ticks0 |-> 0, killed |-> FALSE, ret |-> 0, passed |-> 0]

\* The counter starts shortly before it wraps around, which a few ticks more reach.
Init ==
  /\ tick = [now |-> TUINT - 1, lock |-> NoProc, clock |-> "idle"]
  /\ tkth = [p \in Proc |-> Idle]

At(p, l) == tkth[p].pc = l

\* sys_sleep(n) is called; n becomes unsigned where it is compared.
Call(p, n) ==
  /\ At(p, "idle")
  /\ tkth' = [tkth EXCEPT ![p] = [Idle EXCEPT !.pc = "enter", !.n = n % TUINT]]
  /\ UNCHANGED tick

\* acquire(&tickslock), at the start, where ticks0 is read, and at the end of sleep.
Acquire(p) ==
  /\ tick.lock = NoProc
  /\ \/ At(p, "enter") /\ tkth' = [tkth EXCEPT ![p].pc = "test", ![p].ticks0 = tick.now]
     \/ At(p, "awake") /\ tkth' = [tkth EXCEPT ![p].pc = "test"]
  /\ tick' = [tick EXCEPT !.lock = p]

\* Mutant: the counters are compared without the wrap-around.
OverNoWrap(p) == tick.now >= tkth[p].ticks0 + tkth[p].n

\* Not (ticks - ticks0 < n).
Over(p) == (tick.now - tkth[p].ticks0) % TUINT >= tkth[p].n

Test(p) ==
  /\ At(p, "test")
  /\ tkth' = [tkth EXCEPT ![p] = IF Over(p) THEN [@ EXCEPT !.pc = "returned"]
                                 ELSE IF @.killed THEN [@ EXCEPT !.pc = "returned", !.ret = -1]
                                 ELSE [@ EXCEPT !.pc = "asleep"]]
  /\ tick' = [tick EXCEPT !.lock = NoProc]

Return(p) == At(p, "returned") /\ tkth' = [tkth EXCEPT ![p] = Idle] /\ UNCHANGED tick

Kill(p) ==
  /\ ~ At(p, "idle") /\ ~ tkth[p].killed
  /\ tkth' = [tkth EXCEPT ![p].killed = TRUE, ![p].pc = IF @ = "asleep" THEN "awake" ELSE @]
  /\ UNCHANGED tick

-----------------------------------------------------------------------------
\* clockintr: acquire(&tickslock), ticks++, wakeup(&ticks), release.
ClockAcquire ==
  /\ tick.clock = "idle" /\ tick.lock = NoProc
  /\ tick' = [tick EXCEPT !.clock = "count", !.lock = Clock]
  /\ UNCHANGED tkth

ClockCount ==
  /\ tick.clock = "count"
  /\ tick' = [tick EXCEPT !.clock = "wake", !.now = (@ + 1) % TUINT]
  /\ tkth' = [p \in Proc |-> IF At(p, "idle") \/ At(p, "enter") \/ At(p, "returned") THEN tkth[p]
                             ELSE [tkth[p] EXCEPT !.passed = IF @ = TUINT THEN @ ELSE @ + 1]]

ClockWake ==
  /\ tick.clock = "wake"
  /\ tick' = [tick EXCEPT !.clock = "idle", !.lock = NoProc]
  /\ tkth' = [p \in Proc |-> [tkth[p] EXCEPT !.pc = IF @ = "asleep" THEN "awake" ELSE @]]

Next ==
  \/ \E p \in Proc : (\E n \in Nap : Call(p, n)) \/ Acquire(p) \/ Test(p) \/ Return(p) \/ Kill(p)
  \/ ClockAcquire \/ ClockCount \/ ClockWake

Spec == Init /\ [][Next]_tkvars

-----------------------------------------------------------------------------
\* sys_sleep returns 0 only after as many ticks as it was asked for, across a
\* wrap-around of the counter too, and only a killed process gets -1; nobody
\* sleeps whose time is over, unless clockintr is about to wake it, or it was kept
\* from running while the counter came round (sysproc.c:64-73, trap.c:165-168).
SleepsLongEnough ==
  \A p \in Proc :
    /\ At(p, "returned") => IF tkth[p].ret = 0 THEN tkth[p].passed >= tkth[p].n ELSE tkth[p].killed
    /\ At(p, "asleep") => tkth[p].passed < tkth[p].n \/ tick.clock = "wake" \/ tkth[p].passed = TUINT
=============================================================================
