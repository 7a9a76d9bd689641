------------------------------- MODULE Kalloc -------------------------------
(***************************************************************************)
(* kernel/kalloc.c: the physical page allocator with one free list and one *)
(* lock per CPU.  A kernel thread that finds the list of its own CPU empty *)
(* looks through the other lists, taking their locks one at a time while   *)
(* it keeps the lock of its own list.                                      *)
(*                                                                         *)
(* A spinlock is its abstract self here (who holds it); module Spinlock    *)
(* shows that acquire and release implement exactly that.  A pointer into  *)
(* a free list is the sequence of pages it reaches through next, and the   *)
(* loads and stores of the two pointers of a pop or a push are steps of    *)
(* their own: only the lock makes them one.  A page is its number, counted *)
(* from the first one after the kernel, so 0 is the null pointer.          *)
(***************************************************************************)
EXTENDS Integers, Sequences, FiniteSets, Functions

CONSTANTS NCPU,      \* entries of kmem[], and CPUs that run threads
          NPAGE,     \* pages between end and PHYSTOP
          Thread,    \* kernel threads
          NoThread,  \* "no thread holds this lock"
          MaxOut     \* bound: pages that may be out of the lists at once

ASSUME KallocAssumption ==
         /\ NCPU \in Nat \ {0}
         /\ NPAGE \in Nat
         /\ NoThread \notin Thread
         /\ MaxOut \in Nat

CPU == 0 .. NCPU - 1
Page == 1 .. NPAGE
Null == 0
Off == -1            \* a thread that is not running on any CPU

VARIABLES
  lock,      \* lock[i]: the thread that holds kmem[i].lock
  freelist,  \* freelist[i]: kmem[i].freelist, head first
  allocated, \* the pages kalloc has returned and kfree has not been given back
  cpu,       \* cpu[t]: the CPU thread t runs on
  pc,        \* where thread t is in kalloc or kfree
  cid,       \* the local cid of thread t
  i,         \* the local i of thread t: the list it looks at while stealing
  r,         \* the local r of thread t
  next       \* next[t]: the list that r->next of thread t points to

vars == <<lock, freelist, allocated, cpu, pc, cid, i, r, next>>

\* Where a thread holds kmem[cid].lock, and where kmem[i].lock as well.
StealPC == {"steal", "stealpop", "stealunlink"}
HoldOwnPC == {"pop", "unlink", "release", "flink", "fpush"} \cup StealPC
HoldOtherPC == {"stealpop", "stealunlink"}

KallocPC == {"acquire", "spin", "pop", "unlink", "release", "return"} \cup StealPC
KfreePC == {"facquire", "fspin", "flink", "fpush"}

TypeOK ==
  /\ lock \in [CPU -> Thread \cup {NoThread}]
  /\ freelist \in [CPU -> Seq(Page)]
  /\ allocated \subseteq Page
  /\ cpu \in [Thread -> CPU \cup {Off}]
  /\ pc \in [Thread -> {"idle"} \cup KallocPC \cup KfreePC]
  /\ cid \in [Thread -> CPU]
  /\ i \in [Thread -> 0 .. NCPU]
  /\ r \in [Thread -> Page \cup {Null}]
  /\ next \in [Thread -> Seq(Page)]

\* freerange frees every page upwards: the highest ends up first.
FreeRange == [k \in 1 .. NPAGE |-> NPAGE + 1 - k]

\* kinit runs on CPU 0, so list 0 has all the pages.
Init ==
  /\ lock = [c \in CPU |-> NoThread]
  /\ freelist = [c \in CPU |-> IF c = 0 THEN FreeRange ELSE <<>>]
  /\ allocated = {}
  /\ cpu = [t \in Thread |-> Off]
  /\ pc = [t \in Thread |-> "idle"]
  /\ cid = [t \in Thread |-> 0]
  /\ i = [t \in Thread |-> 0]
  /\ r = [t \in Thread |-> Null]
  /\ next = [t \in Thread |-> <<>>]

-----------------------------------------------------------------------------
(* The scheduler.  A thread moves only where interrupts are on: outside    *)
(* kalloc and kfree, between the pop_off that follows cpuid() and the      *)
(* push_off in acquire, and after the last release.  In the window before  *)
(* acquire cid goes stale: t may resume on another CPU.  A thread that     *)
(* spins for a lock has interrupts off and stays where it is.              *)

Preemptible(t) == pc[t] \in {"idle", "acquire", "facquire", "return"}

Preempt(t) ==
  /\ cpu[t] # Off
  /\ Preemptible(t)
  /\ cpu' = [cpu EXCEPT ![t] = Off]
  /\ UNCHANGED <<lock, freelist, allocated, pc, cid, i, r, next>>

Dispatch(t, c) ==
  /\ cpu[t] = Off
  /\ \A u \in Thread : cpu[u] # c
  /\ cpu' = [cpu EXCEPT ![t] = c]
  /\ UNCHANGED <<lock, freelist, allocated, pc, cid, i, r, next>>

-----------------------------------------------------------------------------
At(t, l) == cpu[t] # Off /\ pc[t] = l

Goto(t, l) == pc' = [pc EXCEPT ![t] = l]

\* Mutant: the lock is taken without waiting for it.
AcquireNoWait(t, c) == lock' = [lock EXCEPT ![c] = t]

Acquire(t, c) ==
  /\ lock[c] = NoThread
  /\ lock' = [lock EXCEPT ![c] = t]

Release(t, c) ==
  /\ lock[c] = t
  /\ lock' = [lock EXCEPT ![c] = NoThread]

\* r = kmem[c].freelist, which is not null; r->next is read with it.
ReadFirst(t, c) ==
  /\ freelist[c] # <<>>
  /\ r' = [r EXCEPT ![t] = Head(freelist[c])]
  /\ next' = [next EXCEPT ![t] = Tail(freelist[c])]

\* kmem[c].freelist = r->next
Unlink(t, c) ==
  /\ freelist' = [freelist EXCEPT ![c] = next[t]]
  /\ next' = [next EXCEPT ![t] = <<>>]

\* The call returns and its locals are gone.
Return(t) ==
  /\ Goto(t, "idle")
  /\ cid' = [cid EXCEPT ![t] = 0]
  /\ r' = [r EXCEPT ![t] = Null]
  /\ next' = [next EXCEPT ![t] = <<>>]

\* Bound of the model: pages out of the lists, and calls under way.
OutCount == Cardinality(allocated)
            + Cardinality({t \in Thread : pc[t] \in KallocPC \cup KfreePC})

\* push_off(); cid = cpuid(); pop_off();
KallocEnter(t) ==
  /\ At(t, "idle")
  /\ OutCount < MaxOut
  /\ cid' = [cid EXCEPT ![t] = cpu[t]]
  /\ Goto(t, "acquire")
  /\ UNCHANGED <<lock, freelist, allocated, cpu, i, r, next>>

\* The push_off at the start of acquire(&kmem[cid].lock).
KallocPushOff(t) ==
  /\ At(t, "acquire")
  /\ Goto(t, "spin")
  /\ UNCHANGED <<lock, freelist, allocated, cpu, cid, i, r, next>>

\* acquire(&kmem[cid].lock) succeeds.
KallocAcquire(t) ==
  /\ At(t, "spin")
  /\ Acquire(t, cid[t])
  /\ Goto(t, "pop")
  /\ UNCHANGED <<freelist, allocated, cpu, cid, i, r, next>>

KallocPop(t) ==
  /\ At(t, "pop")
  /\ \/ ReadFirst(t, cid[t]) /\ Goto(t, "unlink")
     \/ freelist[cid[t]] = <<>> /\ Goto(t, "steal") /\ UNCHANGED <<r, next>>
  /\ UNCHANGED <<lock, freelist, allocated, cpu, cid, i>>

KallocUnlink(t) ==
  /\ At(t, "unlink")
  /\ Unlink(t, cid[t])
  /\ Goto(t, "release")
  /\ UNCHANGED <<lock, allocated, cpu, cid, i, r>>

\* The head of the for loop: skip cid, or lock list i, or leave at NCPU.
\* Mutant: i is not incremented when cid is skipped.
StealSkipForever(t) == At(t, "steal") /\ i[t] = cid[t] /\ UNCHANGED vars

StealSkip(t) ==
  /\ At(t, "steal")
  /\ i[t] = cid[t]
  /\ i' = [i EXCEPT ![t] = @ + 1]
  /\ UNCHANGED <<lock, freelist, allocated, cpu, pc, cid, r, next>>

StealAcquire(t) ==
  /\ At(t, "steal")
  /\ i[t] \in CPU \ {cid[t]}
  /\ Acquire(t, i[t])
  /\ Goto(t, "stealpop")
  /\ UNCHANGED <<freelist, allocated, cpu, cid, i, r, next>>

\* Mutant: the last list is not looked at.
LastListMinusOne == NCPU - 1

\* i < NCPU
EndOfLists == NCPU

StealEnd(t) ==
  /\ At(t, "steal")
  /\ i[t] = EndOfLists
  /\ i' = [i EXCEPT ![t] = 0]
  /\ Goto(t, "release")
  /\ UNCHANGED <<lock, freelist, allocated, cpu, cid, r, next>>

\* Under kmem[i].lock: read the list; if it is empty release and go on.
StealPop(t) ==
  /\ At(t, "stealpop")
  /\ \/ /\ ReadFirst(t, i[t])
        /\ Goto(t, "stealunlink")
        /\ UNCHANGED <<lock, i>>
     \/ /\ freelist[i[t]] = <<>>
        /\ Release(t, i[t])
        /\ i' = [i EXCEPT ![t] = @ + 1]
        /\ Goto(t, "steal")
        /\ UNCHANGED <<r, next>>
  /\ UNCHANGED <<freelist, allocated, cpu, cid>>

\* Take the page, release kmem[i].lock and break.
StealUnlink(t) ==
  /\ At(t, "stealunlink")
  /\ Unlink(t, i[t])
  /\ Release(t, i[t])
  /\ i' = [i EXCEPT ![t] = 0]
  /\ Goto(t, "release")
  /\ UNCHANGED <<allocated, cpu, cid, r>>

\* release(&kmem[cid].lock)
KallocRelease(t) ==
  /\ At(t, "release")
  /\ Release(t, cid[t])
  /\ Goto(t, "return")
  /\ UNCHANGED <<freelist, allocated, cpu, cid, i, r, next>>

\* if(r) memset(r, 5, PGSIZE); return r;
KallocReturn(t) ==
  /\ At(t, "return")
  /\ allocated' = allocated \cup ({r[t]} \ {Null})
  /\ Return(t)
  /\ UNCHANGED <<lock, freelist, cpu, i>>

\* kfree of a page some kalloc returned: its address passes the check for
\* panic("kfree"); memset and the reading of cid touch nothing shared.
KfreeEnter(t, pa) ==
  /\ At(t, "idle")
  /\ pa \in allocated
  /\ allocated' = allocated \ {pa}
  /\ r' = [r EXCEPT ![t] = pa]
  /\ cid' = [cid EXCEPT ![t] = cpu[t]]
  /\ Goto(t, "facquire")
  /\ UNCHANGED <<lock, freelist, cpu, i, next>>

KfreePushOff(t) ==
  /\ At(t, "facquire")
  /\ Goto(t, "fspin")
  /\ UNCHANGED <<lock, freelist, allocated, cpu, cid, i, r, next>>

KfreeAcquire(t) ==
  /\ At(t, "fspin")
  /\ Acquire(t, cid[t])
  /\ Goto(t, "flink")
  /\ UNCHANGED <<freelist, allocated, cpu, cid, i, r, next>>

\* r->next = kmem[cid].freelist
KfreeLink(t) ==
  /\ At(t, "flink")
  /\ next' = [next EXCEPT ![t] = freelist[cid[t]]]
  /\ Goto(t, "fpush")
  /\ UNCHANGED <<lock, freelist, allocated, cpu, cid, i, r>>

\* kmem[cid].freelist = r; release(&kmem[cid].lock)
KfreePush(t) ==
  /\ At(t, "fpush")
  /\ freelist' = [freelist EXCEPT ![cid[t]] = <<r[t]>> \o next[t]]
  /\ Release(t, cid[t])
  /\ Return(t)
  /\ UNCHANGED <<allocated, cpu, i>>

\* What a thread does once it has called kalloc or kfree.
KallocStep(t) ==
  KallocPushOff(t) \/ KallocAcquire(t) \/ KallocPop(t) \/ KallocUnlink(t)
  \/ StealSkip(t) \/ StealAcquire(t) \/ StealEnd(t)
  \/ StealPop(t) \/ StealUnlink(t)
  \/ KallocRelease(t) \/ KallocReturn(t)

KfreeStep(t) ==
  KfreePushOff(t) \/ KfreeAcquire(t) \/ KfreeLink(t) \/ KfreePush(t)

Next ==
  \E t \in Thread :
    \/ KallocEnter(t)
    \/ KallocStep(t)
    \/ \E pa \in Page : KfreeEnter(t, pa)
    \/ KfreeStep(t)
    \/ Preempt(t)
    \/ \E c \in CPU : Dispatch(t, c)

Spec == Init /\ [][Next]_vars

\* A thread that runs executes its instructions, the scheduler gives a waiting
\* thread an idle CPU, and a lock that keeps being released is won.
Fairness ==
  \A t \in Thread : /\ SF_vars(KallocStep(t) \/ KfreeStep(t))
                    /\ WF_vars(\E c \in CPU : Dispatch(t, c))

FairSpec == Spec /\ Fairness

-----------------------------------------------------------------------------
ListPages == UNION {Range(freelist[c]) : c \in CPU}

\* Pages that are neither on a list nor with a caller: unlinked by a kalloc
\* that has not returned, or passed to a kfree that has not pushed it.
InHand(t) == r[t] # Null /\ pc[t] \notin {"unlink", "stealunlink"}

\* No page is in two places: twice on a list, on two lists, on a list and
\* with a caller of kalloc, or in the hands of two threads.  Otherwise two
\* kallocs would return the same page, or the memset of one would overwrite
\* the r->next of a page still on a list (kalloc.c:55, 81-83, 91-94, 106).
PageInOnePlace ==
  /\ \A c \in CPU : IsInjective(freelist[c])
  /\ \A c, d \in CPU :
       c # d => Range(freelist[c]) \cap Range(freelist[d]) = {}
  /\ ListPages \cap allocated = {}
  /\ \A t \in Thread : InHand(t) =>
       /\ r[t] \notin ListPages \cup allocated
       /\ \A u \in Thread \ {t} : InHand(u) => r[u] # r[t]

\* No page is lost however threads migrate and steal: each is on a list,
\* with a caller, or in the hands of a thread inside kalloc or kfree (what
\* user/kalloctest.c test2 calls "losing pages").
NoPageLost ==
  Page = ListPages \cup allocated \cup {r[t] : t \in {u \in Thread : InHand(u)}}

\* Pages are kept: each is in exactly one of these places (kalloc.c:47-108).
PagesKept == PageInOnePlace /\ NoPageLost

\* The list of the thread's own CPU, seen empty at kalloc.c:81, is still
\* empty at every later step of the search: kfree cannot push on it, even
\* from a thread whose cid is stale.
OwnListEmptyWhileStealing ==
  \A t \in Thread :
    pc[t] \in StealPC => freelist[cid[t]] = <<>>

\* The code between acquire and release of kmem[c].lock.
Inside(t, c) == \/ c = cid[t] /\ pc[t] \in HoldOwnPC
                \/ c = i[t] /\ pc[t] \in HoldOtherPC

\* Every path gives back the locks it took, each thread holds only the two
\* locks its place in the code says, and no holder is ever off its CPU.
LocksMatchCode ==
  \A t \in Thread, c \in CPU :
    (lock[c] = t <=> Inside(t, c)) /\ (lock[c] = t => cpu[t] # Off)

\* Every call of kalloc returns, with a page or with 0 (kalloc.c:69-71).
KallocReturns ==
  \A t \in Thread : (pc[t] \in KallocPC) ~> (pc[t] = "idle")

PA == INSTANCE PageAllocator
        WITH free <- ListPages, held <- Page \ ListPages

\* kalloc and kfree act as one atomic step on the set of free pages each: the
\* pop and the push under a list's lock.
RefinesPageAllocator == PA!Spec
=============================================================================
