--------------------------- MODULE ProcSlotProofs ---------------------------
(***************************************************************************)
(* The inductive invariant of the process table, and that the steps by     *)
(* which a thread works on the slots while it stays on its CPU keep it:    *)
(* fork, kill, wait's scan, reparent and wakeup.                           *)
(***************************************************************************)
EXTENDS Proc, TLAPS

\* Where a thread is but for the interrupt that made it yield or the sleep it is in.
Place(p) == IF pc[p] \in {"sched", "resume"} THEN ret[p] ELSE pc[p]

OwnPC == {"sched", "resume", "zombie", "sleep"}
WaitPC == {"reparent", "wakeinit", "wakeparent", "zlock", "zombie", "scan", "sleeplock", "sleep"}
ExitPC == {"exit", "exitlock", "reparent", "wakeinit", "wakeparent", "zlock", "zombie"}
ForkPC == {"setparent", "parentlock", "runnable"}
FirstPC == {"user", "wait", "waitlock", "exit", "exitlock", "wakeparent", "zlock", "zombie",
            "sleeplock", "sleep"}

\* A thread that runs or is inside the kernel is on one CPU, and whoever is on a CPU
\* is RUNNING or about to give it up.
ThreadsOK ==
  /\ \A c, d \in CPU : on[c] # NoProc /\ on[c] = on[d] => c = d
  /\ \A p \in Proc : pc[p] # "resume" \/ state[p] = "RUNNING" => \E c \in CPU : on[c] = p
  /\ \A c \in CPU : \A p \in Proc : on[c] = p => state[p] = "RUNNING" \/ pc[p] = "sched"
  /\ \A p \in Proc : pc[p] = "sched" => state[p] \in {"SLEEPING", "RUNNABLE", "ZOMBIE"}
  /\ \A p \in Proc : pc[p] # "panic"

\* A CPU holds at most one p->lock: that of its thread, on the way to or from the
\* scheduler, or that of the thread its scheduler has come back from.  It holds
\* wait_lock where its thread is inside exit or wait.
LocksOK ==
  /\ \A c \in CPU : \A p \in Proc :
       plock[p] = c => \/ on[c] = p /\ pc[p] \in OwnPC
                       \/ on[c] = NoProc /\ pc[p] = "resume" /\ state[p] # "RUNNING"
  /\ \A c \in CPU : \A p \in Proc : on[c] = p /\ pc[p] \in OwnPC => plock[p] = c
  /\ \A c \in CPU : \A p, q \in Proc : plock[p] = c /\ plock[q] = c => p = q
  /\ \A c \in CPU : \A p \in Proc : on[c] = p /\ pc[p] \in WaitPC => wait_lock = c
  /\ \A c \in CPU : wait_lock = c => \E p \in Proc : on[c] = p /\ pc[p] \in WaitPC

\* The loop variables where no loop is under way, and who may exit.
PlacesOK ==
  /\ \A p \in Proc :
       /\ pc[p] \notin {"sched", "resume"} \/ state[p] \in {"UNUSED", "USED", "ZOMBIE"} => ret[p] = "user"
       /\ Place(p) \in FirstPC => i[p] = 1
       /\ pc[p] \notin {"wakeinit", "wakeparent"} => w[p] = 1
       /\ Place(p) \in ExitPC => p # initproc
  /\ state[initproc] \in {"SLEEPING", "RUNNABLE", "RUNNING"}

\* The child of a fork under way is USED and nobody else's.
ForkOK ==
  \A p \in Proc :
    Place(p) \in ForkPC =>
      /\ i[p] \in Proc /\ state[i[p]] = "USED"
      /\ Place(p) = "runnable" => parent[i[p]] = p
      /\ \A q \in Proc : Place(q) \in ForkPC /\ i[q] = i[p] => q = p

PidsOK == PidsUnique /\ nextpid > 0 /\ \A p \in Proc : pid[p] < nextpid

\* reparent has dealt with the slots before i, and then with all.
FamilyOK ==
  /\ ParentsAlive
  /\ \A p, q \in Proc :
       /\ pc[p] \in {"reparent", "wakeinit"} /\ q < i[p] => parent[q] # p
       /\ pc[p] \in {"wakeparent", "zlock", "zombie"} => parent[q] # p

\* A sleeper has no exited child, but for init while exit is about to wake it up;
\* a scan has passed none, and a wakeup has left no sleeper behind.
WaitOK ==
  /\ \A p \in Proc : state[p] = "SLEEPING" => chan[p] = p
  /\ \A p, q \in Proc :
       parent[q] = p /\ state[q] = "ZOMBIE" =>
         /\ state[p] = "SLEEPING" => p = initproc /\ \E e \in Proc : pc[e] = "wakeinit" /\ w[e] = 1
         /\ pc[p] = "scan" => q >= i[p]
         /\ pc[p] \notin {"sleeplock", "sleep"}
  /\ \A p, q \in Proc :
       parent[q] = p /\ state[p] = "SLEEPING" =>
         /\ pc[q] = "wakeparent" => w[q] =< p
         /\ pc[q] \notin {"zlock", "zombie"}

IInv == TypeOK /\ ThreadsOK /\ LocksOK /\ PlacesOK /\ ForkOK /\ PidsOK /\ FamilyOK /\ WaitOK

-----------------------------------------------------------------------------
\* After userinit the first process is RUNNABLE, and every thread is off the CPUs.
LEMMA InitIInv == Init => IInv
<1> SUFFICES ASSUME Init PROVE IInv
  OBVIOUS
<1> USE ProcAssumption
<1>1. 1 \in Proc /\ NoProc \notin Proc /\ initproc = 1 /\ \A p \in Proc : p \in Nat /\ p >= 1
  BY DEF Proc, NoProc, initproc
<1>2. TypeOK
  <2>1. /\ state \in [Proc -> {"UNUSED", "USED", "SLEEPING", "RUNNABLE", "RUNNING", "ZOMBIE"}]
        /\ parent \in [Proc -> Proc \cup {NoProc}] /\ pid \in [Proc -> Nat] /\ chan \in [Proc -> Proc \cup {NoProc}]
    BY Zenon DEF Init
  <2>2. /\ plock \in [Proc -> CPU \cup {NoCPU}] /\ wait_lock \in CPU \cup {NoCPU}
        /\ nextpid \in Nat /\ on \in [CPU -> Proc \cup {NoProc}]
    BY Zenon DEF Init
  <2>3. pc \in [Proc -> PC] /\ ret \in [Proc -> NoLockPC]
    BY Zenon DEF Init, PC, NoLockPC
  <2>4. i \in [Proc -> Proc \cup {NPROC + 1}] /\ w \in [Proc -> Proc \cup {NPROC + 1}] /\ n \in [Proc -> Nat]
    BY <1>1, Zenon DEF Init
  <2>5. killed \in [Proc -> BOOLEAN] /\ havekids \in [Proc -> BOOLEAN]
    BY Zenon DEF Init
  <2> QED BY <2>1, <2>2, <2>3, <2>4, <2>5, Zenon DEF TypeOK
<1>3. ThreadsOK /\ LocksOK
  BY <1>1, Zenon DEF Init, ThreadsOK, LocksOK, WaitPC
<1>4. PlacesOK /\ ForkOK
  BY <1>1, Zenon DEF Init, PlacesOK, ForkOK, Place, ExitPC, ForkPC
<1>5. PidsOK
  BY <1>1 DEF Init, PidsOK, PidsUnique
<1>6. FamilyOK /\ WaitOK
  BY <1>1, Zenon DEF Init, FamilyOK, ParentsAlive, WaitOK
<1> QED BY <1>2, <1>3, <1>4, <1>5, <1>6, Zenon DEF IInv

Moved(p, l) == \A q \in Proc : pc'[q] = IF q = p THEN l ELSE pc[q]

\* What holds of a thread that is on a CPU and not on its way through sched.
LEMMA OnCpu ==
  ASSUME IInv, NEW c \in CPU, NEW p \in Proc, on[c] = p
  PROVE  /\ \A d \in CPU : on[d] = p => d = c
         /\ pc[p] # "sched" => state[p] = "RUNNING"
         /\ pc[p] \in WaitPC => wait_lock = c /\ \A q \in Proc : pc[q] \in WaitPC => q = p
         /\ pc[p] \notin OwnPC => plock[p] \notin CPU
         /\ p # NoProc
<1> USE DEF IInv
<1>1. p # NoProc
  BY DEF Proc, NoProc
<1>2. \A d \in CPU : on[d] = p => d = c
  BY <1>1, Zenon DEF ThreadsOK
<1>3. pc[p] # "sched" => state[p] = "RUNNING"
  BY Zenon DEF ThreadsOK
<1>4. ASSUME pc[p] \in WaitPC PROVE wait_lock = c /\ \A q \in Proc : pc[q] \in WaitPC => q = p
  <2>1. wait_lock = c
    BY <1>4, Zenon DEF LocksOK
  <2>2. ASSUME NEW q \in Proc, pc[q] \in WaitPC PROVE q = p
    <3>1. PICK d \in CPU : on[d] = q
      BY <2>2, Zenon DEF ThreadsOK, WaitPC
    <3>2. wait_lock = d
      BY <2>2, <3>1, Zenon DEF LocksOK
    <3> QED BY <2>1, <3>1, <3>2, Zenon
  <2> QED BY <2>1, <2>2, Zenon
<1>5. ASSUME pc[p] \notin OwnPC PROVE plock[p] \notin CPU
  <2> SUFFICES ASSUME NEW d \in CPU, plock[p] = d PROVE FALSE
    OBVIOUS
  <2>1. on[d] = NoProc /\ pc[p] = "resume"
    BY <1>5, Zenon DEF LocksOK
  <2> QED BY <1>5, <2>1, Zenon DEF OwnPC
<1> QED BY <1>1, <1>2, <1>3, <1>4, <1>5, Zenon

\* A thread goes on inside the kernel, takes wait_lock or releases it; other slots
\* change only while their threads are off the CPUs.
LEMMA InKernel ==
  ASSUME IInv, NEW c \in CPU, NEW p \in Proc, on[c] = p, NEW l,
         pc[p] \notin OwnPC \cup {"panic"}, l \notin OwnPC \cup {"panic"}, Moved(p, l),
         UNCHANGED <<plock, on>>,
         \A q \in Proc : state'[q] = state[q] \/ (state[q] # "RUNNING" /\ state'[q] # "RUNNING" /\ pc[q] # "sched"),
         \/ wait_lock' = wait_lock /\ (l \in WaitPC <=> pc[p] \in WaitPC)
         \/ wait_lock = NoCPU /\ wait_lock' = c /\ pc[p] \notin WaitPC /\ l \in WaitPC
         \/ wait_lock' = NoCPU /\ pc[p] \in WaitPC /\ l \notin WaitPC
  PROVE  ThreadsOK' /\ LocksOK'
<1> USE DEF IInv
<1>1. \A q \in Proc : pc'[q] = IF q = p THEN l ELSE pc[q]
  BY Zenon DEF Moved
<1>2. state[p] = "RUNNING" /\ state'[p] = "RUNNING" /\ p # NoProc /\ \A d \in CPU : on[d] = p => d = c
  BY OnCpu DEF OwnPC
<1>3. ThreadsOK'
  <2>1. \A q \in Proc : pc'[q] # "resume" \/ state'[q] = "RUNNING" => \E d \in CPU : on'[d] = q
    BY <1>1, <1>2 DEF ThreadsOK
  <2>2. \A d \in CPU : \A q \in Proc : on'[d] = q => state'[q] = "RUNNING" \/ pc'[q] = "sched"
    BY <1>1, <1>2 DEF ThreadsOK
  <2>3. \A q \in Proc : pc'[q] = "sched" => state'[q] \in {"SLEEPING", "RUNNABLE", "ZOMBIE"}
    BY <1>1, Zenon DEF ThreadsOK, OwnPC
  <2> QED BY <1>1, <2>1, <2>2, <2>3 DEF ThreadsOK
<1>4. \A d \in CPU : \A q \in Proc :
        plock'[q] = d => \/ on'[d] = q /\ pc'[q] \in OwnPC
                         \/ on'[d] = NoProc /\ pc'[q] = "resume" /\ state'[q] # "RUNNING"
  <2> SUFFICES ASSUME NEW d \in CPU, NEW q \in Proc, plock[q] = d
               PROVE  \/ on[d] = q /\ pc'[q] \in OwnPC
                      \/ on[d] = NoProc /\ pc'[q] = "resume" /\ state'[q] # "RUNNING"
    OBVIOUS
  <2>1. \/ on[d] = q /\ pc[q] \in OwnPC
        \/ on[d] = NoProc /\ pc[q] = "resume" /\ state[q] # "RUNNING"
    BY Zenon DEF LocksOK
  <2>2. q # p
    BY <2>1, Zenon DEF OwnPC
  <2> QED BY <1>1, <2>1, <2>2, Zenon
<1>5. \A d \in CPU : \A q \in Proc : on'[d] = q /\ pc'[q] \in OwnPC => plock'[q] = d
  BY <1>1 DEF LocksOK
<1>6. \A d \in CPU : \A q \in Proc : on'[d] = q /\ pc'[q] \in WaitPC => wait_lock' = d
  <2> SUFFICES ASSUME NEW d \in CPU, NEW q \in Proc, on[d] = q, pc'[q] \in WaitPC PROVE wait_lock' = d
    OBVIOUS
  <2>1. CASE q = p
    <3>1. d = c /\ l \in WaitPC
      BY <1>1, <1>2, <2>1, Zenon
    <3> QED BY <3>1, Zenon DEF LocksOK
  <2>2. CASE q # p
    <3>1. pc[q] \in WaitPC /\ wait_lock = d /\ d # c
      BY <1>1, <2>2, Zenon DEF LocksOK
    <3>2. pc[p] \notin WaitPC
      BY <3>1, Zenon DEF LocksOK
    <3> QED BY <3>1, <3>2, ProcAssumption, Zenon
  <2> QED BY <2>1, <2>2, Zenon
<1>7. \A d \in CPU : wait_lock' = d => \E q \in Proc : on'[d] = q /\ pc'[q] \in WaitPC
  <2> SUFFICES ASSUME NEW d \in CPU, wait_lock' = d PROVE \E q \in Proc : on[d] = q /\ pc'[q] \in WaitPC
    OBVIOUS
  <2>1. CASE wait_lock' = wait_lock /\ (l \in WaitPC <=> pc[p] \in WaitPC)
    BY <1>1, <2>1 DEF LocksOK
  <2>2. CASE wait_lock' = c /\ l \in WaitPC
    BY <1>1, <2>2, Zenon
  <2> QED BY <2>1, <2>2, ProcAssumption, Zenon
<1> QED BY <1>3, <1>4, <1>5, <1>6, <1>7 DEF LocksOK

\* A thread goes on inside the kernel and no slot changes.  What the invariant says
\* of the place it comes to is a condition.
LEMMA KernelMove ==
  ASSUME IInv, TypeOK', NEW c \in CPU, NEW p \in Proc, on[c] = p, NEW l,
         pc[p] \notin OwnPC \cup {"panic"}, l \notin OwnPC \cup {"panic"}, Moved(p, l),
         UNCHANGED <<state, parent, pid, chan, nextpid, on, plock, ret>>,
         \A q \in Proc : q # p => i'[q] = i[q] /\ w'[q] = w[q],
         \/ wait_lock' = wait_lock /\ (l \in WaitPC <=> pc[p] \in WaitPC)
         \/ wait_lock = NoCPU /\ wait_lock' = c /\ pc[p] \notin WaitPC /\ l \in WaitPC
         \/ wait_lock' = NoCPU /\ pc[p] \in WaitPC /\ l \notin WaitPC,
         l \in FirstPC => i'[p] = 1,
         l \notin {"wakeinit", "wakeparent"} => w'[p] = 1,
         l \in ExitPC => p # initproc,
         l \in ForkPC => pc[p] \in ForkPC /\ i'[p] = i[p] /\ (l = "runnable" => pc[p] = "runnable"),
         \A q \in Proc : /\ l \in {"reparent", "wakeinit"} /\ q < i'[p] => parent[q] # p
                         /\ l \in {"wakeparent", "zlock", "zombie"} => parent[q] # p,
         pc[p] = "wakeinit" => w[p] # 1,
         \A q \in Proc : parent[q] = p /\ state[q] = "ZOMBIE" => (l = "scan" => q >= i'[p]) /\ l \notin {"sleeplock", "sleep"},
         parent[p] \in Proc /\ state[parent[p]] = "SLEEPING" =>
           (l = "wakeparent" => w'[p] =< parent[p]) /\ l \notin {"zlock", "zombie"}
  PROVE  IInv'
<1> USE DEF IInv
<1>1. \A q \in Proc : pc'[q] = IF q = p THEN l ELSE pc[q]
  BY Zenon DEF Moved
<1>2. ThreadsOK' /\ LocksOK'
  BY InKernel, Zenon
<1>3. ret[p] = "user" /\ Place(p) = pc[p] /\ Place(p)' = l /\ \A q \in Proc : q # p => Place(q)' = Place(q)
  BY <1>1 DEF Place, PlacesOK, OwnPC
<1>4. state[p] = "RUNNING"
  BY OnCpu, Zenon DEF OwnPC
<1>5. PlacesOK'
  <2> SUFFICES ASSUME NEW q \in Proc
               PROVE  /\ pc'[q] \notin {"sched", "resume"} \/ state'[q] \in {"UNUSED", "USED", "ZOMBIE"} => ret'[q] = "user"
                      /\ Place(q)' \in FirstPC => i'[q] = 1
                      /\ pc'[q] \notin {"wakeinit", "wakeparent"} => w'[q] = 1
                      /\ Place(q)' \in ExitPC => q # initproc
    BY Zenon DEF PlacesOK
  <2>1. CASE q = p
    BY <1>1, <1>3, <2>1, Zenon
  <2>2. CASE q # p
    BY <1>1, <1>3, <2>2 DEF PlacesOK
  <2> QED BY <2>1, <2>2, Zenon
<1>6. ForkOK'
  <2>1. \A q \in Proc : Place(q)' \in ForkPC => /\ Place(q) \in ForkPC /\ i'[q] = i[q]
                                                /\ Place(q)' = "runnable" => Place(q) = "runnable"
    BY <1>3, Zenon
  <2> QED BY <2>1 DEF ForkOK
<1>7. PidsOK'
  BY Zenon DEF PidsOK, PidsUnique
<1>8. FamilyOK'
  <2>1. ParentsAlive'
    BY Zenon DEF FamilyOK, ParentsAlive
  <2> QED BY <1>1, <2>1 DEF FamilyOK
<1>9. WaitOK'
  <2>1. \A q \in Proc : state'[q] = "SLEEPING" => chan'[q] = q
    BY Zenon DEF WaitOK
  <2>2. ASSUME NEW q \in Proc, NEW r \in Proc, parent[r] = q, state[r] = "ZOMBIE"
        PROVE  /\ state[q] = "SLEEPING" => q = initproc /\ \E e \in Proc : pc'[e] = "wakeinit" /\ w'[e] = 1
               /\ pc'[q] = "scan" => r >= i'[q]
               /\ pc'[q] \notin {"sleeplock", "sleep"}
    <3>1. ASSUME state[q] = "SLEEPING" PROVE q = initproc /\ \E e \in Proc : pc'[e] = "wakeinit" /\ w'[e] = 1
      <4>1. q = initproc /\ \E e \in Proc : pc[e] = "wakeinit" /\ w[e] = 1
        BY <2>2, <3>1, Zenon DEF WaitOK
      <4>2. PICK e \in Proc : pc[e] = "wakeinit" /\ w[e] = 1
        BY <4>1, Zenon
      <4> QED BY <1>1, <4>1, <4>2
    <3>2. (pc'[q] = "scan" => r >= i'[q]) /\ pc'[q] \notin {"sleeplock", "sleep"}
      BY <1>1, <2>2 DEF WaitOK
    <3> QED BY <3>1, <3>2, Zenon
  <2>3. ASSUME NEW q \in Proc, NEW r \in Proc, parent[r] = q, state[q] = "SLEEPING"
        PROVE  (pc'[r] = "wakeparent" => w'[r] =< q) /\ pc'[r] \notin {"zlock", "zombie"}
    BY <1>1, <2>3 DEF WaitOK
  <2> QED BY <2>1, <2>2, <2>3 DEF WaitOK
<1> QED BY <1>2, <1>5, <1>6, <1>7, <1>8, <1>9, Zenon

\* A step that brings nobody into fork keeps what is said of the forks under way, if
\* their children stay USED and theirs.
LEMMA ForkFrame ==
  ASSUME ForkOK,
         \A q \in Proc : Place(q)' \in ForkPC => Place(q)' = Place(q) /\ i'[q] = i[q],
         \A q \in Proc : Place(q)' \in ForkPC /\ i[q] \in Proc /\ state[i[q]] = "USED" =>
           state'[i[q]] = "USED",
         \A q \in Proc : Place(q)' = "runnable" /\ i[q] \in Proc /\ parent[i[q]] = q =>
           parent'[i[q]] = q
  PROVE  ForkOK'
<1>1. "runnable" \in ForkPC
  BY Zenon DEF ForkPC
<1>2. \A q \in Proc : Place(q)' \in ForkPC =>
        /\ i[q] \in Proc /\ state[i[q]] = "USED"
        /\ Place(q) = "runnable" => parent[i[q]] = q
  BY Zenon DEF ForkOK
<1>3. \A q, r \in Proc : Place(q) \in ForkPC /\ Place(r) \in ForkPC /\ i[q] = i[r] => q = r
  BY Zenon DEF ForkOK
<1>4. \A q, r \in Proc : Place(q)' \in ForkPC /\ Place(r)' \in ForkPC /\ i'[q] = i'[r] => q = r
  BY <1>3, Zenon
<1>5. \A q \in Proc : Place(q)' \in ForkPC =>
        /\ i'[q] \in Proc /\ state'[i'[q]] = "USED"
        /\ Place(q)' = "runnable" => parent'[i'[q]] = q
  BY <1>1, <1>2, Zenon
<1> QED BY <1>4, <1>5, Zenon DEF ForkOK

-----------------------------------------------------------------------------
\* The types of a thread's place and loop variables after the moves of the kernel.
LEMMA MovedByGoto ==
  ASSUME TypeOK, NEW p \in Proc, NEW l \in PC, Goto(p, l)
  PROVE  Moved(p, l) /\ pc' \in [Proc -> PC]
BY Zenon DEF TypeOK, Moved, Goto

\* push_off in acquire(&wait_lock).
LEMMA PushOffIInv ==
  ASSUME IInv, NEW c \in CPU, NEW p \in Proc, PushOff(c, p)
  PROVE  IInv'
<1> USE DEF IInv
<1> DEFINE l == Spinning[pc[p]]
<1>1. /\ on[c] = p /\ Goto(p, l)
      /\ \/ pc[p] = "setparent" /\ l = "parentlock"
         \/ pc[p] = "exit" /\ l = "exitlock"
         \/ pc[p] = "wait" /\ l = "waitlock"
      /\ UNCHANGED <<state, parent, pid, killed, chan, nextpid, plock, wait_lock, on, ret, i, w, havekids, n>>
  BY DEF PushOff, Spinning, slotvars, locals
<1> HIDE DEF l
<1>2. l \in PC /\ Moved(p, l) /\ pc' \in [Proc -> PC]
  BY <1>1, MovedByGoto, Zenon DEF PC
<1>3. TypeOK'
  BY <1>1, <1>2, Zenon DEF TypeOK
<1>4. Place(p) = pc[p]
  BY <1>1, Zenon DEF Place
<1>5. /\ l \in FirstPC => i[p] = 1
      /\ w[p] = 1
      /\ l \in ExitPC => p # initproc
  BY <1>1, <1>4, Zenon DEF PlacesOK, FirstPC, ExitPC
<1>6. pc[p] \notin OwnPC \cup {"panic"} \cup WaitPC /\ l \notin OwnPC \cup {"panic"} \cup WaitPC
  BY <1>1, Zenon DEF OwnPC, WaitPC
<1>7. l \in ForkPC => pc[p] \in ForkPC /\ l # "runnable"
  BY <1>1, Zenon DEF ForkPC
<1>8. l \notin {"reparent", "wakeinit", "wakeparent", "zlock", "zombie", "scan", "sleeplock", "sleep"} /\ pc[p] # "wakeinit"
  BY <1>1, Zenon
<1> QED BY <1>1, <1>2, <1>3, <1>5, <1>6, <1>7, <1>8, KernelMove, Zenon

\* A step of a loop over proc[], and its end.
LEMMA LoopVar ==
  ASSUME TypeOK, NEW p \in Proc
  PROVE  /\ Advance(p) /\ i[p] \in Proc => /\ i' \in [Proc -> Proc \cup {NPROC + 1}] /\ i'[p] = i[p] + 1
                                           /\ \A q \in Proc : q # p => i'[q] = i[q]
         /\ Restart(p) => /\ i' \in [Proc -> Proc \cup {NPROC + 1}] /\ i'[p] = 1
                          /\ \A q \in Proc : q # p => i'[q] = i[q]
<1>1. NPROC \in Nat /\ 1 \in Proc /\ \A q \in Proc : q + 1 \in Proc \cup {NPROC + 1}
  BY ProcAssumption DEF Proc
<1>2. i \in [Proc -> Proc \cup {NPROC + 1}]
  BY Zenon DEF TypeOK
<1>3. ASSUME Advance(p), i[p] \in Proc
      PROVE  /\ i' \in [Proc -> Proc \cup {NPROC + 1}] /\ i'[p] = i[p] + 1
             /\ \A q \in Proc : q # p => i'[q] = i[q]
  BY <1>1, <1>2, <1>3, Zenon DEF Advance
<1>4. ASSUME Restart(p)
      PROVE  /\ i' \in [Proc -> Proc \cup {NPROC + 1}] /\ i'[p] = 1
             /\ \A q \in Proc : q # p => i'[q] = i[q]
  BY <1>1, <1>2, <1>4, Zenon DEF Restart
<1> QED BY <1>3, <1>4, Zenon

\* The system calls start: fork, wait, exit and kill.
LEMMA CallIInv ==
  ASSUME IInv, NEW c \in CPU, NEW p \in Proc, NEW l \in {"alloc", "wait", "exit", "kill"},
         on[c] = p, pc[p] = "user", Goto(p, l), l = "exit" => p # initproc,
         UNCHANGED <<slotvars, plock, wait_lock, nextpid, on, ret, i, w, havekids>>,
         n' \in [Proc -> Nat]
  PROVE  IInv'
<1> USE DEF IInv
<1>1. UNCHANGED <<state, parent, pid, killed, chan, nextpid, plock, wait_lock, on, ret, i, w, havekids>>
  BY Zenon DEF slotvars
<1>2. l \in PC /\ Moved(p, l) /\ pc' \in [Proc -> PC]
  BY MovedByGoto, Zenon DEF PC, NoLockPC
<1>3. TypeOK'
  BY <1>1, <1>2, Zenon DEF TypeOK
<1>4. i[p] = 1 /\ w[p] = 1
  BY Zenon DEF Place, PlacesOK, FirstPC
<1>5. pc[p] \notin OwnPC \cup {"panic"} \cup WaitPC /\ l \notin OwnPC \cup {"panic"} \cup WaitPC
  BY Zenon DEF OwnPC, WaitPC
<1>6. l \notin ForkPC /\ (l \in ExitPC => p # initproc)
  BY Zenon DEF ForkPC, ExitPC
<1>7. l \notin {"reparent", "wakeinit", "wakeparent", "zlock", "zombie", "scan", "sleeplock", "sleep"} /\ pc[p] # "wakeinit"
  OBVIOUS
<1> QED BY <1>1, <1>2, <1>3, <1>4, <1>5, <1>6, <1>7, KernelMove, Zenon

\* The loops of allocproc and kill: a slot that is passed over, and the end.
LEMMA LoopIInv ==
  ASSUME IInv, NEW c \in CPU, NEW p \in Proc, AllocNext(c, p) \/ KillNext(c, p)
  PROVE  IInv'
<1> USE DEF IInv
<1>1. PICK l \in {"alloc", "kill", "user"} :
        /\ on[c] = p /\ pc[p] \in {"alloc", "kill"}
        /\ pc' = [pc EXCEPT ![p] = l]
        /\ \/ Restart(p)
           \/ l # "user" /\ i[p] \in Proc /\ Advance(p)
        /\ n' = n \/ n' = [n EXCEPT ![p] = 0]
        /\ UNCHANGED <<state, parent, pid, killed, chan, nextpid, plock, wait_lock, on, ret, w, havekids>>
  <2>1. pc = [pc EXCEPT ![p] = pc[p]]
    BY Zenon DEF TypeOK
  <2>2. CASE AllocNext(c, p)
    BY <2>1, <2>2, Zenon DEF AllocNext, At, Goto, slotvars
  <2>3. CASE KillNext(c, p)
    BY <2>1, <2>3, Zenon DEF KillNext, KillReturn, At, Goto, slotvars
  <2> QED BY <2>2, <2>3, Zenon
<1>2. l \in PC /\ Moved(p, l) /\ pc' \in [Proc -> PC]
  BY <1>1, MovedByGoto, Zenon DEF PC, NoLockPC, Goto
<1>3. /\ i' \in [Proc -> Proc \cup {NPROC + 1}] /\ (l = "user" => i'[p] = 1)
      /\ \A q \in Proc : q # p => i'[q] = i[q]
  BY <1>1, LoopVar, Zenon
<1>4. n' \in [Proc -> Nat]
  BY <1>1 DEF TypeOK
<1>5. TypeOK'
  BY <1>1, <1>2, <1>3, <1>4, Zenon DEF TypeOK
<1>6. w[p] = 1
  BY <1>1, Zenon DEF PlacesOK
<1>7. pc[p] \notin OwnPC \cup {"panic"} \cup WaitPC /\ l \notin OwnPC \cup {"panic"} \cup WaitPC
  BY <1>1, Zenon DEF OwnPC, WaitPC
<1>8. l \notin ForkPC \cup ExitPC /\ (l \in FirstPC => i'[p] = 1)
  BY <1>3, Zenon DEF ForkPC, ExitPC, FirstPC
<1>9. l \notin {"reparent", "wakeinit", "wakeparent", "zlock", "zombie", "scan", "sleeplock", "sleep"} /\ pc[p] # "wakeinit"
  BY <1>1, Zenon
<1> QED BY <1>1, <1>2, <1>3, <1>5, <1>6, <1>7, <1>8, <1>9, KernelMove

\* exit and wait take wait_lock.
LEMMA AcquireIInv ==
  ASSUME IInv, NEW c \in CPU, NEW p \in Proc, ExitAcquire(c, p) \/ WaitAcquire(c, p)
  PROVE  IInv'
<1> USE DEF IInv
<1>1. PICK l \in {"reparent", "scan"} :
        /\ on[c] = p /\ Goto(p, l) /\ wait_lock = NoCPU /\ wait_lock' = c
        /\ pc[p] = IF l = "reparent" THEN "exitlock" ELSE "waitlock"
        /\ UNCHANGED <<state, parent, pid, killed, chan, nextpid, plock, on, ret, i, w, havekids, n>>
  BY Zenon DEF ExitAcquire, WaitAcquire, At, slotvars, locals
<1>2. l \in PC /\ Moved(p, l) /\ pc' \in [Proc -> PC]
  BY <1>1, MovedByGoto, Zenon DEF PC
<1>3. TypeOK'
  BY <1>1, <1>2, Zenon DEF TypeOK
<1>4. i[p] = 1 /\ w[p] = 1 /\ (l = "reparent" => p # initproc)
  BY <1>1, Zenon DEF Place, PlacesOK, FirstPC, ExitPC
<1>5. pc[p] \notin OwnPC \cup {"panic"} \cup WaitPC /\ l \notin OwnPC \cup {"panic"} /\ l \in WaitPC
  BY <1>1, Zenon DEF OwnPC, WaitPC
<1>6. l \notin ForkPC /\ (l \in ExitPC => p # initproc)
  BY <1>4, Zenon DEF ForkPC, ExitPC
<1>7. \A q \in Proc : q >= i[p] /\ ~ (q < i[p])
  BY <1>4, ProcAssumption DEF Proc
<1>8. l \notin {"wakeinit", "wakeparent", "zlock", "zombie", "sleeplock", "sleep"} /\ pc[p] # "wakeinit"
  BY <1>1, Zenon
<1> QED BY <1>1, <1>2, <1>3, <1>4, <1>5, <1>6, <1>7, <1>8, KernelMove, Zenon

\* wait scans the table: a slot that is no exited child of the caller.
LEMMA ScanNextIInv ==
  ASSUME IInv, NEW c \in CPU, NEW p \in Proc, ScanNext(c, p)
  PROVE  IInv'
<1> USE DEF IInv
<1>1. /\ on[c] = p /\ pc[p] = "scan" /\ i[p] \in Proc /\ Advance(p)
      /\ parent[i[p]] = p => state[i[p]] # "ZOMBIE"
      /\ havekids' = [havekids EXCEPT ![p] = TRUE] \/ havekids' = havekids
      /\ UNCHANGED <<state, parent, pid, killed, chan, nextpid, plock, wait_lock, on, pc, ret, w, n>>
  BY Zenon DEF ScanNext, At, slotvars
<1>2. Moved(p, "scan")
  BY <1>1, Zenon DEF Moved
<1>3. /\ i' \in [Proc -> Proc \cup {NPROC + 1}] /\ i'[p] = i[p] + 1
      /\ \A q \in Proc : q # p => i'[q] = i[q]
  BY <1>1, LoopVar, Zenon
<1>4. havekids' \in [Proc -> BOOLEAN]
  <2>1. havekids \in [Proc -> BOOLEAN]
    BY Zenon DEF TypeOK
  <2> QED BY <1>1, <2>1, Zenon
<1>5. TypeOK'
  BY <1>1, <1>3, <1>4, Zenon DEF TypeOK
<1>6. w[p] = 1
  BY <1>1, Zenon DEF PlacesOK
<1>7. "scan" \in WaitPC /\ "scan" \notin OwnPC \cup {"panic"} \cup ForkPC \cup ExitPC \cup FirstPC
  BY Zenon DEF WaitPC, OwnPC, ForkPC, ExitPC, FirstPC
<1>8. \A q \in Proc : parent[q] = p /\ state[q] = "ZOMBIE" => q >= i'[p]
  <2> SUFFICES ASSUME NEW q \in Proc, parent[q] = p, state[q] = "ZOMBIE" PROVE q >= i'[p]
    OBVIOUS
  <2>1. q >= i[p] /\ q # i[p]
    BY <1>1, Zenon DEF WaitOK
  <2> QED BY <1>1, <1>3, <2>1, ProcAssumption DEF Proc
<1> QED BY <1>1, <1>2, <1>3, <1>5, <1>6, <1>7, <1>8, KernelMove

\* wait returns, with wait_lock released.
LEMMA WaitReturnIInv ==
  ASSUME IInv, NEW c \in CPU, NEW p \in Proc, on[c] = p, pc[p] = "scan", WaitReturn(p),
         UNCHANGED <<slotvars, plock, nextpid, on, ret, w, n>>
  PROVE  IInv'
<1> USE DEF IInv
<1>1. /\ wait_lock' = NoCPU /\ Restart(p) /\ Goto(p, "user") /\ havekids' = [havekids EXCEPT ![p] = FALSE]
      /\ UNCHANGED <<state, parent, pid, killed, chan, nextpid, plock, on, ret, w, n>>
  BY Zenon DEF WaitReturn, slotvars
<1>2. Moved(p, "user") /\ pc' \in [Proc -> PC]
  BY <1>1, MovedByGoto, Zenon DEF PC, NoLockPC
<1>3. i' \in [Proc -> Proc \cup {NPROC + 1}] /\ i'[p] = 1 /\ \A q \in Proc : q # p => i'[q] = i[q]
  BY <1>1, LoopVar, Zenon
<1>4. havekids' \in [Proc -> BOOLEAN]
  <2>1. havekids \in [Proc -> BOOLEAN]
    BY Zenon DEF TypeOK
  <2> QED BY <1>1, <2>1, Zenon
<1>5. TypeOK'
  BY <1>1, <1>2, <1>3, <1>4, Zenon DEF TypeOK
<1>6. w[p] = 1
  BY Zenon DEF PlacesOK
<1>7. /\ "scan" \in WaitPC /\ "scan" \notin OwnPC \cup {"panic"}
      /\ "user" \notin OwnPC \cup {"panic"} \cup WaitPC \cup ForkPC \cup ExitPC
  BY Zenon DEF WaitPC, OwnPC, ForkPC, ExitPC
<1> QED BY <1>1, <1>2, <1>3, <1>5, <1>6, <1>7, KernelMove

\* The scan has found no exited child: wait gives up, or goes to sleep.
LEMMA ScanEndIInv ==
  ASSUME IInv, NEW c \in CPU, NEW p \in Proc, ScanEnd(c, p)
  PROVE  IInv'
<1> USE DEF IInv
<1>1. CASE WaitReturn(p)
  BY <1>1, WaitReturnIInv, Zenon DEF ScanEnd, At
<1>2. CASE ~ WaitReturn(p)
  <2>1. /\ on[c] = p /\ pc[p] = "scan" /\ i[p] > NPROC /\ Restart(p) /\ Goto(p, "sleeplock")
        /\ havekids' = [havekids EXCEPT ![p] = FALSE]
        /\ UNCHANGED <<state, parent, pid, killed, chan, nextpid, plock, wait_lock, on, ret, w, n>>
    BY <1>2, Zenon DEF ScanEnd, At, slotvars
  <2>2. Moved(p, "sleeplock") /\ pc' \in [Proc -> PC]
    BY <2>1, MovedByGoto, Zenon DEF PC, NoLockPC
  <2>3. i' \in [Proc -> Proc \cup {NPROC + 1}] /\ i'[p] = 1 /\ \A q \in Proc : q # p => i'[q] = i[q]
    BY <2>1, LoopVar, Zenon
  <2>4. havekids' \in [Proc -> BOOLEAN]
    <3>1. havekids \in [Proc -> BOOLEAN]
      BY Zenon DEF TypeOK
    <3> QED BY <2>1, <3>1, Zenon
  <2>5. TypeOK'
    BY <2>1, <2>2, <2>3, <2>4, Zenon DEF TypeOK
  <2>6. w[p] = 1
    BY <2>1, Zenon DEF PlacesOK
  <2>7. /\ "scan" \in WaitPC /\ "scan" \notin OwnPC \cup {"panic"}
        /\ "sleeplock" \in WaitPC /\ "sleeplock" \notin OwnPC \cup {"panic"} \cup ForkPC \cup ExitPC
    BY Zenon DEF WaitPC, OwnPC, ForkPC, ExitPC
  <2>8. \A q \in Proc : ~ (parent[q] = p /\ state[q] = "ZOMBIE")
    <3> SUFFICES ASSUME NEW q \in Proc, parent[q] = p, state[q] = "ZOMBIE" PROVE FALSE
      OBVIOUS
    <3>1. q >= i[p]
      BY <2>1, Zenon DEF WaitOK
    <3>2. i[p] = NPROC + 1
      BY <2>1, ProcAssumption DEF TypeOK, Proc
    <3> QED BY <3>1, <3>2, ProcAssumption DEF Proc
  <2> QED BY <2>1, <2>2, <2>3, <2>5, <2>6, <2>7, <2>8, KernelMove
<1> QED BY <1>1, <1>2, Zenon

\* wakeup returns to reparent, or to exit when it has woken up the parent.
LEMMA WakeEndIInv ==
  ASSUME IInv, NEW c \in CPU, NEW p \in Proc, NEW l, on[c] = p, WakeEnd(p), Goto(p, l),
         pc[p] \in {"wakeinit", "wakeparent"}, l = IF pc[p] = "wakeinit" THEN "reparent" ELSE "zlock",
         UNCHANGED <<slotvars, plock, wait_lock, nextpid, on, ret, i, havekids, n>>
  PROVE  IInv'
<1> USE DEF IInv
<1>1. UNCHANGED <<state, parent, pid, killed, chan, nextpid, plock, wait_lock, on, ret, i, havekids, n>>
  BY Zenon DEF slotvars
<1>2. Moved(p, l) /\ pc' \in [Proc -> PC]
  BY <1>1, MovedByGoto, Zenon DEF PC, NoLockPC
<1>3. /\ w' \in [Proc -> Proc \cup {NPROC + 1}] /\ w'[p] = 1 /\ \A q \in Proc : q # p => w'[q] = w[q]
      /\ w[p] = NPROC + 1
  BY ProcAssumption DEF WakeEnd, TypeOK, Proc
<1>4. TypeOK'
  BY <1>1, <1>2, <1>3, Zenon DEF TypeOK
<1>5. pc[p] \in WaitPC \ (OwnPC \cup {"panic"}) /\ l \in WaitPC \ (OwnPC \cup {"panic"} \cup ForkPC)
  BY Zenon DEF OwnPC, WaitPC, ForkPC
<1>6. p # initproc /\ (l = "zlock" => i[p] = 1) /\ (l = "reparent" => l \notin FirstPC)
  BY Zenon DEF PlacesOK, Place, ExitPC, FirstPC
<1>7. \A q \in Proc : (l = "reparent" /\ q < i[p] => parent[q] # p) /\ (l = "zlock" => parent[q] # p)
  BY Zenon DEF FamilyOK
<1>8. w[p] # 1 /\ \A q \in Proc : ~ (w[p] =< q)
  BY <1>3, ProcAssumption DEF Proc
<1>9. l = "zlock" /\ parent[p] \in Proc => state[parent[p]] # "SLEEPING"
  BY <1>8, Zenon DEF WaitOK
<1> QED BY <1>1, <1>2, <1>3, <1>4, <1>5, <1>6, <1>7, <1>8, <1>9, KernelMove

\* One slot of reparent.
LEMMA ReparentIInv ==
  ASSUME IInv, NEW c \in CPU, NEW p \in Proc, Reparent(c, p)
  PROVE  IInv'
<1> USE DEF IInv
<1>1. /\ on[c] = p /\ pc[p] = "reparent"
      /\ UNCHANGED <<state, pid, killed, chan, nextpid, plock, wait_lock, on, ret, w, havekids, n>>
  BY Zenon DEF Reparent, At
<1>2. /\ p # initproc /\ w[p] = 1 /\ ret[p] = "user" /\ Place(p) = "reparent"
      /\ \A q \in Proc : q < i[p] => parent[q] # p
  BY <1>1, Zenon DEF PlacesOK, Place, ExitPC, FamilyOK
<1>3. /\ "reparent" \in WaitPC \ (OwnPC \cup {"panic"} \cup ForkPC \cup FirstPC)
      /\ "wakeinit" \in WaitPC \ (OwnPC \cup {"panic"} \cup ForkPC \cup FirstPC)
      /\ "wakeparent" \in WaitPC \ (OwnPC \cup {"panic"} \cup ForkPC)
  BY Zenon DEF OwnPC, WaitPC, ForkPC, FirstPC
<1>4. CASE ReparentEnds(p) /\ Restart(p) /\ Goto(p, "wakeparent") /\ UNCHANGED parent
  <2>1. Moved(p, "wakeparent") /\ pc' \in [Proc -> PC]
    BY <1>4, MovedByGoto, Zenon DEF PC, NoLockPC
  <2>2. i' \in [Proc -> Proc \cup {NPROC + 1}] /\ i'[p] = 1 /\ \A q \in Proc : q # p => i'[q] = i[q]
    BY <1>4, LoopVar, Zenon
  <2>3. TypeOK'
    BY <1>1, <1>4, <2>1, <2>2, Zenon DEF TypeOK
  <2>4. \A q \in Proc : q < i[p] /\ 1 =< q
    <3>1. i[p] = NPROC + 1
      BY <1>4, ProcAssumption DEF TypeOK, Proc, ReparentEnds
    <3> QED BY <3>1, ProcAssumption DEF Proc
  <2> QED BY <1>1, <1>2, <1>3, <1>4, <2>1, <2>2, <2>3, <2>4, KernelMove
<1>5. CASE i[p] \in Proc /\ parent[i[p]] # p /\ Advance(p) /\ UNCHANGED <<parent, pc>>
  <2>1. Moved(p, "reparent")
    BY <1>1, <1>5, Zenon DEF Moved
  <2>2. i' \in [Proc -> Proc \cup {NPROC + 1}] /\ i'[p] = i[p] + 1 /\ \A q \in Proc : q # p => i'[q] = i[q]
    BY <1>5, LoopVar, Zenon
  <2>3. TypeOK'
    BY <1>1, <1>5, <2>2, Zenon DEF TypeOK
  <2>4. \A q \in Proc : q < i'[p] => parent[q] # p
    <3>1. \A q \in Proc : q < i'[p] => q < i[p] \/ q = i[p]
      BY <1>5, <2>2, ProcAssumption DEF Proc
    <3> QED BY <1>2, <1>5, <3>1, Zenon
  <2> QED BY <1>1, <1>2, <1>3, <1>5, <2>1, <2>2, <2>3, <2>4, KernelMove
<1>6. CASE /\ i[p] \in Proc /\ parent[i[p]] = p
           /\ parent' = [parent EXCEPT ![i[p]] = initproc]
           /\ Advance(p) /\ Goto(p, "wakeinit")
  <2>1. PICK q0 \in Proc : q0 = i[p]
    BY <1>6, Zenon
  <2>2. Moved(p, "wakeinit") /\ pc' \in [Proc -> PC]
    BY <1>6, MovedByGoto, Zenon DEF PC, NoLockPC
  <2>3. i' \in [Proc -> Proc \cup {NPROC + 1}] /\ i'[p] = i[p] + 1 /\ \A q \in Proc : q # p => i'[q] = i[q]
    BY <1>6, LoopVar, Zenon
  <2>4. /\ parent' \in [Proc -> Proc \cup {NoProc}] /\ initproc \in Proc
        /\ \A q \in Proc : parent'[q] = IF q = q0 THEN initproc ELSE parent[q]
    BY <1>6, <2>1, ProcAssumption DEF TypeOK, Proc, initproc
  <2>5. TypeOK'
    BY <1>1, <2>2, <2>3, <2>4, Zenon DEF TypeOK
  <2>6. \A q \in Proc : pc'[q] = IF q = p THEN "wakeinit" ELSE pc[q]
    BY <2>2, Zenon DEF Moved
  <2>7. \A q \in Proc : q # p => pc[q] \notin WaitPC
    <3>1. pc[p] \in WaitPC
      BY <1>1, <1>3, Zenon
    <3> QED BY <1>1, <3>1, OnCpu, Zenon
  <2>8. ThreadsOK' /\ LocksOK'
    BY <1>1, <1>3, <2>2, InKernel, Zenon
  <2>9. Place(p)' = "wakeinit" /\ \A q \in Proc : q # p => Place(q)' = Place(q)
    BY <1>1, <2>6, Zenon DEF Place
  <2>10. PlacesOK'
    <3>1. \A q \in Proc : pc'[q] \notin {"sched", "resume"} \/ state'[q] \in {"UNUSED", "USED", "ZOMBIE"} => ret'[q] = "user"
      BY <1>1, <1>2, <2>6, Zenon DEF PlacesOK
    <3>2. \A q \in Proc : /\ Place(q)' \in FirstPC => i'[q] = 1
                          /\ Place(q)' \in ExitPC => q # initproc
      BY <1>2, <1>3, <2>3, <2>9 DEF PlacesOK
    <3>3. \A q \in Proc : pc'[q] \notin {"wakeinit", "wakeparent"} => w'[q] = 1
      BY <1>1, <2>6, Zenon DEF PlacesOK
    <3> QED BY <1>1, <3>1, <3>2, <3>3, Zenon DEF PlacesOK
  <2>11. ForkOK'
    <3>1. \A q \in Proc : Place(q)' \in ForkPC => Place(q)' = Place(q) /\ i'[q] = i[q] /\ q # p
      BY <1>3, <2>3, <2>9, Zenon
    <3>2. \A q \in Proc : Place(q)' \in ForkPC /\ i[q] \in Proc /\ state[i[q]] = "USED" => state'[i[q]] = "USED"
      BY <1>1, Zenon
    <3>3. \A q \in Proc : Place(q)' = "runnable" /\ i[q] \in Proc /\ parent[i[q]] = q => parent'[i[q]] = q
      <4>1. \A q \in Proc : Place(q)' = "runnable" => q # p
        BY <2>9, Zenon
      <4> QED BY <1>6, <2>1, <2>4, <4>1, Zenon
    <3> QED BY <3>1, <3>2, <3>3, ForkFrame, Zenon
  <2>12. PidsOK'
    BY <1>1, Zenon DEF PidsOK, PidsUnique
  <2>13. FamilyOK'
    <3>1. initproc # NoProc /\ state[initproc] \in {"SLEEPING", "RUNNABLE", "RUNNING"}
      BY DEF PlacesOK, initproc, NoProc
    <3>2. ParentsAlive'
      BY <1>1, <2>4, <3>1, Zenon DEF FamilyOK, ParentsAlive
    <3>3. \A q \in Proc : q < i'[p] => parent'[q] # p
      <4>1. \A q \in Proc : q < i'[p] => q < i[p] \/ q = q0
        BY <2>1, <2>3, ProcAssumption DEF Proc
      <4> QED BY <1>2, <2>4, <4>1, Zenon
    <3>4. \A q \in Proc : q # p => pc'[q] \notin {"reparent", "wakeinit", "wakeparent", "zlock", "zombie"}
      BY <2>6, <2>7, Zenon DEF WaitPC
    <3> QED BY <2>6, <3>2, <3>3, <3>4, Zenon DEF FamilyOK
  <2>14. WaitOK'
    <3>1. \A q \in Proc : pc'[q] \notin {"scan", "sleeplock", "sleep", "wakeparent", "zlock", "zombie"}
      BY <2>6, <2>7, Zenon DEF WaitPC
    <3>2. \A q \in Proc : pc[q] # "wakeinit"
      BY <1>1, <2>7, Zenon DEF WaitPC
    <3>3. ASSUME NEW x \in Proc, NEW q \in Proc, parent'[q] = x, state[q] = "ZOMBIE", state[x] = "SLEEPING"
          PROVE  x = initproc /\ pc'[p] = "wakeinit" /\ w[p] = 1
      BY <1>2, <2>4, <2>6, <3>2, <3>3, Zenon DEF WaitOK
    <3>4. \A x \in Proc : state'[x] = "SLEEPING" => chan'[x] = x
      BY <1>1, Zenon DEF WaitOK
    <3> QED BY <1>1, <3>1, <3>3, <3>4 DEF WaitOK
  <2> QED BY <2>5, <2>8, <2>10, <2>11, <2>12, <2>13, <2>14, Zenon
<1> QED BY <1>4, <1>5, <1>6, Zenon DEF Reparent

\* Whoever gets q->lock and does not find q RUNNING finds its thread switched out.
LEMMA FreeSlot ==
  ASSUME IInv, NEW q \in Proc, Free(q)
  PROVE  /\ pc[q] # "sched"
         /\ state[q] # "RUNNING" => pc[q] = "resume" /\ \A d \in CPU : on[d] # q
<1> USE DEF IInv
<1>1. pc[q] # "sched"
  <2> SUFFICES ASSUME pc[q] = "sched" PROVE FALSE
    OBVIOUS
  <2>1. PICK d \in CPU : on[d] = q
    BY Zenon DEF ThreadsOK
  <2>2. plock[q] = d
    BY <2>1, Zenon DEF LocksOK, OwnPC
  <2> QED BY <2>2, ProcAssumption, Zenon DEF Free
<1>2. \A d \in CPU : on[d] = q => state[q] = "RUNNING"
  BY <1>1, Zenon DEF ThreadsOK
<1>3. pc[q] # "resume" => \E d \in CPU : on[d] = q
  BY Zenon DEF ThreadsOK
<1> QED BY <1>1, <1>2, <1>3, Zenon

\* One slot of wakeup, called by reparent for init and by exit for the parent.
LEMMA WakeSlotIInv ==
  ASSUME IInv, NEW c \in CPU, NEW p \in Proc, NEW q, on[c] = p,
         pc[p] \in {"wakeinit", "wakeparent"}, q = IF pc[p] = "wakeinit" THEN initproc ELSE parent[p],
         WakeSlot(p, q),
         UNCHANGED <<pc, plock, wait_lock, nextpid, on, ret, i, havekids, n>>
  PROVE  IInv'
<1> USE DEF IInv
<1>1. PICK s \in Proc : s = w[p]
  BY Zenon DEF WakeSlot
<1>2. /\ s # p => Free(s)
      /\ w' = [w EXCEPT ![p] = w[p] + 1]
      /\ UNCHANGED <<parent, pid, killed, chan>>
      /\ state' = IF s # p /\ state[s] = "SLEEPING" /\ chan[s] = q THEN [state EXCEPT ![s] = "RUNNABLE"] ELSE state
  BY <1>1, Zenon DEF WakeSlot
<1>3. \A x \in Proc : state'[x] = IF x = s /\ s # p /\ state[s] = "SLEEPING" /\ chan[s] = q THEN "RUNNABLE" ELSE state[x]
  BY <1>2, Zenon DEF TypeOK
<1>4. w' \in [Proc -> Proc \cup {NPROC + 1}] /\ w'[p] = s + 1 /\ \A x \in Proc : x # p => w'[x] = w[x]
  <2>1. s + 1 \in Proc \cup {NPROC + 1}
    BY ProcAssumption DEF Proc
  <2> QED BY <1>1, <1>2, <2>1, Zenon DEF TypeOK
<1>5. state' \in [Proc -> {"UNUSED", "USED", "SLEEPING", "RUNNABLE", "RUNNING", "ZOMBIE"}]
  BY <1>2, Zenon DEF TypeOK
<1>6. TypeOK'
  BY <1>2, <1>4, <1>5, Zenon DEF TypeOK
<1>7. pc[p] \in WaitPC \ (OwnPC \cup {"panic"}) /\ \A x \in Proc : x # p => pc[x] \notin WaitPC
  BY OnCpu, Zenon DEF WaitPC, OwnPC
<1>8. p # initproc
  BY Zenon DEF PlacesOK, Place, ExitPC
<1>9. \A x \in Proc : \/ state'[x] = state[x]
                      \/ state[x] = "SLEEPING" /\ state'[x] = "RUNNABLE" /\ pc[x] # "sched"
  BY <1>2, <1>3, FreeSlot
<1>10. ThreadsOK' /\ LocksOK'
  <2>1. Moved(p, pc[p])
    BY Zenon DEF Moved
  <2> QED BY <1>7, <1>9, <2>1, InKernel, Zenon
<1>11. \A x \in Proc : Place(x)' = Place(x)
  BY Zenon DEF Place
<1>12. PlacesOK'
  <2>1. initproc \in Proc
    BY ProcAssumption DEF initproc, Proc
  <2> QED BY <1>4, <1>9, <1>11, <2>1 DEF PlacesOK
<1>13. ForkOK'
  <2>1. \A x \in Proc : state[x] = "USED" => state'[x] = "USED"
    BY <1>9, Zenon
  <2> QED BY <1>2, <1>11, <2>1, ForkFrame, Zenon
<1>14. PidsOK'
  BY <1>2, <1>9 DEF PidsOK, PidsUnique
<1>15. FamilyOK'
  <2>1. ParentsAlive'
    <3>1. \A x \in Proc : /\ (state'[x] \in {"UNUSED", "USED", "ZOMBIE"}) = (state[x] \in {"UNUSED", "USED", "ZOMBIE"})
                          /\ state'[x] \in {"SLEEPING", "RUNNABLE", "RUNNING", "ZOMBIE"} => state[x] \in {"SLEEPING", "RUNNABLE", "RUNNING", "ZOMBIE"}
      BY <1>9
    <3>2. \A x \in Proc : parent[x] # NoProc => parent[x] \in Proc
      BY Zenon DEF TypeOK
    <3> QED BY <1>2, <3>1, <3>2, Zenon DEF FamilyOK, ParentsAlive
  <2> QED BY <1>2, <2>1, Zenon DEF FamilyOK
<1>16. WaitOK'
  <2>1. \A x \in Proc : state'[x] = "SLEEPING" => /\ state[x] = "SLEEPING" /\ chan'[x] = x
                                                  /\ ~ (x = s /\ s # p /\ x = q)
    BY <1>2, <1>3, <1>9 DEF WaitOK
  <2>2. \A x \in Proc : state'[x] = "ZOMBIE" => state[x] = "ZOMBIE"
    BY <1>9, Zenon
  <2>3. ASSUME NEW x \in Proc, NEW y \in Proc, parent[y] = x, state[y] = "ZOMBIE"
        PROVE  state'[x] # "SLEEPING"
    <3> SUFFICES ASSUME state'[x] = "SLEEPING" PROVE FALSE
      OBVIOUS
    <3>1. state[x] = "SLEEPING"
      BY <2>1, Zenon
    <3>2. x = initproc /\ \E e \in Proc : pc[e] = "wakeinit" /\ w[e] = 1
      BY <2>3, <3>1, Zenon DEF WaitOK
    <3>3. pc[p] = "wakeinit" /\ w[p] = 1
      BY <1>7, <3>2, Zenon DEF WaitPC
    <3>4. s = x /\ q = x
      BY <1>1, <3>2, <3>3, Zenon DEF initproc
    <3> QED BY <1>8, <2>1, <3>2, <3>4, Zenon
  <2>4. ASSUME NEW x \in Proc, NEW y \in Proc, parent[y] = x, state'[x] = "SLEEPING", pc[y] = "wakeparent"
        PROVE  w'[y] =< x
    <3>1. y = p
      BY <1>7, <2>4, Zenon DEF WaitPC
    <3>2. s =< x /\ q = x /\ x # p
      BY <1>1, <2>1, <2>4, <3>1 DEF WaitOK, FamilyOK
    <3>3. s # x
      BY <2>1, <2>4, <3>2, Zenon
    <3> QED BY <1>4, <3>1, <3>2, <3>3, ProcAssumption DEF Proc
  <2> QED BY <1>2, <2>1, <2>2, <2>3, <2>4 DEF WaitOK
<1> QED BY <1>6, <1>10, <1>12, <1>13, <1>14, <1>15, <1>16, Zenon

\* A step that adds no sleeper, no ZOMBIE and no child, and brings nobody into exit
\* or wait, keeps what is said of them.
LEMMA WaitFrame ==
  ASSUME IInv,
         \A x \in Proc : /\ state'[x] = "SLEEPING" => state[x] = "SLEEPING" /\ chan'[x] = chan[x]
                         /\ state'[x] = "ZOMBIE" => state[x] = "ZOMBIE"
                         /\ pc'[x] \in WaitPC => pc'[x] = pc[x] /\ i'[x] = i[x] /\ w'[x] = w[x]
                         /\ pc[x] = "wakeinit" => pc'[x] = "wakeinit",
         \A x, y \in Proc : parent'[y] = x => parent[y] = x
  PROVE  WaitOK'
<1> USE DEF IInv
<1>1. \A x \in Proc : state'[x] = "SLEEPING" => state[x] = "SLEEPING" /\ chan'[x] = x
  BY DEF WaitOK
<1>2. \A e \in Proc : pc[e] = "wakeinit" /\ w[e] = 1 => pc'[e] = "wakeinit" /\ w'[e] = 1
  BY Zenon DEF WaitPC
<1>3. \A x, y \in Proc : parent'[y] = x /\ state'[y] = "ZOMBIE" =>
        /\ state'[x] = "SLEEPING" => x = initproc /\ \E e \in Proc : pc'[e] = "wakeinit" /\ w'[e] = 1
        /\ pc'[x] = "scan" => y >= i'[x]
        /\ pc'[x] \notin {"sleeplock", "sleep"}
  BY <1>1, <1>2 DEF WaitOK, WaitPC
<1>4. \A x, y \in Proc : parent'[y] = x /\ state'[x] = "SLEEPING" =>
        (pc'[y] = "wakeparent" => w'[y] =< x) /\ pc'[y] \notin {"zlock", "zombie"}
  BY <1>1 DEF WaitOK, WaitPC
<1> QED BY <1>1, <1>3, <1>4, Zenon DEF WaitOK

\* A thread inside fork, kill or wait goes on, and changes slots that no CPU runs.
LEMMA SlotMove ==
  ASSUME IInv, NEW c \in CPU, NEW p \in Proc, on[c] = p, NEW l \in {"user", "setparent", "runnable"},
         pc[p] \in {"alloc", "parentlock", "runnable", "kill", "scan"}, Moved(p, l),
         UNCHANGED <<plock, on, ret, w>>, wait_lock' = IF pc[p] = "scan" THEN NoCPU ELSE wait_lock,
         l = "user" => i'[p] = 1,
         \A q \in Proc : q # p => i'[q] = i[q],
         \A q \in Proc : \/ state'[q] = state[q]
                         \/ /\ state[q] # "RUNNING" /\ state'[q] # "RUNNING" /\ Free(q) /\ q # initproc
                            /\ state'[q] \in {"UNUSED", "USED", "ZOMBIE"} => state[q] \in {"UNUSED", "USED", "ZOMBIE"}
                         \/ state[q] = "SLEEPING" /\ state'[q] = "RUNNABLE" /\ Free(q)
  PROVE  /\ ThreadsOK' /\ LocksOK' /\ PlacesOK'
         /\ Place(p) = pc[p] /\ Place(p)' = l /\ \A q \in Proc : q # p => Place(q)' = Place(q)
<1> USE DEF IInv
<1>1. \A q \in Proc : pc'[q] = IF q = p THEN l ELSE pc[q]
  BY Zenon DEF Moved
<1>2. pc[p] \notin OwnPC \cup {"panic"} /\ l \notin OwnPC \cup {"panic"} \cup WaitPC /\ (pc[p] \in WaitPC <=> pc[p] = "scan")
  BY Zenon DEF OwnPC, WaitPC
<1>3. \A q \in Proc : state'[q] = state[q] \/ (state[q] # "RUNNING" /\ state'[q] # "RUNNING" /\ pc[q] # "sched")
  BY FreeSlot, Zenon
<1>4. ThreadsOK' /\ LocksOK'
  BY <1>2, <1>3, InKernel, Zenon
<1>5. ret[p] = "user" /\ Place(p) = pc[p] /\ Place(p)' = l /\ \A q \in Proc : q # p => Place(q)' = Place(q)
  BY <1>1, Zenon DEF Place, PlacesOK
<1>6. PlacesOK'
  <2>1. l \notin ExitPC /\ (l \in FirstPC => l = "user")
    BY Zenon DEF ExitPC, FirstPC
  <2>2. \A q \in Proc : pc'[q] \notin {"sched", "resume"} \/ state'[q] \in {"UNUSED", "USED", "ZOMBIE"} => ret'[q] = "user"
    BY <1>1, <1>5, Zenon DEF PlacesOK
  <2>3. \A q \in Proc : (Place(q)' \in FirstPC => i'[q] = 1) /\ (Place(q)' \in ExitPC => q # initproc)
    <3>1. \A q \in Proc : (Place(q) \in FirstPC => i[q] = 1) /\ (Place(q) \in ExitPC => q # initproc)
      BY Zenon DEF PlacesOK
    <3> QED BY <1>5, <2>1, <3>1, Zenon
  <2>4. \A q \in Proc : pc'[q] \notin {"wakeinit", "wakeparent"} => w'[q] = 1
    BY <1>1 DEF PlacesOK
  <2>5. state'[initproc] \in {"SLEEPING", "RUNNABLE", "RUNNING"}
    BY ProcAssumption DEF PlacesOK, Proc, initproc
  <2> QED BY <2>2, <2>3, <2>4, <2>5 DEF PlacesOK
<1> QED BY <1>4, <1>5, <1>6, Zenon

\* What freeproc does to a slot that is UNUSED or ZOMBIE leaves the rest of the
\* table as it was.
LEMMA FreedSlot ==
  ASSUME IInv, NEW np \in Proc, freeproc(np)
  PROVE  /\ state' \in [Proc -> {"UNUSED", "USED", "SLEEPING", "RUNNABLE", "RUNNING", "ZOMBIE"}]
         /\ parent' \in [Proc -> Proc \cup {NoProc}] /\ pid' \in [Proc -> Nat]
         /\ killed' \in [Proc -> BOOLEAN] /\ chan' \in [Proc -> Proc \cup {NoProc}]
         /\ \A q \in Proc : /\ state'[q] = IF q = np THEN "UNUSED" ELSE state[q]
                            /\ pid'[q] = IF q = np THEN 0 ELSE pid[q]
                            /\ parent'[q] = IF q = np THEN NoProc ELSE parent[q]
                            /\ chan'[q] = IF q = np THEN NoProc ELSE chan[q]
<1>1. killed' \in [Proc -> BOOLEAN]
  <2>1. killed \in [Proc -> BOOLEAN] /\ killed' = [killed EXCEPT ![np] = FALSE]
    BY Zenon DEF IInv, TypeOK, freeproc
  <2> QED BY <2>1, Zenon
<1>2. /\ state' \in [Proc -> {"UNUSED", "USED", "SLEEPING", "RUNNABLE", "RUNNING", "ZOMBIE"}]
      /\ parent' \in [Proc -> Proc \cup {NoProc}] /\ pid' \in [Proc -> Nat]
      /\ chan' \in [Proc -> Proc \cup {NoProc}]
  BY Zenon DEF IInv, TypeOK, freeproc
<1>3. \A q \in Proc : /\ state'[q] = IF q = np THEN "UNUSED" ELSE state[q]
                      /\ pid'[q] = IF q = np THEN 0 ELSE pid[q]
                      /\ parent'[q] = IF q = np THEN NoProc ELSE parent[q]
                      /\ chan'[q] = IF q = np THEN NoProc ELSE chan[q]
  BY Zenon DEF IInv, TypeOK, freeproc
<1> QED BY <1>1, <1>2, <1>3, Zenon

\* freeproc at the end of fork that fails, and in wait: the slot has nobody's
\* children, and is the child of no process that goes on.
LEMMA FreeProcIInv ==
  ASSUME IInv, NEW c \in CPU, NEW p \in Proc, NEW np \in Proc, on[c] = p, np = i[p],
         Free(np), freeproc(np), Restart(p), Goto(p, "user"),
         \/ pc[p] = "alloc" /\ state[np] = "UNUSED" /\ nextpid' = nextpid + 1 /\ UNCHANGED <<wait_lock, havekids>>
         \/ /\ pc[p] = "scan" /\ state[np] = "ZOMBIE" /\ wait_lock' = NoCPU
            /\ havekids' = [havekids EXCEPT ![p] = FALSE] /\ UNCHANGED nextpid,
         UNCHANGED <<plock, on, ret, w, n>>
  PROVE  IInv'
<1> USE DEF IInv
<1>1. Moved(p, "user") /\ pc' \in [Proc -> PC]
  BY MovedByGoto, Zenon DEF PC, NoLockPC
<1>2. i' \in [Proc -> Proc \cup {NPROC + 1}] /\ i'[p] = 1 /\ \A q \in Proc : q # p => i'[q] = i[q]
  BY LoopVar, Zenon
<1>3. \A q \in Proc : /\ state'[q] = IF q = np THEN "UNUSED" ELSE state[q]
                      /\ pid'[q] = IF q = np THEN 0 ELSE pid[q]
                      /\ parent'[q] = IF q = np THEN NoProc ELSE parent[q]
                      /\ chan'[q] = IF q = np THEN NoProc ELSE chan[q]
  BY FreedSlot, Zenon
<1>4. TypeOK'
  <2>1. havekids' \in [Proc -> BOOLEAN]
    <3>1. havekids \in [Proc -> BOOLEAN]
      BY Zenon DEF TypeOK
    <3> QED BY <3>1, Zenon
  <2>2. wait_lock' \in CPU \cup {NoCPU} /\ nextpid' \in Nat
    BY DEF TypeOK
  <2>3. /\ state' \in [Proc -> {"UNUSED", "USED", "SLEEPING", "RUNNABLE", "RUNNING", "ZOMBIE"}]
        /\ parent' \in [Proc -> Proc \cup {NoProc}] /\ pid' \in [Proc -> Nat]
        /\ killed' \in [Proc -> BOOLEAN] /\ chan' \in [Proc -> Proc \cup {NoProc}]
    BY FreedSlot, Zenon
  <2> QED BY <1>1, <1>2, <2>1, <2>2, <2>3, Zenon DEF TypeOK
<1>5. np # initproc /\ state[np] \in {"UNUSED", "ZOMBIE"}
  BY Zenon DEF PlacesOK
<1>6. /\ ThreadsOK' /\ LocksOK' /\ PlacesOK'
      /\ Place(p) = pc[p] /\ Place(p)' = "user" /\ \A q \in Proc : q # p => Place(q)' = Place(q)
  <2>1. \A q \in Proc : \/ state'[q] = state[q]
                        \/ /\ state[q] # "RUNNING" /\ state'[q] # "RUNNING" /\ Free(q) /\ q # initproc
                           /\ state'[q] \in {"UNUSED", "USED", "ZOMBIE"} => state[q] \in {"UNUSED", "USED", "ZOMBIE"}
    BY <1>3, <1>5, Zenon
  <2>2. pc[p] \in {"alloc", "scan"} /\ wait_lock' = IF pc[p] = "scan" THEN NoCPU ELSE wait_lock
    OBVIOUS
  <2> QED BY <1>1, <1>2, <2>1, <2>2, SlotMove
<1>7. \A q \in Proc : parent[q] # np
  BY <1>5 DEF FamilyOK, ParentsAlive, Proc, NoProc
<1>8. ForkOK'
  <2>1. \A q \in Proc : Place(q)' \in ForkPC => Place(q)' = Place(q) /\ i'[q] = i[q]
    BY <1>2, <1>6, Zenon DEF ForkPC
  <2>2. \A q \in Proc : Place(q) \in ForkPC => i[q] # np
    BY <1>5, Zenon DEF ForkOK
  <2>3. \A q \in Proc : Place(q)' \in ForkPC /\ i[q] \in Proc /\ state[i[q]] = "USED" => state'[i[q]] = "USED"
    BY <1>3, <2>1, <2>2, Zenon
  <2>4. \A q \in Proc : Place(q)' = "runnable" /\ i[q] \in Proc /\ parent[i[q]] = q => parent'[i[q]] = q
    <3>1. "runnable" \in ForkPC
      BY Zenon DEF ForkPC
    <3> QED BY <1>3, <2>1, <2>2, <3>1
  <2> QED BY <2>1, <2>3, <2>4, ForkFrame, Zenon
<1>9. PidsOK'
  <2>1. PidsUnique'
    <3>1. \A q \in Proc : q # np => pid'[q] = pid[q] /\ state'[q] = state[q]
      BY <1>3, Zenon
    <3>2. pid'[np] = 0 /\ state'[np] = "UNUSED"
      BY <1>3, Zenon
    <3>3. /\ \A q \in Proc : pid[q] = 0 <=> state[q] = "UNUSED"
          /\ \A q, x \in Proc : q # x /\ pid[q] = pid[x] => pid[q] = 0
      BY Zenon DEF PidsOK, PidsUnique
    <3>4. \A q \in Proc : pid'[q] = 0 <=> state'[q] = "UNUSED"
      BY <3>1, <3>2, <3>3
    <3>5. \A q, x \in Proc : q # x /\ pid'[q] = pid'[x] => pid'[q] = 0
      BY <3>1, <3>2, <3>3
    <3> QED BY <3>4, <3>5, Zenon DEF PidsUnique
  <2>2. nextpid' >= nextpid /\ nextpid' \in Nat /\ nextpid \in Nat
    BY DEF TypeOK
  <2>3. \A q \in Proc : pid[q] \in Nat
    BY Zenon DEF TypeOK
  <2>4. \A q \in Proc : pid'[q] \in {0, pid[q]}
    BY <1>3, Zenon
  <2>5. nextpid > 0 /\ \A q \in Proc : pid[q] < nextpid
    BY Zenon DEF PidsOK
  <2>6. nextpid' > 0 /\ \A q \in Proc : pid'[q] < nextpid'
    BY <2>2, <2>3, <2>4, <2>5
  <2> QED BY <2>1, <2>6, Zenon DEF PidsOK
<1>10. NoProc \notin Proc /\ \A q \in Proc : pc'[q] = IF q = p THEN "user" ELSE pc[q]
  BY <1>1 DEF Proc, NoProc, Moved
<1>11. FamilyOK'
  <2>1. ParentsAlive'
    <3>1. \A q \in Proc : q # np => state'[q] = state[q] /\ parent'[q] = parent[q]
      BY <1>3, Zenon
    <3>2. state'[np] = "UNUSED" /\ parent'[np] = NoProc
      BY <1>3, Zenon
    <3>3. \A q \in Proc : parent[q] # NoProc => parent[q] \in Proc
      BY Zenon DEF TypeOK
    <3> QED BY <1>7, <3>1, <3>2, <3>3 DEF FamilyOK, ParentsAlive
  <2> QED BY <1>2, <1>3, <1>10, <2>1 DEF FamilyOK
<1>12. WaitOK'
  <2>1. \A x \in Proc : pc'[x] \in WaitPC => pc'[x] = pc[x] /\ i'[x] = i[x]
    BY <1>2, <1>10, Zenon DEF WaitPC
  <2>2. \A x \in Proc : pc[x] = "wakeinit" => pc'[x] = "wakeinit"
    BY <1>10, Zenon
  <2>3. \A x \in Proc : /\ state'[x] = "SLEEPING" => state[x] = "SLEEPING" /\ chan'[x] = chan[x]
                        /\ state'[x] = "ZOMBIE" => state[x] = "ZOMBIE"
    BY <1>3, Zenon
  <2>4. \A x, y \in Proc : parent'[y] = x => parent[y] = x
    <3>1. \A x \in Proc : x # NoProc
      BY <1>10, Zenon
    <3> QED BY <1>3, <3>1, Zenon
  <2> QED BY <2>1, <2>2, <2>3, <2>4, WaitFrame, Zenon
<1> QED BY <1>4, <1>6, <1>8, <1>9, <1>11, <1>12, Zenon

\* allocproc takes the slot, with a pid nobody has.
LEMMA AllocIInv ==
  ASSUME IInv, NEW c \in CPU, NEW p \in Proc, Alloc(c, p)
  PROVE  IInv'
<1> USE DEF IInv
<1>1. PICK np \in Proc : np = i[p]
  BY Zenon DEF Alloc
<1>2. /\ on[c] = p /\ pc[p] = "alloc" /\ Free(np) /\ state[np] = "UNUSED"
      /\ pid' = [pid EXCEPT ![np] = nextpid] /\ nextpid' = nextpid + 1
      /\ state' = [state EXCEPT ![np] = "USED"] /\ Goto(p, "setparent")
      /\ UNCHANGED <<parent, killed, chan, plock, wait_lock, on, ret, i, w, havekids, n>>
  BY <1>1, Zenon DEF Alloc, At, locals
<1>3. Moved(p, "setparent") /\ pc' \in [Proc -> PC]
  BY <1>2, MovedByGoto, Zenon DEF PC, NoLockPC
<1>4. /\ \A q \in Proc : /\ state'[q] = IF q = np THEN "USED" ELSE state[q]
                         /\ pid'[q] = IF q = np THEN nextpid ELSE pid[q]
      /\ state' \in [Proc -> {"UNUSED", "USED", "SLEEPING", "RUNNABLE", "RUNNING", "ZOMBIE"}]
      /\ pid' \in [Proc -> Nat] /\ nextpid' \in Nat
  BY <1>2 DEF TypeOK
<1>5. TypeOK'
  BY <1>2, <1>3, <1>4, Zenon DEF TypeOK
<1>6. np # initproc
  BY <1>2, Zenon DEF PlacesOK
<1>7. /\ ThreadsOK' /\ LocksOK' /\ PlacesOK'
      /\ Place(p) = "alloc" /\ Place(p)' = "setparent" /\ \A q \in Proc : q # p => Place(q)' = Place(q)
  <2>1. \A q \in Proc : \/ state'[q] = state[q]
                        \/ /\ state[q] # "RUNNING" /\ state'[q] # "RUNNING" /\ Free(q) /\ q # initproc
                           /\ state'[q] \in {"UNUSED", "USED", "ZOMBIE"} => state[q] \in {"UNUSED", "USED", "ZOMBIE"}
    BY <1>2, <1>4, <1>6, Zenon
  <2>2. /\ pc[p] \in {"alloc"} /\ wait_lock' = IF pc[p] = "scan" THEN NoCPU ELSE wait_lock
        /\ \A q \in Proc : q # p => i'[q] = i[q]
    BY <1>2, Zenon
  <2> QED BY <1>2, <1>3, <2>1, <2>2, SlotMove, Zenon
<1>8. ForkOK'
  <2>1. \A q \in Proc : Place(q) \in ForkPC => i[q] # np /\ q # p
    BY <1>2, <1>7, Zenon DEF ForkOK, ForkPC
  <2>2. \A q \in Proc : q # p /\ Place(q)' \in ForkPC =>
          /\ i'[q] \in Proc /\ state'[i'[q]] = "USED" /\ i'[q] # i'[p]
          /\ Place(q)' = "runnable" => parent'[i'[q]] = q
          /\ \A r \in Proc : r # p /\ Place(r)' \in ForkPC /\ i'[r] = i'[q] => r = q
    <3>1. \A q \in Proc : q # p /\ Place(q)' \in ForkPC => Place(q) \in ForkPC /\ i'[q] # np
      BY <1>2, <1>7, <2>1, Zenon
    <3>2. \A q \in Proc : q # p /\ Place(q)' \in ForkPC =>
            /\ i[q] \in Proc /\ state[i[q]] = "USED"
            /\ Place(q)' = "runnable" => parent[i[q]] = q
      BY <1>7, <3>1, Zenon DEF ForkOK
    <3>3. \A q, r \in Proc : q # p /\ r # p /\ Place(q)' \in ForkPC /\ Place(r)' \in ForkPC /\ i[r] = i[q] => r = q
      BY <1>7, Zenon DEF ForkOK
    <3> QED BY <1>1, <1>2, <1>4, <3>1, <3>2, <3>3, Zenon
  <2>3. i'[p] \in Proc /\ state'[i'[p]] = "USED" /\ Place(p)' # "runnable"
    BY <1>1, <1>2, <1>4, <1>7, Zenon
  <2> QED BY <2>2, <2>3, Zenon DEF ForkOK
<1>9. PidsOK'
  <2>1. nextpid \in Nat /\ nextpid > 0 /\ \A q \in Proc : pid[q] \in Nat /\ pid[q] < nextpid
    BY Zenon DEF TypeOK, PidsOK
  <2>2. PidsUnique'
    BY <1>4, <2>1 DEF PidsOK, PidsUnique
  <2>3. \A q \in Proc : pid'[q] \in {nextpid, pid[q]}
    BY <1>4, Zenon
  <2>4. nextpid' > 0 /\ \A q \in Proc : pid'[q] < nextpid'
    <3>1. nextpid' = nextpid + 1
      BY <1>2, Zenon
    <3> QED BY <2>1, <2>3, <3>1
  <2> QED BY <2>2, <2>4, Zenon DEF PidsOK
<1>10. \A q \in Proc : pc'[q] = IF q = p THEN "setparent" ELSE pc[q]
  BY <1>3, Zenon DEF Moved
<1>11. FamilyOK'
  <2>1. ParentsAlive'
    <3>1. \A q \in Proc : parent[q] # NoProc => parent[q] \in Proc /\ parent[q] # np
      BY <1>2, Zenon DEF TypeOK, FamilyOK, ParentsAlive
    <3> QED BY <1>2, <1>4, <3>1 DEF FamilyOK, ParentsAlive
  <2> QED BY <1>2, <1>10, <2>1, Zenon DEF FamilyOK
<1>12. WaitOK'
  <2>1. \A x \in Proc : /\ pc'[x] \in WaitPC => pc'[x] = pc[x] /\ i'[x] = i[x]
                        /\ pc[x] = "wakeinit" => pc'[x] = "wakeinit"
    BY <1>2, <1>10, Zenon DEF WaitPC
  <2>2. \A x \in Proc : (state'[x] = "SLEEPING" => state[x] = "SLEEPING") /\ (state'[x] = "ZOMBIE" => state[x] = "ZOMBIE")
    BY <1>4, Zenon
  <2> QED BY <1>2, <2>1, <2>2, WaitFrame, Zenon
<1> QED BY <1>5, <1>7, <1>8, <1>9, <1>11, <1>12, Zenon

\* fork sets np->parent while nobody is inside exit or wait with wait_lock.
LEMMA ForkSetParentIInv ==
  ASSUME IInv, NEW c \in CPU, NEW p \in Proc, ForkSetParent(c, p)
  PROVE  IInv'
<1> USE DEF IInv
<1>1. /\ on[c] = p /\ pc[p] = "parentlock" /\ wait_lock = NoCPU
      /\ parent' = [parent EXCEPT ![i[p]] = p] /\ Goto(p, "runnable")
      /\ UNCHANGED <<state, pid, killed, chan, plock, wait_lock, nextpid, on, ret, i, w, havekids, n>>
  BY Zenon DEF ForkSetParent, At, locals
<1>2. Place(p) = "parentlock" /\ "parentlock" \in ForkPC
  BY <1>1, Zenon DEF Place, ForkPC
<1>3. i[p] \in Proc /\ state[i[p]] = "USED" /\ \A q \in Proc : Place(q) \in ForkPC /\ i[q] = i[p] => q = p
  BY <1>2, Zenon DEF ForkOK
<1>4. PICK np \in Proc : np = i[p]
  BY <1>3, Zenon
<1>5. Moved(p, "runnable") /\ pc' \in [Proc -> PC]
  BY <1>1, MovedByGoto, Zenon DEF PC, NoLockPC
<1>6. /\ \A q \in Proc : parent'[q] = IF q = np THEN p ELSE parent[q]
      /\ parent' \in [Proc -> Proc \cup {NoProc}]
  BY <1>1, <1>4, Zenon DEF TypeOK
<1>7. TypeOK'
  BY <1>1, <1>5, <1>6, Zenon DEF TypeOK
<1>8. /\ ThreadsOK' /\ LocksOK' /\ PlacesOK'
      /\ Place(p)' = "runnable" /\ \A q \in Proc : q # p => Place(q)' = Place(q)
  BY <1>1, <1>5, SlotMove, Zenon
<1>9. ForkOK'
  <2>1. \A q \in Proc : q # p /\ Place(q)' \in ForkPC =>
          /\ i'[q] \in Proc /\ state'[i'[q]] = "USED" /\ i'[q] # i'[p]
          /\ Place(q)' = "runnable" => parent'[i'[q]] = q
          /\ \A r \in Proc : r # p /\ Place(r)' \in ForkPC /\ i'[r] = i'[q] => r = q
    <3>1. \A q \in Proc : q # p /\ Place(q)' \in ForkPC =>
            /\ i[q] \in Proc /\ i[q] # np /\ state[i[q]] = "USED"
            /\ Place(q)' = "runnable" => parent[i[q]] = q
      BY <1>3, <1>4, <1>8, Zenon DEF ForkOK
    <3>2. \A q, r \in Proc : q # p /\ r # p /\ Place(q)' \in ForkPC /\ Place(r)' \in ForkPC /\ i[r] = i[q] => r = q
      BY <1>8, Zenon DEF ForkOK
    <3> QED BY <1>1, <1>4, <1>6, <3>1, <3>2, Zenon
  <2>2. i'[p] \in Proc /\ state'[i'[p]] = "USED" /\ parent'[i'[p]] = p
    BY <1>1, <1>3, <1>4, <1>6, Zenon
  <2> QED BY <2>1, <2>2, Zenon DEF ForkOK
<1>10. PidsOK'
  BY <1>1, Zenon DEF PidsOK, PidsUnique
<1>11. \A q \in Proc : pc'[q] \notin WaitPC /\ pc[q] \notin WaitPC
  <2>1. \A q \in Proc : pc[q] \notin WaitPC
    <3> SUFFICES ASSUME NEW q \in Proc, pc[q] \in WaitPC PROVE FALSE
      OBVIOUS
    <3>1. PICK d \in CPU : on[d] = q
      BY Zenon DEF ThreadsOK, WaitPC
    <3>2. wait_lock = d
      BY <3>1, Zenon DEF LocksOK
    <3> QED BY <1>1, <3>2, ProcAssumption, Zenon
  <2> QED BY <1>5, <2>1, Zenon DEF Moved, WaitPC
<1>12. FamilyOK'
  <2>1. state[p] = "RUNNING" /\ p # NoProc
    BY <1>1, OnCpu, Zenon
  <2>2. ParentsAlive'
    BY <1>1, <1>6, <2>1 DEF FamilyOK, ParentsAlive
  <2> QED BY <1>11, <2>2, Zenon DEF FamilyOK, WaitPC
<1>13. WaitOK'
  <2>1. \A x, y \in Proc : parent'[y] = x /\ state[y] = "ZOMBIE" => state[x] # "SLEEPING"
    BY <1>3, <1>4, <1>6, <1>11 DEF WaitOK, WaitPC
  <2>2. \A x \in Proc : state'[x] = "SLEEPING" => chan'[x] = x
    BY <1>1, Zenon DEF WaitOK
  <2>3. \A q \in Proc : pc'[q] \notin {"scan", "sleeplock", "sleep", "wakeparent", "zlock", "zombie"}
    BY <1>11, Zenon DEF WaitPC
  <2> QED BY <1>1, <2>1, <2>2, <2>3, Zenon DEF WaitOK
<1> QED BY <1>7, <1>8, <1>9, <1>10, <1>12, <1>13, Zenon

\* fork makes the child RUNNABLE.
LEMMA ForkRunnableIInv ==
  ASSUME IInv, NEW c \in CPU, NEW p \in Proc, ForkRunnable(c, p)
  PROVE  IInv'
<1> USE DEF IInv
<1>1. /\ on[c] = p /\ pc[p] = "runnable" /\ Free(i[p])
      /\ state' = [state EXCEPT ![i[p]] = "RUNNABLE"] /\ Restart(p) /\ Goto(p, "user")
      /\ UNCHANGED <<parent, pid, killed, chan, plock, wait_lock, nextpid, on, ret, w, havekids, n>>
  BY Zenon DEF ForkRunnable, At
<1>2. Place(p) = "runnable" /\ "runnable" \in ForkPC
  BY <1>1, Zenon DEF Place, ForkPC
<1>3. /\ i[p] \in Proc /\ state[i[p]] = "USED" /\ parent[i[p]] = p
      /\ \A q \in Proc : Place(q) \in ForkPC /\ i[q] = i[p] => q = p
  BY <1>2, Zenon DEF ForkOK
<1>4. PICK np \in Proc : np = i[p]
  BY <1>3, Zenon
<1>5. Moved(p, "user") /\ pc' \in [Proc -> PC]
  BY <1>1, MovedByGoto, Zenon DEF PC, NoLockPC
<1>6. i' \in [Proc -> Proc \cup {NPROC + 1}] /\ i'[p] = 1 /\ \A q \in Proc : q # p => i'[q] = i[q]
  BY <1>1, LoopVar, Zenon
<1>7. /\ \A q \in Proc : state'[q] = IF q = np THEN "RUNNABLE" ELSE state[q]
      /\ state' \in [Proc -> {"UNUSED", "USED", "SLEEPING", "RUNNABLE", "RUNNING", "ZOMBIE"}]
  BY <1>1, <1>4, Zenon DEF TypeOK
<1>8. TypeOK'
  BY <1>1, <1>5, <1>6, <1>7, Zenon DEF TypeOK
<1>9. state[np] = "USED" /\ np # initproc
  BY <1>3, <1>4, Zenon DEF PlacesOK
<1>10. /\ ThreadsOK' /\ LocksOK' /\ PlacesOK'
       /\ Place(p)' = "user" /\ \A q \in Proc : q # p => Place(q)' = Place(q)
  BY <1>1, <1>4, <1>5, <1>6, <1>7, <1>9, SlotMove
<1>11. ForkOK'
  <2>1. \A q \in Proc : Place(q)' \in ForkPC => Place(q)' = Place(q) /\ i'[q] = i[q] /\ i[q] # np
    BY <1>3, <1>4, <1>6, <1>10, Zenon DEF ForkPC
  <2> QED BY <1>1, <1>7, <2>1, ForkFrame, Zenon
<1>12. PidsOK'
  <2>1. \A q \in Proc : state'[q] = "UNUSED" <=> state[q] = "UNUSED"
    BY <1>7, <1>9, Zenon
  <2> QED BY <1>1, <2>1, Zenon DEF PidsOK, PidsUnique
<1>13. \A q \in Proc : pc'[q] = IF q = p THEN "user" ELSE pc[q]
  BY <1>5, Zenon DEF Moved
<1>14. FamilyOK'
  <2>1. ParentsAlive'
    <3>1. parent[np] # NoProc
      BY <1>3, <1>4 DEF Proc, NoProc
    <3>2. \A q \in Proc : parent[q] # NoProc => parent[q] \in Proc
      BY Zenon DEF TypeOK
    <3> QED BY <1>1, <1>7, <3>1, <3>2 DEF FamilyOK, ParentsAlive
  <2> QED BY <1>1, <1>6, <1>13, <2>1, Zenon DEF FamilyOK
<1>15. WaitOK'
  <2>1. \A x \in Proc : /\ pc'[x] \in WaitPC => pc'[x] = pc[x] /\ i'[x] = i[x]
                        /\ pc[x] = "wakeinit" => pc'[x] = "wakeinit"
    BY <1>1, <1>6, <1>13, Zenon DEF WaitPC
  <2>2. \A x \in Proc : (state'[x] = "SLEEPING" => state[x] = "SLEEPING") /\ (state'[x] = "ZOMBIE" => state[x] = "ZOMBIE")
    BY <1>7, Zenon
  <2> QED BY <1>1, <2>1, <2>2, WaitFrame, Zenon
<1> QED BY <1>8, <1>10, <1>11, <1>12, <1>14, <1>15, Zenon

\* kill finds the process; one that sleeps becomes RUNNABLE.
LEMMA KillIInv ==
  ASSUME IInv, NEW c \in CPU, NEW p \in Proc, Kill(c, p)
  PROVE  IInv'
<1> USE DEF IInv
<1>1. PICK q \in Proc : q = i[p]
  BY Zenon DEF Kill
<1>2. /\ on[c] = p /\ pc[p] = "kill" /\ Free(q)
      /\ killed' = [killed EXCEPT ![q] = TRUE]
      /\ state' = IF state[q] = "SLEEPING" THEN [state EXCEPT ![q] = "RUNNABLE"] ELSE state
      /\ Restart(p) /\ n' = [n EXCEPT ![p] = 0] /\ Goto(p, "user")
      /\ UNCHANGED <<parent, pid, chan, plock, wait_lock, nextpid, on, ret, w, havekids>>
  BY <1>1, Zenon DEF Kill, KillReturn, At
<1>3. Moved(p, "user") /\ pc' \in [Proc -> PC]
  BY <1>2, MovedByGoto, Zenon DEF PC, NoLockPC
<1>4. i' \in [Proc -> Proc \cup {NPROC + 1}] /\ i'[p] = 1 /\ \A x \in Proc : x # p => i'[x] = i[x]
  BY <1>2, LoopVar, Zenon
<1>5. /\ \A x \in Proc : state'[x] = IF x = q /\ state[q] = "SLEEPING" THEN "RUNNABLE" ELSE state[x]
      /\ state' \in [Proc -> {"UNUSED", "USED", "SLEEPING", "RUNNABLE", "RUNNING", "ZOMBIE"}]
  BY <1>2, Zenon DEF TypeOK
<1>6. TypeOK'
  <2>1. killed' \in [Proc -> BOOLEAN]
    <3>1. killed \in [Proc -> BOOLEAN]
      BY Zenon DEF TypeOK
    <3> QED BY <1>2, <3>1, Zenon
  <2>2. n' \in [Proc -> Nat]
    BY <1>2, Zenon DEF TypeOK
  <2> QED BY <1>2, <1>3, <1>4, <1>5, <2>1, <2>2, Zenon DEF TypeOK
<1>7. /\ ThreadsOK' /\ LocksOK' /\ PlacesOK'
      /\ Place(p) = "kill" /\ Place(p)' = "user" /\ \A x \in Proc : x # p => Place(x)' = Place(x)
  BY <1>2, <1>3, <1>4, <1>5, SlotMove
<1>8. ForkOK'
  <2>1. \A x \in Proc : Place(x)' \in ForkPC => Place(x)' = Place(x) /\ i'[x] = i[x]
    BY <1>4, <1>7, Zenon DEF ForkPC
  <2> QED BY <1>2, <1>5, <2>1, ForkFrame, Zenon
<1>9. PidsOK'
  <2>1. \A x \in Proc : state'[x] = "UNUSED" <=> state[x] = "UNUSED"
    BY <1>5, Zenon
  <2> QED BY <1>2, <2>1, Zenon DEF PidsOK, PidsUnique
<1>10. \A x \in Proc : pc'[x] = IF x = p THEN "user" ELSE pc[x]
  BY <1>3, Zenon DEF Moved
<1>11. FamilyOK'
  <2>1. ParentsAlive'
    <3>1. \A x \in Proc : parent[x] # NoProc => parent[x] \in Proc
      BY Zenon DEF TypeOK
    <3> QED BY <1>2, <1>5, <3>1 DEF FamilyOK, ParentsAlive
  <2> QED BY <1>2, <1>4, <1>10, <2>1, Zenon DEF FamilyOK
<1>12. WaitOK'
  <2>1. \A x \in Proc : /\ pc'[x] \in WaitPC => pc'[x] = pc[x] /\ i'[x] = i[x]
                        /\ pc[x] = "wakeinit" => pc'[x] = "wakeinit"
    BY <1>2, <1>4, <1>10, Zenon DEF WaitPC
  <2>2. \A x \in Proc : (state'[x] = "SLEEPING" => state[x] = "SLEEPING") /\ (state'[x] = "ZOMBIE" => state[x] = "ZOMBIE")
    BY <1>5, Zenon
  <2> QED BY <1>2, <2>1, <2>2, WaitFrame, Zenon
<1> QED BY <1>6, <1>7, <1>8, <1>9, <1>11, <1>12, Zenon
=============================================================================
