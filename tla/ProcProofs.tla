----------------------------- MODULE ProcProofs -----------------------------
(***************************************************************************)
(* The process table is correct for any number of CPUs and slots: sched    *)
(* never panics, no thread runs on two CPUs, and the processes are a tree  *)
(* of live ones with pids of their own, none of which sleeps over a child  *)
(* that has exited.  The invariant, and that the work on the slots keeps   *)
(* it, are in ProcSlotProofs; here are sleep, exit, sched and scheduler.   *)
(***************************************************************************)
EXTENDS ProcSlotProofs

\* A thread that has its own p->lock, or takes it, on the way to sched.  It releases
\* wait_lock before it comes there.
LEMMA OwnLock ==
  ASSUME IInv, NEW c \in CPU, NEW p \in Proc, on[c] = p, NEW l \in {"sched", "zombie", "sleep"},
         pc[p] \notin {"sched", "resume", "panic"}, Moved(p, l), UNCHANGED on,
         plock[p] = c \/ plock[p] = NoCPU,
         \A q \in Proc : plock'[q] = IF q = p THEN c ELSE plock[q],
         \A q \in Proc : q # p => state'[q] = state[q],
         IF l = "sched" THEN state'[p] \in {"SLEEPING", "RUNNABLE", "ZOMBIE"}
                        ELSE state'[p] = "RUNNING" /\ pc[p] \in WaitPC,
         wait_lock' = IF l = "sched" /\ pc[p] \in WaitPC THEN NoCPU ELSE wait_lock
  PROVE  ThreadsOK' /\ LocksOK'
<1> USE DEF IInv
<1>1. \A q \in Proc : pc'[q] = IF q = p THEN l ELSE pc[q]
  BY Zenon DEF Moved
<1>2. p # NoProc /\ \A d \in CPU : on[d] = p => d = c
  BY OnCpu
<1>3. \A q \in Proc : plock[q] = c => q = p
  BY <1>2 DEF LocksOK
<1>4. l \in OwnPC /\ (l \in WaitPC <=> l # "sched")
  BY Zenon DEF OwnPC, WaitPC
<1>5. ThreadsOK'
  <2>1. \A q \in Proc : pc'[q] # "resume" \/ state'[q] = "RUNNING" => \E d \in CPU : on'[d] = q
    BY <1>1 DEF ThreadsOK
  <2>2. \A d \in CPU : \A q \in Proc : on'[d] = q => state'[q] = "RUNNING" \/ pc'[q] = "sched"
    BY <1>1 DEF ThreadsOK
  <2>3. \A q \in Proc : pc'[q] = "sched" => state'[q] \in {"SLEEPING", "RUNNABLE", "ZOMBIE"}
    BY <1>1 DEF ThreadsOK
  <2> QED BY <1>1, <2>1, <2>2, <2>3 DEF ThreadsOK
<1>6. \A d \in CPU : \A q \in Proc :
        plock'[q] = d => \/ on'[d] = q /\ pc'[q] \in OwnPC
                         \/ on'[d] = NoProc /\ pc'[q] = "resume" /\ state'[q] # "RUNNING"
  BY <1>1, <1>4 DEF LocksOK
<1>7. \A d \in CPU : \A q \in Proc : on'[d] = q /\ pc'[q] \in OwnPC => plock'[q] = d
  BY <1>1, <1>2 DEF LocksOK
<1>8. \A d \in CPU : \A x, q \in Proc : plock'[x] = d /\ plock'[q] = d => x = q
  BY <1>3 DEF LocksOK
<1>9. \A d \in CPU : \A q \in Proc : on'[d] = q /\ pc'[q] \in WaitPC => wait_lock' = d
  <2> SUFFICES ASSUME NEW d \in CPU, NEW q \in Proc, on[d] = q, pc'[q] \in WaitPC PROVE wait_lock' = d
    OBVIOUS
  <2>1. CASE q = p
    BY <1>1, <1>2, <1>4, <2>1 DEF LocksOK
  <2>2. CASE q # p
    <3>1. pc[q] \in WaitPC /\ wait_lock = d /\ d # c
      BY <1>1, <2>2, Zenon DEF LocksOK
    <3>2. pc[p] \notin WaitPC
      BY <3>1, Zenon DEF LocksOK
    <3> QED BY <3>1, <3>2, Zenon
  <2> QED BY <2>1, <2>2, Zenon
<1>10. \A d \in CPU : wait_lock' = d => \E q \in Proc : on'[d] = q /\ pc'[q] \in WaitPC
  <2> SUFFICES ASSUME NEW d \in CPU, wait_lock' = d PROVE \E q \in Proc : on[d] = q /\ pc'[q] \in WaitPC
    OBVIOUS
  <2>1. wait_lock = d /\ ~ (l = "sched" /\ pc[p] \in WaitPC)
    BY ProcAssumption, Zenon
  <2>2. PICK q \in Proc : on[d] = q /\ pc[q] \in WaitPC
    BY <2>1, Zenon DEF LocksOK
  <2> QED BY <1>1, <1>4, <2>1, <2>2, Zenon
<1> QED BY <1>5, <1>6, <1>7, <1>8, <1>9, <1>10, Zenon DEF LocksOK

\* exit and sleep take the lock of the caller.
LEMMA TakeOwnLockIInv ==
  ASSUME IInv, NEW c \in CPU, NEW p \in Proc, ExitLock(c, p) \/ SleepLock(c, p)
  PROVE  IInv'
<1> USE DEF IInv
<1>1. PICK l \in {"zombie", "sleep"} :
        /\ on[c] = p /\ Free(p) /\ plock' = [plock EXCEPT ![p] = c] /\ Goto(p, l)
        /\ pc[p] = IF l = "zombie" THEN "zlock" ELSE "sleeplock"
        /\ UNCHANGED <<state, parent, pid, killed, chan, wait_lock, nextpid, on, ret, i, w, havekids, n>>
  BY Zenon DEF ExitLock, SleepLock, At, slotvars, locals
<1>2. Moved(p, l) /\ pc' \in [Proc -> PC]
  BY <1>1, MovedByGoto, Zenon DEF PC, NoLockPC
<1>3. (\A q \in Proc : plock'[q] = IF q = p THEN c ELSE plock[q]) /\ plock' \in [Proc -> CPU \cup {NoCPU}]
  BY <1>1, Zenon DEF TypeOK
<1>4. TypeOK'
  BY <1>1, <1>2, <1>3, Zenon DEF TypeOK
<1>5. \A q \in Proc : pc'[q] = IF q = p THEN l ELSE pc[q]
  BY <1>2, Zenon DEF Moved
<1>6. ThreadsOK' /\ LocksOK'
  <2>1. state[p] = "RUNNING"
    BY <1>1, OnCpu, Zenon
  <2>2. pc[p] \in WaitPC
    BY <1>1, Zenon DEF WaitPC
  <2> QED BY <1>1, <1>2, <1>3, <2>1, <2>2, OwnLock DEF Free
<1>7. Place(p) = pc[p] /\ Place(p)' = l /\ \A q \in Proc : q # p => Place(q)' = Place(q)
  BY <1>1, <1>5, Zenon DEF Place
<1>8. PlacesOK'
  <2>1. i[p] = 1 /\ w[p] = 1 /\ ret[p] = "user" /\ (l \in ExitPC => p # initproc)
    BY <1>1, <1>7, Zenon DEF PlacesOK, FirstPC, ExitPC
  <2>2. \A q \in Proc : (Place(q)' \in FirstPC => i'[q] = 1) /\ (Place(q)' \in ExitPC => q # initproc)
    BY <1>1, <1>7, <2>1, Zenon DEF PlacesOK
  <2>3. \A q \in Proc : pc'[q] \notin {"wakeinit", "wakeparent"} => w'[q] = 1
    BY <1>1, <1>5, <2>1, Zenon DEF PlacesOK
  <2> QED BY <1>1, <1>5, <2>1, <2>2, <2>3, Zenon DEF PlacesOK
<1>9. ForkOK'
  <2>1. \A q \in Proc : Place(q)' \in ForkPC => Place(q)' = Place(q)
    BY <1>7, Zenon DEF ForkPC
  <2> QED BY <1>1, <2>1 DEF ForkOK
<1>10. PidsOK'
  BY <1>1, Zenon DEF PidsOK, PidsUnique
<1>11. FamilyOK'
  <2>1. ParentsAlive'
    BY <1>1, Zenon DEF FamilyOK, ParentsAlive
  <2> QED BY <1>1, <1>5, <2>1, Zenon DEF FamilyOK
<1>12. WaitOK'
  <2>1. \A e \in Proc : pc[e] = "wakeinit" /\ w[e] = 1 => pc'[e] = "wakeinit" /\ w'[e] = 1
    BY <1>1, <1>5, Zenon
  <2>2. \A x, y \in Proc : parent'[y] = x /\ state'[y] = "ZOMBIE" =>
          /\ state'[x] = "SLEEPING" => x = initproc /\ \E e \in Proc : pc'[e] = "wakeinit" /\ w'[e] = 1
          /\ pc'[x] = "scan" => y >= i'[x]
          /\ pc'[x] \notin {"sleeplock", "sleep"}
    BY <1>1, <1>5, <2>1 DEF WaitOK
  <2>3. \A x, y \in Proc : parent'[y] = x /\ state'[x] = "SLEEPING" =>
          (pc'[y] = "wakeparent" => w'[y] =< x) /\ pc'[y] \notin {"zlock", "zombie"}
    BY <1>1, <1>5 DEF WaitOK
  <2> QED BY <1>1, <2>2, <2>3, Zenon DEF WaitOK
<1> QED BY <1>4, <1>6, <1>8, <1>9, <1>10, <1>11, <1>12, Zenon

\* exit makes the caller a ZOMBIE and releases wait_lock: by then it has no
\* children, and its parent does not sleep.
LEMMA ExitZombieIInv ==
  ASSUME IInv, NEW c \in CPU, NEW p \in Proc, ExitZombie(c, p)
  PROVE  IInv'
<1> USE DEF IInv
<1>1. /\ on[c] = p /\ pc[p] = "zombie" /\ state' = [state EXCEPT ![p] = "ZOMBIE"] /\ wait_lock' = NoCPU
      /\ Goto(p, "sched")
      /\ UNCHANGED <<parent, pid, killed, chan, plock, nextpid, on, ret, i, w, havekids, n>>
  BY Zenon DEF ExitZombie, At, locals
<1>2. Moved(p, "sched") /\ pc' \in [Proc -> PC]
  BY <1>1, MovedByGoto, Zenon DEF PC, NoLockPC
<1>3. /\ \A q \in Proc : state'[q] = IF q = p THEN "ZOMBIE" ELSE state[q]
      /\ state' \in [Proc -> {"UNUSED", "USED", "SLEEPING", "RUNNABLE", "RUNNING", "ZOMBIE"}]
  BY <1>1, Zenon DEF TypeOK
<1>4. TypeOK'
  BY <1>1, <1>2, <1>3, Zenon DEF TypeOK
<1>5. \A q \in Proc : pc'[q] = IF q = p THEN "sched" ELSE pc[q]
  BY <1>2, Zenon DEF Moved
<1>6. pc[p] \in WaitPC /\ plock[p] = c
  BY <1>1, Zenon DEF WaitPC, OwnPC, LocksOK
<1>7. ThreadsOK' /\ LocksOK'
  BY <1>1, <1>2, <1>3, <1>6, OwnLock
<1>8. /\ i[p] = 1 /\ w[p] = 1 /\ ret[p] = "user" /\ p # initproc /\ state[p] = "RUNNING"
      /\ Place(p)' = "user" /\ \A q \in Proc : q # p => Place(q)' = Place(q)
  <2>1. i[p] = 1 /\ w[p] = 1 /\ ret[p] = "user" /\ p # initproc
    BY <1>1, Zenon DEF PlacesOK, Place, FirstPC, ExitPC
  <2>2. state[p] = "RUNNING"
    BY <1>1, OnCpu, Zenon
  <2> QED BY <1>1, <1>5, <2>1, <2>2, Zenon DEF Place
<1>9. \A q \in Proc : q # p => pc[q] \notin WaitPC
  BY <1>1, <1>6, OnCpu, Zenon
<1>10. PlacesOK'
  <2>1. \A q \in Proc : (Place(q)' \in FirstPC => i'[q] = 1) /\ (Place(q)' \in ExitPC => q # initproc)
    BY <1>1, <1>8, Zenon DEF PlacesOK
  <2>2. \A q \in Proc : pc'[q] \notin {"wakeinit", "wakeparent"} => w'[q] = 1
    BY <1>1, <1>5, <1>8, Zenon DEF PlacesOK
  <2>3. \A q \in Proc : pc'[q] \notin {"sched", "resume"} \/ state'[q] \in {"UNUSED", "USED", "ZOMBIE"} => ret'[q] = "user"
    BY <1>1, <1>3, <1>5, <1>8 DEF PlacesOK
  <2>4. state'[initproc] \in {"SLEEPING", "RUNNABLE", "RUNNING"}
    BY <1>3, <1>8, ProcAssumption DEF PlacesOK, Proc, initproc
  <2> QED BY <2>1, <2>2, <2>3, <2>4, Zenon DEF PlacesOK
<1>11. ForkOK'
  <2>1. \A q \in Proc : Place(q)' \in ForkPC => Place(q)' = Place(q)
    BY <1>8, Zenon DEF ForkPC
  <2> QED BY <1>1, <1>3, <1>8, <2>1 DEF ForkOK
<1>12. PidsOK'
  BY <1>1, <1>3, <1>8 DEF PidsOK, PidsUnique
<1>13. FamilyOK'
  <2>1. \A q \in Proc : parent[q] # p /\ (parent[q] # NoProc => parent[q] \in Proc)
    BY <1>1, Zenon DEF FamilyOK, TypeOK
  <2>2. ParentsAlive'
    BY <1>1, <1>3, <1>8, <2>1 DEF FamilyOK, ParentsAlive
  <2> QED BY <1>1, <1>5, <2>2, Zenon DEF FamilyOK
<1>14. WaitOK'
  <2>1. \A q \in Proc : pc'[q] \notin {"scan", "sleeplock", "sleep", "wakeparent", "zlock", "zombie"}
    BY <1>5, <1>9, Zenon DEF WaitPC
  <2>2. \A q \in Proc : pc[q] # "wakeinit"
    BY <1>1, <1>9, Zenon DEF WaitPC
  <2>3. \A x, y \in Proc : parent[y] = x /\ state'[y] = "ZOMBIE" => state'[x] # "SLEEPING"
    BY <1>1, <1>3, <2>2 DEF WaitOK
  <2>4. \A x \in Proc : state'[x] = "SLEEPING" => chan'[x] = x
    BY <1>1, <1>3, Zenon DEF WaitOK
  <2> QED BY <1>1, <2>1, <2>3, <2>4, Zenon DEF WaitOK
<1> QED BY <1>4, <1>7, <1>10, <1>11, <1>12, <1>13, <1>14, Zenon

\* sleep in wait releases wait_lock when the caller is SLEEPING but for its lock,
\* and it has no child that has exited.
LEMMA SleepIInv ==
  ASSUME IInv, NEW c \in CPU, NEW p \in Proc, Sleep(c, p)
  PROVE  IInv'
<1> USE DEF IInv
<1>1. /\ on[c] = p /\ pc[p] = "sleep" /\ state' = [state EXCEPT ![p] = "SLEEPING"] /\ wait_lock' = NoCPU
      /\ chan' = [chan EXCEPT ![p] = p] /\ ret' = [ret EXCEPT ![p] = "wait"] /\ Goto(p, "sched")
      /\ UNCHANGED <<parent, pid, killed, plock, nextpid, on, i, w, havekids, n>>
  BY Zenon DEF Sleep, SleepReleasesLock, At, locals
<1>2. Moved(p, "sched") /\ pc' \in [Proc -> PC]
  BY <1>1, MovedByGoto, Zenon DEF PC, NoLockPC
<1>3. /\ \A q \in Proc : /\ state'[q] = IF q = p THEN "SLEEPING" ELSE state[q]
                         /\ chan'[q] = IF q = p THEN p ELSE chan[q]
                         /\ ret'[q] = IF q = p THEN "wait" ELSE ret[q]
      /\ state' \in [Proc -> {"UNUSED", "USED", "SLEEPING", "RUNNABLE", "RUNNING", "ZOMBIE"}]
      /\ chan' \in [Proc -> Proc \cup {NoProc}] /\ ret' \in [Proc -> NoLockPC]
  BY <1>1, Zenon DEF TypeOK, NoLockPC
<1>4. TypeOK'
  BY <1>1, <1>2, <1>3, Zenon DEF TypeOK
<1>5. \A q \in Proc : pc'[q] = IF q = p THEN "sched" ELSE pc[q]
  BY <1>2, Zenon DEF Moved
<1>6. pc[p] \in WaitPC /\ plock[p] = c
  BY <1>1, Zenon DEF WaitPC, OwnPC, LocksOK
<1>7. ThreadsOK' /\ LocksOK'
  BY <1>1, <1>2, <1>3, <1>6, OwnLock
<1>8. /\ i[p] = 1 /\ w[p] = 1 /\ state[p] = "RUNNING"
      /\ Place(p)' = "wait" /\ \A q \in Proc : q # p => Place(q)' = Place(q)
  <2>1. i[p] = 1 /\ w[p] = 1
    BY <1>1, Zenon DEF PlacesOK, Place, FirstPC
  <2>2. state[p] = "RUNNING"
    BY <1>1, OnCpu, Zenon
  <2> QED BY <1>1, <1>3, <1>5, <2>1, <2>2 DEF Place
<1>9. \A q \in Proc : q # p => pc[q] \notin WaitPC
  BY <1>1, <1>6, OnCpu, Zenon
<1>10. PlacesOK'
  <2>1. \A q \in Proc : (Place(q)' \in FirstPC => i'[q] = 1) /\ (Place(q)' \in ExitPC => q # initproc)
    BY <1>1, <1>8, Zenon DEF PlacesOK, ExitPC
  <2>2. \A q \in Proc : pc'[q] \notin {"wakeinit", "wakeparent"} => w'[q] = 1
    BY <1>1, <1>5, <1>8, Zenon DEF PlacesOK
  <2>3. \A q \in Proc : pc'[q] \notin {"sched", "resume"} \/ state'[q] \in {"UNUSED", "USED", "ZOMBIE"} => ret'[q] = "user"
    BY <1>3, <1>5, Zenon DEF PlacesOK
  <2>4. state'[initproc] \in {"SLEEPING", "RUNNABLE", "RUNNING"}
    BY <1>3, ProcAssumption DEF PlacesOK, Proc, initproc
  <2> QED BY <2>1, <2>2, <2>3, <2>4, Zenon DEF PlacesOK
<1>11. ForkOK'
  <2>1. \A q \in Proc : Place(q)' \in ForkPC => Place(q)' = Place(q)
    BY <1>8, Zenon DEF ForkPC
  <2> QED BY <1>1, <1>3, <1>8, <2>1 DEF ForkOK
<1>12. PidsOK'
  BY <1>1, <1>3, <1>8 DEF PidsOK, PidsUnique
<1>13. FamilyOK'
  <2>1. \A q \in Proc : parent[q] # NoProc => parent[q] \in Proc
    BY Zenon DEF TypeOK
  <2>2. ParentsAlive'
    BY <1>1, <1>3, <1>8, <2>1 DEF FamilyOK, ParentsAlive
  <2> QED BY <1>1, <1>5, <2>2, Zenon DEF FamilyOK
<1>14. WaitOK'
  <2>1. \A q \in Proc : pc'[q] \notin {"scan", "sleeplock", "sleep", "wakeparent", "zlock", "zombie"}
    BY <1>5, <1>9, Zenon DEF WaitPC
  <2>2. \A q \in Proc : pc[q] # "wakeinit"
    BY <1>1, <1>9, Zenon DEF WaitPC
  <2>3. \A x, y \in Proc : parent[y] = x /\ state'[y] = "ZOMBIE" => state'[x] # "SLEEPING"
    BY <1>1, <1>3, <2>2 DEF WaitOK
  <2>4. \A x \in Proc : state'[x] = "SLEEPING" => chan'[x] = x
    BY <1>3, Zenon DEF WaitOK
  <2> QED BY <1>1, <2>1, <2>3, <2>4 DEF WaitOK
<1> QED BY <1>4, <1>7, <1>10, <1>11, <1>12, <1>13, <1>14, Zenon

-----------------------------------------------------------------------------
\* A switch between a thread and the scheduler leaves every thread in its place and
\* every family as it is.
LEMMA Switch ==
  ASSUME IInv, UNCHANGED <<parent, pid, nextpid, i, w>>,
         \A x \in Proc : /\ Place(x)' = Place(x)
                         /\ pc'[x] = pc[x] \/ {pc[x], pc'[x]} \subseteq NoLockPC \cup {"sched", "resume"}
                         /\ state'[x] = state[x] \/ {state[x], state'[x]} \subseteq {"RUNNABLE", "RUNNING"}
                         /\ chan'[x] = chan[x] \/ state'[x] # "SLEEPING"
                         /\ pc'[x] \notin {"sched", "resume"} \/ state'[x] \in {"UNUSED", "USED", "ZOMBIE"} => ret'[x] = "user"
  PROVE  PlacesOK' /\ ForkOK' /\ PidsOK' /\ FamilyOK' /\ WaitOK'
<1> USE DEF IInv
<1>1. \A x \in Proc : \A l \in WaitPC : pc'[x] = l <=> pc[x] = l
  BY Zenon DEF NoLockPC, WaitPC
<1>2. \A x \in Proc : \A s \in {"UNUSED", "USED", "SLEEPING", "ZOMBIE"} : state'[x] = s <=> state[x] = s
  OBVIOUS
<1>3. initproc \in Proc /\ \A x \in Proc : parent[x] # NoProc => parent[x] \in Proc
  BY ProcAssumption DEF TypeOK, Proc, initproc
<1>4. PlacesOK'
  <2>1. \A x \in Proc : pc'[x] \notin {"wakeinit", "wakeparent"} => w'[x] = 1
    BY <1>1, Zenon DEF PlacesOK, WaitPC
  <2>2. \A x \in Proc : (Place(x)' \in FirstPC => i'[x] = 1) /\ (Place(x)' \in ExitPC => x # initproc)
    BY Zenon DEF PlacesOK
  <2>3. state'[initproc] \in {"SLEEPING", "RUNNABLE", "RUNNING"}
    BY <1>3, Zenon DEF PlacesOK
  <2> QED BY <2>1, <2>2, <2>3, Zenon DEF PlacesOK
<1>5. ForkOK'
  BY <1>2 DEF ForkOK
<1>6. PidsOK'
  BY <1>2, Zenon DEF PidsOK, PidsUnique
<1>7. FamilyOK'
  <2>1. ParentsAlive'
    BY <1>2, <1>3, Zenon DEF FamilyOK, ParentsAlive
  <2> QED BY <1>1, <2>1 DEF FamilyOK, WaitPC
<1>8. WaitOK'
  BY <1>1, <1>2, WaitFrame DEF WaitPC
<1> QED BY <1>4, <1>5, <1>6, <1>7, <1>8, Zenon

\* A timer interrupt makes the thread yield.
LEMMA YieldIInv ==
  ASSUME IInv, NEW c \in CPU, NEW p \in Proc, Yield(c, p)
  PROVE  IInv'
<1> USE DEF IInv
<1>1. /\ on[c] = p /\ pc[p] \in NoLockPC /\ plock[p] = NoCPU
      /\ plock' = [plock EXCEPT ![p] = c] /\ state' = [state EXCEPT ![p] = "RUNNABLE"]
      /\ ret' = [ret EXCEPT ![p] = pc[p]] /\ Goto(p, "sched")
      /\ UNCHANGED <<parent, pid, killed, chan, wait_lock, nextpid, on, i, w, havekids, n>>
  BY Zenon DEF Yield, CanYield, Free, locals
<1>2. Moved(p, "sched") /\ pc' \in [Proc -> PC]
  BY <1>1, MovedByGoto, Zenon DEF PC, NoLockPC
<1>3. /\ \A q \in Proc : /\ state'[q] = IF q = p THEN "RUNNABLE" ELSE state[q]
                         /\ plock'[q] = IF q = p THEN c ELSE plock[q]
                         /\ ret'[q] = IF q = p THEN pc[p] ELSE ret[q]
      /\ state' \in [Proc -> {"UNUSED", "USED", "SLEEPING", "RUNNABLE", "RUNNING", "ZOMBIE"}]
      /\ plock' \in [Proc -> CPU \cup {NoCPU}] /\ ret' \in [Proc -> NoLockPC]
  BY <1>1, Zenon DEF TypeOK
<1>4. TypeOK'
  BY <1>1, <1>2, <1>3, Zenon DEF TypeOK
<1>5. \A q \in Proc : pc'[q] = IF q = p THEN "sched" ELSE pc[q]
  BY <1>2, Zenon DEF Moved
<1>6. pc[p] \notin {"sched", "resume", "panic"} \cup WaitPC
  BY <1>1, Zenon DEF NoLockPC, WaitPC
<1>7. ThreadsOK' /\ LocksOK'
  BY <1>1, <1>2, <1>3, <1>6, OwnLock
<1>8. state[p] = "RUNNING"
  BY <1>1, <1>6, OnCpu, Zenon
<1>9. \A q \in Proc : Place(q)' = Place(q)
  BY <1>3, <1>5, <1>6, Zenon DEF Place
<1>10. \A q \in Proc : pc'[q] \notin {"sched", "resume"} \/ state'[q] \in {"UNUSED", "USED", "ZOMBIE"} => ret'[q] = "user"
  BY <1>3, <1>5, Zenon DEF PlacesOK
<1> QED BY <1>1, <1>3, <1>4, <1>5, <1>7, <1>8, <1>9, <1>10, Switch

\* sched finds what it checks for: the lock of the caller is held, and no other.
LEMMA SchedIInv ==
  ASSUME IInv, NEW c \in CPU, NEW p \in Proc, Sched(c, p)
  PROVE  IInv'
<1> USE DEF IInv
<1>1. on[c] = p /\ pc[p] = "sched" /\ UNCHANGED <<state, parent, pid, killed, chan, plock, wait_lock, nextpid, ret, i, w, havekids, n>>
  BY Zenon DEF Sched, At, slotvars, locals
<1>2. plock[p] = c /\ state[p] \in {"SLEEPING", "RUNNABLE", "ZOMBIE"} /\ \A d \in CPU : on[d] = p => d = c
  BY <1>1, OnCpu DEF LocksOK, ThreadsOK, OwnPC
<1>3. wait_lock # c
  BY <1>1, Zenon DEF LocksOK, WaitPC
<1>4. NoffIsOne(c)
  <2>1. Held(c) = {p}
    BY <1>2 DEF Held, LocksOK
  <2> QED BY <1>3, <2>1, Zenon DEF NoffIsOne
<1>5. Goto(p, "resume") /\ on' = [on EXCEPT ![c] = NoProc]
  BY <1>2, <1>4, Zenon DEF Sched
<1>6. Moved(p, "resume") /\ pc' \in [Proc -> PC]
  BY <1>5, MovedByGoto, Zenon DEF PC, NoLockPC
<1>7. (\A d \in CPU : on'[d] = IF d = c THEN NoProc ELSE on[d]) /\ on' \in [CPU -> Proc \cup {NoProc}]
  BY <1>5, Zenon DEF TypeOK
<1>8. TypeOK'
  BY <1>1, <1>6, <1>7, Zenon DEF TypeOK
<1>9. (\A q \in Proc : pc'[q] = IF q = p THEN "resume" ELSE pc[q]) /\ NoProc \notin Proc
  BY <1>6 DEF Moved, Proc, NoProc
<1>10. ThreadsOK'
  <2>1. \A d, e \in CPU : on'[d] # NoProc /\ on'[d] = on'[e] => d = e
    BY <1>7 DEF ThreadsOK
  <2>2. \A q \in Proc : pc'[q] # "resume" \/ state'[q] = "RUNNING" => \E d \in CPU : on'[d] = q
    <3> SUFFICES ASSUME NEW q \in Proc, pc'[q] # "resume" \/ state'[q] = "RUNNING" PROVE \E d \in CPU : on'[d] = q
      OBVIOUS
    <3>1. q # p /\ \E d \in CPU : on[d] = q
      BY <1>1, <1>2, <1>9, Zenon DEF ThreadsOK
    <3> QED BY <1>1, <1>7, <3>1, Zenon
  <2>3. \A d \in CPU : \A q \in Proc : on'[d] = q => state'[q] = "RUNNING" \/ pc'[q] = "sched"
    BY <1>1, <1>2, <1>7, <1>9 DEF ThreadsOK
  <2>4. \A q \in Proc : (pc'[q] = "sched" => state'[q] \in {"SLEEPING", "RUNNABLE", "ZOMBIE"}) /\ pc'[q] # "panic"
    BY <1>1, <1>9 DEF ThreadsOK
  <2> QED BY <2>1, <2>2, <2>3, <2>4, Zenon DEF ThreadsOK
<1>11. LocksOK'
  <2>1. \A d \in CPU : \A q \in Proc :
          plock'[q] = d => \/ on'[d] = q /\ pc'[q] \in OwnPC
                           \/ on'[d] = NoProc /\ pc'[q] = "resume" /\ state'[q] # "RUNNING"
    <3> SUFFICES ASSUME NEW d \in CPU, NEW q \in Proc, plock[q] = d
                 PROVE  \/ on'[d] = q /\ pc'[q] \in OwnPC
                        \/ on'[d] = NoProc /\ pc'[q] = "resume" /\ state[q] # "RUNNING"
      BY <1>1, Zenon
    <3>1. CASE q = p
      BY <1>2, <1>7, <1>9, <3>1, Zenon
    <3>2. CASE q # p
      <4>1. d # c
        BY <1>2, <3>2 DEF LocksOK
      <4> QED BY <1>7, <1>9, <3>2, <4>1 DEF LocksOK
    <3> QED BY <3>1, <3>2, Zenon
  <2>2. \A d \in CPU : \A q \in Proc : on'[d] = q /\ pc'[q] \in OwnPC => plock'[q] = d
    BY <1>1, <1>2, <1>7, <1>9 DEF LocksOK
  <2>3. \A d \in CPU : \A q \in Proc : on'[d] = q /\ pc'[q] \in WaitPC => wait_lock' = d
    BY <1>1, <1>2, <1>7, <1>9 DEF LocksOK
  <2>4. \A d \in CPU : wait_lock' = d => \E q \in Proc : on'[d] = q /\ pc'[q] \in WaitPC
    <3> SUFFICES ASSUME NEW d \in CPU, wait_lock = d PROVE \E q \in Proc : on'[d] = q /\ pc'[q] \in WaitPC
      BY <1>1, Zenon
    <3>1. PICK q \in Proc : on[d] = q /\ pc[q] \in WaitPC
      BY Zenon DEF LocksOK
    <3>2. d # c /\ q # p
      BY <1>1, <1>3, <3>1, Zenon DEF WaitPC
    <3> QED BY <1>7, <1>9, <3>1, <3>2, Zenon
  <2>5. \A d \in CPU : \A x, q \in Proc : plock'[x] = d /\ plock'[q] = d => x = q
    BY <1>1 DEF LocksOK
  <2> QED BY <2>1, <2>2, <2>3, <2>4, <2>5, Zenon DEF LocksOK
<1>12. \A q \in Proc : Place(q)' = Place(q)
  BY <1>1, <1>9, Zenon DEF Place
<1>13. \A q \in Proc : pc'[q] \notin {"sched", "resume"} \/ state'[q] \in {"UNUSED", "USED", "ZOMBIE"} => ret'[q] = "user"
  BY <1>1, <1>9, Zenon DEF PlacesOK
<1> QED BY <1>1, <1>8, <1>9, <1>10, <1>11, <1>12, <1>13, Switch, Zenon

\* A thread that has been switched to releases its lock and goes on where it was.
LEMMA ResumeIInv ==
  ASSUME IInv, NEW c \in CPU, NEW p \in Proc, Resume(c, p)
  PROVE  IInv'
<1> USE DEF IInv
<1>1. PICK l \in NoLockPC : l = ret[p]
  BY Zenon DEF TypeOK
<1>2. /\ on[c] = p /\ pc[p] = "resume"
      /\ chan' = [chan EXCEPT ![p] = NoProc] /\ plock' = [plock EXCEPT ![p] = NoCPU]
      /\ Goto(p, l) /\ ret' = [ret EXCEPT ![p] = "user"]
      /\ UNCHANGED <<state, parent, pid, killed, wait_lock, nextpid, on, i, w, havekids, n>>
  BY <1>1, Zenon DEF Resume, At, locals
<1>3. Moved(p, l) /\ pc' \in [Proc -> PC]
  BY <1>2, MovedByGoto, Zenon DEF PC
<1>4. /\ \A q \in Proc : /\ plock'[q] = IF q = p THEN NoCPU ELSE plock[q]
                         /\ chan'[q] = IF q = p THEN NoProc ELSE chan[q]
                         /\ ret'[q] = IF q = p THEN "user" ELSE ret[q]
      /\ plock' \in [Proc -> CPU \cup {NoCPU}] /\ ret' \in [Proc -> NoLockPC]
      /\ chan' \in [Proc -> Proc \cup {NoProc}]
  BY <1>2, Zenon DEF TypeOK, NoLockPC
<1>5. TypeOK'
  BY <1>2, <1>3, <1>4, Zenon DEF TypeOK
<1>6. \A q \in Proc : pc'[q] = IF q = p THEN l ELSE pc[q]
  BY <1>3, Zenon DEF Moved
<1>7. l \notin OwnPC \cup WaitPC \cup {"panic"} /\ pc[p] \notin WaitPC
  BY <1>2, Zenon DEF NoLockPC, OwnPC, WaitPC
<1>8. state[p] = "RUNNING" /\ \A d \in CPU : on[d] = p => d = c
  BY <1>2, OnCpu, Zenon
<1>9. ThreadsOK'
  <2>1. \A q \in Proc : pc'[q] # "resume" \/ state'[q] = "RUNNING" => \E d \in CPU : on'[d] = q
    BY <1>2, <1>6 DEF ThreadsOK
  <2>2. \A d \in CPU : \A q \in Proc : on'[d] = q => state'[q] = "RUNNING" \/ pc'[q] = "sched"
    BY <1>2, <1>6, <1>8 DEF ThreadsOK
  <2>3. \A q \in Proc : (pc'[q] = "sched" => state'[q] \in {"SLEEPING", "RUNNABLE", "ZOMBIE"}) /\ pc'[q] # "panic"
    BY <1>2, <1>6, <1>7 DEF ThreadsOK, OwnPC
  <2> QED BY <1>2, <2>1, <2>2, <2>3 DEF ThreadsOK
<1>10. LocksOK'
  <2>1. \A d \in CPU : \A q \in Proc :
          plock'[q] = d => \/ on'[d] = q /\ pc'[q] \in OwnPC
                           \/ on'[d] = NoProc /\ pc'[q] = "resume" /\ state'[q] # "RUNNING"
    BY <1>2, <1>4, <1>6, ProcAssumption DEF LocksOK
  <2>2. \A d \in CPU : \A q \in Proc : on'[d] = q /\ pc'[q] \in OwnPC => plock'[q] = d
    BY <1>2, <1>4, <1>6, <1>7 DEF LocksOK
  <2>3. \A d \in CPU : \A q \in Proc : on'[d] = q /\ pc'[q] \in WaitPC => wait_lock' = d
    BY <1>2, <1>6, <1>7 DEF LocksOK
  <2>4. \A d \in CPU : wait_lock' = d => \E q \in Proc : on'[d] = q /\ pc'[q] \in WaitPC
    BY <1>2, <1>6, <1>7, Zenon DEF LocksOK
  <2>5. \A d \in CPU : \A x, q \in Proc : plock'[x] = d /\ plock'[q] = d => x = q
    BY <1>4, ProcAssumption DEF LocksOK
  <2> QED BY <2>1, <2>2, <2>3, <2>4, <2>5, Zenon DEF LocksOK
<1>11. \A q \in Proc : Place(q)' = Place(q)
  BY <1>1, <1>2, <1>4, <1>6, <1>7 DEF Place, OwnPC
<1>12. \A q \in Proc : pc'[q] \notin {"sched", "resume"} \/ state'[q] \in {"UNUSED", "USED", "ZOMBIE"} => ret'[q] = "user"
  BY <1>2, <1>4, <1>6 DEF PlacesOK
<1> QED BY <1>2, <1>4, <1>5, <1>6, <1>8, <1>9, <1>10, <1>11, <1>12, Switch

\* The scheduler switches to a RUNNABLE thread.
LEMMA SchedulerIInv ==
  ASSUME IInv, NEW c \in CPU, NEW q \in Proc, Scheduler(c, q)
  PROVE  IInv'
<1> USE DEF IInv
<1>1. /\ on[c] = NoProc /\ (\A x \in Proc : plock[x] # c) /\ Free(q) /\ state[q] = "RUNNABLE"
      /\ state' = [state EXCEPT ![q] = "RUNNING"] /\ plock' = [plock EXCEPT ![q] = c]
      /\ on' = [on EXCEPT ![c] = q]
      /\ UNCHANGED <<parent, pid, killed, chan, wait_lock, nextpid, pc, ret, i, w, havekids, n>>
  BY Zenon DEF Scheduler, Held, locals
<1>2. pc[q] = "resume" /\ \A d \in CPU : on[d] # q
  BY <1>1, FreeSlot, Zenon
<1>3. /\ \A x \in Proc : /\ state'[x] = IF x = q THEN "RUNNING" ELSE state[x]
                         /\ plock'[x] = IF x = q THEN c ELSE plock[x]
      /\ \A d \in CPU : on'[d] = IF d = c THEN q ELSE on[d]
      /\ state' \in [Proc -> {"UNUSED", "USED", "SLEEPING", "RUNNABLE", "RUNNING", "ZOMBIE"}]
      /\ plock' \in [Proc -> CPU \cup {NoCPU}] /\ on' \in [CPU -> Proc \cup {NoProc}]
  BY <1>1, Zenon DEF TypeOK
<1>4. TypeOK'
  BY <1>1, <1>3, Zenon DEF TypeOK
<1>5. NoProc \notin Proc /\ "resume" \in OwnPC \ WaitPC
  BY DEF Proc, NoProc, OwnPC, WaitPC
<1>6. ThreadsOK'
  <2>1. \A d, e \in CPU : on'[d] # NoProc /\ on'[d] = on'[e] => d = e
    BY <1>2, <1>3 DEF ThreadsOK
  <2>2. \A x \in Proc : pc'[x] # "resume" \/ state'[x] = "RUNNING" => \E d \in CPU : on'[d] = x
    <3> SUFFICES ASSUME NEW x \in Proc, pc[x] # "resume" \/ state'[x] = "RUNNING" PROVE \E d \in CPU : on'[d] = x
      BY <1>1, Zenon
    <3>1. CASE x = q
      BY <1>3, <3>1, Zenon
    <3>2. CASE x # q
      <4>1. PICK d \in CPU : on[d] = x
        BY <1>3, <3>2, Zenon DEF ThreadsOK
      <4> QED BY <1>1, <1>3, <1>5, <4>1, Zenon
    <3> QED BY <3>1, <3>2, Zenon
  <2>3. \A d \in CPU : \A x \in Proc : on'[d] = x => state'[x] = "RUNNING" \/ pc'[x] = "sched"
    BY <1>1, <1>3 DEF ThreadsOK
  <2>4. \A x \in Proc : (pc'[x] = "sched" => state'[x] \in {"SLEEPING", "RUNNABLE", "ZOMBIE"}) /\ pc'[x] # "panic"
    BY <1>1, <1>2, <1>3 DEF ThreadsOK
  <2> QED BY <2>1, <2>2, <2>3, <2>4, Zenon DEF ThreadsOK
<1>7. LocksOK'
  <2>1. \A d \in CPU : \A x \in Proc :
          plock'[x] = d => \/ on'[d] = x /\ pc'[x] \in OwnPC
                           \/ on'[d] = NoProc /\ pc'[x] = "resume" /\ state'[x] # "RUNNING"
    <3> SUFFICES ASSUME NEW d \in CPU, NEW x \in Proc, plock'[x] = d
                 PROVE  \/ on'[d] = x /\ pc[x] \in OwnPC
                        \/ on'[d] = NoProc /\ pc[x] = "resume" /\ state'[x] # "RUNNING"
      BY <1>1
    <3>1. CASE x = q
      BY <1>2, <1>3, <1>5, <3>1, Zenon
    <3>2. CASE x # q
      BY <1>1, <1>3, <3>2 DEF LocksOK
    <3> QED BY <3>1, <3>2, Zenon
  <2>2. \A d \in CPU : \A x \in Proc : on'[d] = x /\ pc'[x] \in OwnPC => plock'[x] = d
    BY <1>1, <1>2, <1>3 DEF LocksOK
  <2>3. \A d \in CPU : \A x \in Proc : on'[d] = x /\ pc'[x] \in WaitPC => wait_lock' = d
    BY <1>1, <1>2, <1>3, <1>5 DEF LocksOK
  <2>4. \A d \in CPU : wait_lock' = d => \E x \in Proc : on'[d] = x /\ pc'[x] \in WaitPC
    BY <1>1, <1>3, <1>5 DEF LocksOK
  <2>5. \A d \in CPU : \A x, y \in Proc : plock'[x] = d /\ plock'[y] = d => x = y
    BY <1>1, <1>3 DEF LocksOK
  <2> QED BY <2>1, <2>2, <2>3, <2>4, <2>5, Zenon DEF LocksOK
<1>8. \A x \in Proc : Place(x)' = Place(x)
  BY <1>1, Zenon DEF Place
<1>9. \A x \in Proc : pc'[x] \notin {"sched", "resume"} \/ state'[x] \in {"UNUSED", "USED", "ZOMBIE"} => ret'[x] = "user"
  BY <1>1, <1>3 DEF PlacesOK
<1> QED BY <1>1, <1>3, <1>4, <1>6, <1>7, <1>8, <1>9, Switch, Zenon

\* The scheduler releases the lock of the thread it has come back from.
LEMMA SchedulerBackIInv ==
  ASSUME IInv, NEW c \in CPU, NEW q \in Proc, SchedulerBack(c, q)
  PROVE  IInv'
<1> USE DEF IInv
<1>1. /\ on[c] = NoProc /\ plock[q] = c /\ plock' = [plock EXCEPT ![q] = NoCPU]
      /\ UNCHANGED <<state, parent, pid, killed, chan, wait_lock, nextpid, on, pc, ret, i, w, havekids, n>>
  BY Zenon DEF SchedulerBack, slotvars, locals
<1>2. /\ \A x \in Proc : plock'[x] = IF x = q THEN NoCPU ELSE plock[x]
      /\ plock' \in [Proc -> CPU \cup {NoCPU}]
  BY <1>1, Zenon DEF TypeOK
<1>3. TypeOK'
  BY <1>1, <1>2, Zenon DEF TypeOK
<1>4. ThreadsOK'
  BY <1>1 DEF ThreadsOK
<1>5. LocksOK'
  <2>1. \A d \in CPU : \A x \in Proc :
          plock'[x] = d => \/ on'[d] = x /\ pc'[x] \in OwnPC
                           \/ on'[d] = NoProc /\ pc'[x] = "resume" /\ state'[x] # "RUNNING"
    BY <1>1, <1>2, ProcAssumption DEF LocksOK
  <2>2. \A d \in CPU : \A x \in Proc : on'[d] = x /\ pc'[x] \in OwnPC => plock'[x] = d
    <3>1. \A d \in CPU : \A x \in Proc : on[d] = x /\ pc[x] \in OwnPC => plock[x] = d /\ d # c
      BY <1>1 DEF LocksOK, Proc, NoProc
    <3> QED BY <1>1, <1>2, <3>1, Zenon
  <2>3. \A d \in CPU : \A x, y \in Proc : plock'[x] = d /\ plock'[y] = d => x = y
    BY <1>2, ProcAssumption DEF LocksOK
  <2>4. \A d \in CPU : \A x \in Proc : on'[d] = x /\ pc'[x] \in WaitPC => wait_lock' = d
    BY <1>1, Zenon DEF LocksOK
  <2>5. \A d \in CPU : wait_lock' = d => \E x \in Proc : on'[d] = x /\ pc'[x] \in WaitPC
    BY <1>1, Zenon DEF LocksOK
  <2> QED BY <2>1, <2>2, <2>3, <2>4, <2>5, Zenon DEF LocksOK
<1>6. \A x \in Proc : Place(x)' = Place(x)
  BY <1>1, Zenon DEF Place
<1>7. \A x \in Proc : pc'[x] \notin {"sched", "resume"} \/ state'[x] \in {"UNUSED", "USED", "ZOMBIE"} => ret'[x] = "user"
  BY <1>1, Zenon DEF PlacesOK
<1> QED BY <1>1, <1>3, <1>4, <1>5, <1>6, <1>7, Switch, Zenon

-----------------------------------------------------------------------------
\* Every step of a CPU keeps the invariant.
LEMMA StepIInv == IInv /\ [Next]_vars => IInv'
<1> SUFFICES ASSUME IInv, [Next]_vars PROVE IInv'
  OBVIOUS
<1>1. CASE Next
  <2>1. PICK c \in CPU, p \in Proc :
          \/ Scheduler(c, p) \/ SchedulerBack(c, p) \/ Sched(c, p) \/ Resume(c, p)
          \/ Yield(c, p)
          \/ Fork(c, p) \/ Exit(c, p) \/ Wait(c, p)
          \/ \E m \in KillPids : KillCall(c, p, m)
          \/ Step(c, p)
    BY <1>1, Zenon DEF Next
  <2>2. CASE Scheduler(c, p) \/ SchedulerBack(c, p)
    BY <2>2, SchedulerIInv, SchedulerBackIInv, Zenon
  <2>3. CASE Sched(c, p) \/ Resume(c, p) \/ Yield(c, p)
    BY <2>3, SchedIInv, ResumeIInv, YieldIInv, Zenon
  <2>4. CASE Fork(c, p) \/ Exit(c, p) \/ Wait(c, p)
    <3>1. PICK l \in {"alloc", "wait", "exit"} :
            /\ on[c] = p /\ pc[p] = "user" /\ Goto(p, l) /\ (l = "exit" => p # initproc)
            /\ UNCHANGED <<slotvars, plock, wait_lock, nextpid, on, ret, i, w, havekids, n>>
      BY <2>4, Zenon DEF Fork, Exit, Wait, Call, At, locals
    <3>2. n' \in [Proc -> Nat]
      BY <3>1, Zenon DEF IInv, TypeOK
    <3> QED BY <3>1, <3>2, CallIInv, Zenon
  <2>5. CASE \E m \in KillPids : KillCall(c, p, m)
    <3>1. PICK m \in KillPids : KillCall(c, p, m)
      BY <2>5, Zenon
    <3>2. n' \in [Proc -> Nat]
      BY <3>1, ProcAssumption, Zenon DEF KillCall, IInv, TypeOK
    <3> QED BY <3>1, <3>2, CallIInv, Zenon DEF KillCall, At
  <2>6. CASE Step(c, p)
    <3>1. CASE PushOff(c, p)
      BY <3>1, PushOffIInv, Zenon
    <3>2. CASE AllocNext(c, p) \/ KillNext(c, p)
      BY <3>2, LoopIInv, Zenon
    <3>3. CASE AllocFails(c, p)
      BY <3>3, FreeProcIInv, Zenon DEF AllocFails, At
    <3>4. CASE Alloc(c, p) \/ ForkSetParent(c, p) \/ ForkRunnable(c, p) \/ Kill(c, p)
      BY <3>4, AllocIInv, ForkSetParentIInv, ForkRunnableIInv, KillIInv, Zenon
    <3>5. CASE ExitAcquire(c, p) \/ WaitAcquire(c, p)
      BY <3>5, AcquireIInv, Zenon
    <3>6. CASE Reparent(c, p)
      BY <3>6, ReparentIInv, Zenon
    <3>7. CASE WakeInit(c, p)
      <4>1. on[c] = p /\ pc[p] = "wakeinit" /\ UNCHANGED <<plock, wait_lock, nextpid, on, ret, i, havekids, n>>
        BY <3>7, Zenon DEF WakeInit, At
      <4>2. CASE WakeSlot(p, initproc) /\ UNCHANGED pc
        BY <4>1, <4>2, WakeSlotIInv, Zenon
      <4>3. CASE WakeEnd(p) /\ Goto(p, "reparent") /\ UNCHANGED slotvars
        BY <4>1, <4>3, WakeEndIInv, Zenon
      <4> QED BY <3>7, <4>2, <4>3, Zenon DEF WakeInit
    <3>8. CASE WakeParent(c, p)
      BY <3>8, WakeSlotIInv, WakeEndIInv, Zenon DEF WakeParent, ExitWakes, At
    <3>9. CASE ExitLock(c, p) \/ SleepLock(c, p)
      BY <3>9, TakeOwnLockIInv, Zenon
    <3>10. CASE ExitZombie(c, p) \/ Sleep(c, p)
      BY <3>10, ExitZombieIInv, SleepIInv, Zenon
    <3>11. CASE ScanNext(c, p) \/ ScanEnd(c, p)
      BY <3>11, ScanNextIInv, ScanEndIInv, Zenon
    <3>12. CASE Reap(c, p)
      <4>1. CASE freeproc(i[p])
        BY <3>12, <4>1, FreeProcIInv, Zenon DEF Reap, WaitReturn, At
      <4>2. CASE UNCHANGED slotvars
        BY <3>12, <4>2, WaitReturnIInv, Zenon DEF Reap, At
      <4> QED BY <3>12, <4>1, <4>2, Zenon DEF Reap
    <3> QED BY <2>6, <3>1, <3>2, <3>3, <3>4, <3>5, <3>6, <3>7, <3>8, <3>9, <3>10, <3>11, <3>12, Zenon DEF Step
  <2> QED BY <2>1, <2>2, <2>3, <2>4, <2>5, <2>6, Zenon
<1>2. CASE UNCHANGED vars
  <2>1. UNCHANGED <<state, parent, pid, killed, chan, plock, wait_lock, nextpid, on, pc, ret, i, w, havekids, n>>
    BY <1>2, Zenon DEF vars, slotvars, locals
  <2>2. TypeOK' /\ ThreadsOK' /\ LocksOK'
    BY <2>1 DEF IInv, TypeOK, ThreadsOK, LocksOK
  <2>3. \A x \in Proc : Place(x)' = Place(x)
    BY <2>1, Zenon DEF Place
  <2>4. PlacesOK' /\ ForkOK' /\ PidsOK' /\ FamilyOK' /\ WaitOK'
    <3>1. \A x \in Proc : pc'[x] \notin {"sched", "resume"} \/ state'[x] \in {"UNUSED", "USED", "ZOMBIE"} => ret'[x] = "user"
      BY <2>1, Zenon DEF IInv, PlacesOK
    <3> QED BY <2>1, <2>3, <3>1, Switch, Zenon
  <2> QED BY <2>2, <2>4, Zenon DEF IInv
<1> QED BY <1>1, <1>2, Zenon

\* The inductive invariant of the process table holds in every reachable state, for
\* any number of CPUs and slots.
THEOREM ProcInvariant == Spec => []IInv
BY InitIInv, StepIInv, PTL DEF Spec

\* The checks of sched never fail (proc.c:480-487): whoever comes there holds its
\* own p->lock and nothing else, and is not RUNNING.
THEOREM SchedChecksHold == Spec => []SchedNeverPanics
<1>1. IInv => SchedNeverPanics
  BY Zenon DEF IInv, ThreadsOK, SchedNeverPanics
<1> QED BY <1>1, ProcInvariant, PTL

\* No thread is executed by two CPUs, since its p->lock is held from before its
\* state changes until its registers are saved (proc.c:441-474, 476-512).
THEOREM ThreadsRunOnce == Spec => []OneCpuPerThread
<1>1. IInv => OneCpuPerThread
  <2> SUFFICES ASSUME IInv, NEW c \in CPU, NEW p \in Proc, on[c] = p
               PROVE  /\ \A d \in CPU \ {c} : on[d] # p
                      /\ state[p] # "RUNNING" => plock[p] = c /\ pc[p] = "sched"
    BY Zenon DEF OneCpuPerThread
  <2>1. \A d \in CPU : on[d] = p => d = c
    BY OnCpu, Zenon
  <2>2. state[p] # "RUNNING" => pc[p] = "sched"
    BY OnCpu, Zenon
  <2>3. pc[p] = "sched" => plock[p] = c
    BY Zenon DEF IInv, LocksOK, OwnPC
  <2> QED BY <2>1, <2>2, <2>3, Zenon
<1> QED BY <1>1, ProcInvariant, PTL

\* Pids are unique, parents are alive, and no wakeup between exit and wait is lost
\* (proc.c:104-167, 323-428).
THEOREM FamiliesAreSound == Spec => []FamilySound
<1>1. IInv => FamilySound
  <2> SUFFICES ASSUME IInv PROVE NobodySleepsOnZombie
    BY Zenon DEF IInv, PidsOK, FamilyOK, FamilySound
  <2> SUFFICES ASSUME NEW p \in Proc, NEW q \in Proc, parent[q] = p, state[q] = "ZOMBIE",
                      wait_lock = NoCPU, state[p] = "SLEEPING"
               PROVE  FALSE
    BY Zenon DEF NobodySleepsOnZombie
  <2>1. PICK e \in Proc : pc[e] = "wakeinit"
    BY Zenon DEF IInv, WaitOK
  <2>2. PICK c \in CPU : on[c] = e
    BY <2>1, Zenon DEF IInv, ThreadsOK
  <2>3. wait_lock = c
    BY <2>1, <2>2 DEF IInv, LocksOK, WaitPC
  <2> QED BY <2>3, ProcAssumption, Zenon
<1> QED BY <1>1, ProcInvariant, PTL
=============================================================================
