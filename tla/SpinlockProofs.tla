--------------------------- MODULE SpinlockProofs ---------------------------
(***************************************************************************)
(* Proofs about kernel/spinlock.c, for any number of CPUs, locks and       *)
(* nested push_offs.  First the locks: mutual exclusion, and acquire and   *)
(* release as atomic steps.  Then the interrupt side: no panic, no         *)
(* deadlock of a CPU with itself, and interrupts restored as they were.    *)
(***************************************************************************)
EXTENDS Spinlock, FiniteSetTheorems, TLAPS

\* lk->cpu names x's CPU: from SetCpu until ClearCpu.
Marked(x, l) == l \in held[x] /\ ~ (lk[x] = l /\ pc[x] \in {"setcpu", "unlock"})

\* The argument of the call under way is, or is not yet, held.
LkOK(x) ==
  /\ pc[x] = "pushoff" => lk[x] \notin held[x]
  /\ pc[x] \in {"locked?", "cpu?", "tas"} => lk[x] \in Lock \ held[x]
  /\ pc[x] \in {"setcpu", "clearcpu", "unlock"} => lk[x] \in held[x]

LockedIffHeld == \A l \in Lock : locked[l] = 1 <=> \E x \in Ctx : l \in held[x]

OwnerIsHolder ==
  \A l \in Lock, c \in CPU :
    owner[l] = c <=> \E x \in Ctx : x[1] = c /\ Marked(x, l)

\* The state of the locks, whatever interrupts do.
LockInv ==
  /\ TypeOK
  /\ \A x \in Ctx : LkOK(x)
  /\ LockedIffHeld
  /\ MutualExclusion
  /\ OwnerIsHolder

\* Every context belongs to a CPU and is one of its two.
LEMMA Contexts ==
  /\ \A c \in CPU : /\ Thread(c) \in Ctx /\ Thread(c)[1] = c /\ Thread(c)[2] = "thread"
                    /\ Intr(c) \in Ctx /\ Intr(c)[1] = c /\ Intr(c)[2] = "intr"
                    /\ Thread(c) # Intr(c)
  /\ \A x \in Ctx : x[1] \in CPU /\ (x = Thread(x[1]) \/ x = Intr(x[1]))
BY DEF Ctx, Thread, Intr

\* Before anything runs every lock is free (initlock).
LEMMA LockInvInit == Init => LockInv
<1> SUFFICES ASSUME Init PROVE LockInv
  OBVIOUS
<1> USE SpinlockAssumption, Contexts
<1>1. TypeOK
  BY Zenon DEF Init, TypeOK, PC
<1>2. \A x \in Ctx : LkOK(x)
  BY Zenon DEF Init, LkOK
<1>3. LockedIffHeld /\ MutualExclusion
  BY DEF Init, LockedIffHeld, MutualExclusion
<1>4. OwnerIsHolder
  BY Zenon DEF Init, OwnerIsHolder, Marked
<1> QED BY <1>1, <1>2, <1>3, <1>4, Zenon DEF LockInv

\* No step breaks the state of the locks.
LEMMA LockInvNext == LockInv /\ [Next]_vars => LockInv'
<1> SUFFICES ASSUME LockInv, [Next]_vars PROVE LockInv'
  OBVIOUS
<1> USE SpinlockAssumption, Contexts DEF LockInv
<1>1. ASSUME NEW x \in Ctx, NEW l \in Lock \cup {NoLock}, PushOffGet(x, l) PROVE LockInv'
  <2>1. TypeOK'
    BY <1>1 DEF PushOffGet, lockvars, cpuvars, At, Goto, TypeOK, PC
  <2>2. ASSUME NEW y \in Ctx PROVE LkOK(y)'
    BY <1>1 DEF PushOffGet, lockvars, cpuvars, At, Goto, TypeOK, LkOK, Lock, NoLock
  <2>3. LockedIffHeld' /\ MutualExclusion'
    BY <1>1, Zenon DEF PushOffGet, lockvars, cpuvars, LockedIffHeld, MutualExclusion
  <2>4. OwnerIsHolder'
    <3>1. ASSUME NEW y \in Ctx, NEW m \in Lock PROVE Marked(y, m)' <=> Marked(y, m)
      BY <1>1 DEF PushOffGet, lockvars, cpuvars, At, Goto, TypeOK, Marked
    <3> QED BY <1>1, <3>1 DEF PushOffGet, lockvars, cpuvars, OwnerIsHolder
  <2> QED BY <2>1, <2>2, <2>3, <2>4, Zenon
<1>2. ASSUME NEW x \in Ctx, PushOff(x) PROVE LockInv'
  <2>1. TypeOK'
    <3>1. intr' \in [CPU -> BOOLEAN]
      BY <1>2, Zenon DEF PushOff, IntrOff, TypeOK
    <3>2. intena' \in [CPU -> BOOLEAN]
      BY <1>2, Zenon DEF PushOff, SaveIntena, TypeOK
    <3>3. old' \in [Ctx -> BOOLEAN]
      BY <1>2, Zenon DEF PushOff, TypeOK
    <3>4. noff' \in [CPU -> Nat]
      BY <1>2 DEF PushOff, TypeOK
    <3>5. pc' \in [Ctx -> PC]
      <4>1. pc \in [Ctx -> PC] /\ "run" \in PC /\ "locked?" \in PC
        BY Zenon DEF TypeOK, PC
      <4> QED BY <1>2, <4>1 DEF PushOff, Goto
    <3>6. pushed' \in [Ctx -> Nat]
      BY <1>2 DEF PushOff, TypeOK
    <3> QED BY <1>2, <3>1, <3>2, <3>3, <3>4, <3>5, <3>6, Zenon DEF PushOff, lockvars, TypeOK
  <2>2. ASSUME NEW y \in Ctx PROVE LkOK(y)'
    BY <1>2 DEF PushOff, lockvars, cpuvars, At, Goto, IntrOff, SaveIntena, TypeOK, LkOK, Lock, NoLock
  <2>3. LockedIffHeld' /\ MutualExclusion'
    BY <1>2, Zenon DEF PushOff, lockvars, cpuvars, LockedIffHeld, MutualExclusion
  <2>4. OwnerIsHolder'
    <3>1. ASSUME NEW y \in Ctx, NEW m \in Lock PROVE Marked(y, m)' <=> Marked(y, m)
      BY <1>2 DEF PushOff, lockvars, cpuvars, At, Goto, IntrOff, SaveIntena, TypeOK, Marked
    <3> QED BY <1>2, <3>1 DEF PushOff, lockvars, cpuvars, OwnerIsHolder
  <2> QED BY <2>1, <2>2, <2>3, <2>4, Zenon
<1>3. ASSUME NEW x \in Ctx, HoldingLocked(x) PROVE LockInv'
  <2>1. TypeOK'
    BY <1>3, Zenon DEF HoldingLocked, lockvars, cpuvars, At, Goto, TypeOK, PC
  <2>2. ASSUME NEW y \in Ctx PROVE LkOK(y)'
    BY <1>3 DEF HoldingLocked, lockvars, cpuvars, At, Goto, TypeOK, LkOK, Lock, NoLock
  <2>3. LockedIffHeld' /\ MutualExclusion'
    BY <1>3, Zenon DEF HoldingLocked, lockvars, cpuvars, LockedIffHeld, MutualExclusion
  <2>4. OwnerIsHolder'
    <3>1. ASSUME NEW y \in Ctx, NEW m \in Lock PROVE Marked(y, m)' <=> Marked(y, m)
      BY <1>3 DEF HoldingLocked, lockvars, cpuvars, At, Goto, TypeOK, Marked
    <3> QED BY <1>3, <3>1 DEF HoldingLocked, lockvars, cpuvars, OwnerIsHolder
  <2> QED BY <2>1, <2>2, <2>3, <2>4, Zenon
<1>4. ASSUME NEW x \in Ctx, HoldingCpu(x) PROVE LockInv'
  <2>1. TypeOK'
    BY <1>4, Zenon DEF HoldingCpu, lockvars, cpuvars, At, Goto, TypeOK, PC
  <2>2. ASSUME NEW y \in Ctx PROVE LkOK(y)'
    BY <1>4 DEF HoldingCpu, lockvars, cpuvars, At, Goto, TypeOK, LkOK, Lock, NoLock
  <2>3. LockedIffHeld' /\ MutualExclusion'
    BY <1>4, Zenon DEF HoldingCpu, lockvars, cpuvars, LockedIffHeld, MutualExclusion
  <2>4. OwnerIsHolder'
    <3>1. ASSUME NEW y \in Ctx, NEW m \in Lock PROVE Marked(y, m)' <=> Marked(y, m)
      BY <1>4 DEF HoldingCpu, lockvars, cpuvars, At, Goto, TypeOK, Marked
    <3> QED BY <1>4, <3>1 DEF HoldingCpu, lockvars, cpuvars, OwnerIsHolder
  <2> QED BY <2>1, <2>2, <2>3, <2>4, Zenon
<1>5. ASSUME NEW x \in Ctx, TestAndSet(x) PROVE LockInv'
  <2>1. TypeOK'
    BY <1>5 DEF TestAndSet, lockvars, cpuvars, At, Goto, TypeOK, PC, LkOK
  <2>2. ASSUME NEW y \in Ctx PROVE LkOK(y)'
    BY <1>5 DEF TestAndSet, lockvars, cpuvars, At, Goto, TypeOK, LkOK, Lock, NoLock
  <2>3. LockedIffHeld' /\ MutualExclusion'
    BY <1>5 DEF TestAndSet, lockvars, cpuvars, At, Goto, TypeOK, LkOK, LockedIffHeld, MutualExclusion
  <2>4. OwnerIsHolder'
    BY <1>5 DEF TestAndSet, lockvars, cpuvars, At, Goto, TypeOK, LkOK, LockedIffHeld, MutualExclusion, OwnerIsHolder, Marked
  <2> QED BY <2>1, <2>2, <2>3, <2>4, Zenon
<1>6. ASSUME NEW x \in Ctx, SetCpu(x) PROVE LockInv'
  <2>1. TypeOK'
    BY <1>6, ZenonT(60) DEF SetCpu, lockvars, cpuvars, At, Goto, TypeOK, PC
  <2>2. ASSUME NEW y \in Ctx PROVE LkOK(y)'
    BY <1>6 DEF SetCpu, lockvars, cpuvars, At, Goto, TypeOK, LkOK, Lock, NoLock
  <2>3. LockedIffHeld' /\ MutualExclusion'
    BY <1>6, Zenon DEF SetCpu, lockvars, cpuvars, LockedIffHeld, MutualExclusion
  <2>4. OwnerIsHolder'
    BY <1>6 DEF SetCpu, lockvars, cpuvars, At, Goto, TypeOK, LkOK, LockedIffHeld, MutualExclusion, OwnerIsHolder, Marked
  <2> QED BY <2>1, <2>2, <2>3, <2>4, Zenon
<1>7. ASSUME NEW x \in Ctx, NEW l \in Lock, ReleaseCheck(x, l) PROVE LockInv'
  <2>1. TypeOK'
    BY <1>7, Zenon DEF ReleaseCheck, lockvars, cpuvars, At, Goto, TypeOK, PC
  <2>2. ASSUME NEW y \in Ctx PROVE LkOK(y)'
    BY <1>7 DEF ReleaseCheck, lockvars, cpuvars, At, Goto, TypeOK, LkOK, Lock, NoLock
  <2>3. LockedIffHeld' /\ MutualExclusion'
    BY <1>7 DEF ReleaseCheck, lockvars, cpuvars, LockedIffHeld, MutualExclusion
  <2>4. OwnerIsHolder'
    <3>1. ASSUME NEW y \in Ctx, NEW m \in Lock PROVE Marked(y, m)' <=> Marked(y, m)
      BY <1>7 DEF ReleaseCheck, lockvars, cpuvars, At, Goto, TypeOK, Marked
    <3> QED BY <1>7, <3>1 DEF ReleaseCheck, lockvars, cpuvars, OwnerIsHolder
  <2> QED BY <2>1, <2>2, <2>3, <2>4, Zenon
<1>8. ASSUME NEW x \in Ctx, ClearCpu(x) PROVE LockInv'
  <2>1. TypeOK'
    BY <1>8, ZenonT(60) DEF ClearCpu, lockvars, cpuvars, At, Goto, TypeOK, PC
  <2>2. ASSUME NEW y \in Ctx PROVE LkOK(y)'
    BY <1>8 DEF ClearCpu, lockvars, cpuvars, At, Goto, TypeOK, LkOK, Lock, NoLock
  <2>3. LockedIffHeld' /\ MutualExclusion'
    BY <1>8, Zenon DEF ClearCpu, lockvars, cpuvars, LockedIffHeld, MutualExclusion
  <2>4. OwnerIsHolder'
    BY <1>8 DEF ClearCpu, lockvars, cpuvars, At, Goto, TypeOK, LkOK, LockedIffHeld, MutualExclusion, OwnerIsHolder, Marked
  <2> QED BY <2>1, <2>2, <2>3, <2>4, Zenon
<1>9. ASSUME NEW x \in Ctx, Unlock(x) PROVE LockInv'
  <2>1. TypeOK'
    BY <1>9, ZenonT(60) DEF Unlock, lockvars, cpuvars, At, Goto, TypeOK, PC
  <2>2. ASSUME NEW y \in Ctx PROVE LkOK(y)'
    BY <1>9 DEF Unlock, lockvars, cpuvars, At, Goto, TypeOK, LkOK, Lock, NoLock
  <2>3. LockedIffHeld' /\ MutualExclusion'
    BY <1>9 DEF Unlock, lockvars, cpuvars, At, Goto, TypeOK, LkOK, LockedIffHeld, MutualExclusion
  <2>4. OwnerIsHolder'
    BY <1>9 DEF Unlock, lockvars, cpuvars, At, Goto, TypeOK, LkOK, LockedIffHeld, MutualExclusion, OwnerIsHolder, Marked
  <2> QED BY <2>1, <2>2, <2>3, <2>4, Zenon
<1>10. ASSUME NEW x \in Ctx, PopOffCall(x) PROVE LockInv'
  <2>1. TypeOK'
    BY <1>10, SMTT(60) DEF PopOffCall, lockvars, cpuvars, At, Goto, TypeOK, PC
  <2>2. ASSUME NEW y \in Ctx PROVE LkOK(y)'
    BY <1>10 DEF PopOffCall, lockvars, cpuvars, At, Goto, TypeOK, LkOK, Lock, NoLock
  <2>3. LockedIffHeld' /\ MutualExclusion'
    BY <1>10, Zenon DEF PopOffCall, lockvars, cpuvars, LockedIffHeld, MutualExclusion
  <2>4. OwnerIsHolder'
    <3>1. ASSUME NEW y \in Ctx, NEW m \in Lock PROVE Marked(y, m)' <=> Marked(y, m)
      BY <1>10, SMTT(60) DEF PopOffCall, lockvars, cpuvars, At, Goto, TypeOK, Marked
    <3> QED BY <1>10, <3>1 DEF PopOffCall, lockvars, cpuvars, OwnerIsHolder
  <2> QED BY <2>1, <2>2, <2>3, <2>4, Zenon
<1>11. ASSUME NEW x \in Ctx, PopOff(x) PROVE LockInv'
  <2>1. TypeOK'
    <3>1. intr' \in [CPU -> BOOLEAN]
      BY <1>11, SMTT(60) DEF PopOff, TypeOK
    <3>2. pc' \in [Ctx -> PC] /\ lk' \in [Ctx -> Lock \cup {NoLock}]
      BY <1>11 DEF PopOff, Goto, TypeOK, PC
    <3>3. noff' \in [CPU -> Nat]
      <4>1. noff \in [CPU -> Nat] /\ x[1] \in CPU
        BY Zenon DEF TypeOK
      <4> QED BY <1>11, <4>1 DEF PopOff, Uncount
    <3> QED BY <1>11, <3>1, <3>2, <3>3, Zenon DEF PopOff, lockvars, TypeOK
  <2>2. ASSUME NEW y \in Ctx PROVE LkOK(y)'
    BY <1>11 DEF PopOff, lockvars, cpuvars, At, Goto, Uncount, TypeOK, LkOK, Lock, NoLock
  <2>3. LockedIffHeld' /\ MutualExclusion'
    BY <1>11, Zenon DEF PopOff, lockvars, cpuvars, LockedIffHeld, MutualExclusion
  <2>4. OwnerIsHolder'
    <3>1. ASSUME NEW y \in Ctx, NEW m \in Lock PROVE Marked(y, m)' <=> Marked(y, m)
      BY <1>11 DEF PopOff, lockvars, cpuvars, At, Goto, Uncount, TypeOK, Marked
    <3> QED BY <1>11, <3>1 DEF PopOff, lockvars, cpuvars, OwnerIsHolder
  <2> QED BY <2>1, <2>2, <2>3, <2>4, Zenon
<1>12. ASSUME NEW c \in CPU,
             TrapEnter(c) \/ TrapReturn(c) \/ UserTrapIntrOn(c) \/ UserTrapRetIntrOff(c)
      PROVE  LockInv'
  <2>1. TypeOK'
    <3>1. intr' \in [CPU -> BOOLEAN] /\ inIntr' \in [CPU -> BOOLEAN]
      <4>1. intr \in [CPU -> BOOLEAN] /\ inIntr \in [CPU -> BOOLEAN]
        BY Zenon DEF TypeOK
      <4>2. CASE TrapEnter(c) \/ TrapReturn(c)
        BY <4>1, <4>2, Zenon DEF TrapEnter, TrapReturn
      <4>3. CASE UserTrapIntrOn(c) \/ UserTrapRetIntrOff(c)
        BY <4>1, <4>3, Zenon DEF UserTrapIntrOn, UserTrapRetIntrOff, IntrOff
      <4> QED BY <1>12, <4>2, <4>3, Zenon
    <3> QED BY <1>12, <3>1, SMTT(60) DEF TrapEnter, TrapReturn, UserTrapIntrOn, UserTrapRetIntrOff,
                               lockvars, TypeOK
  <2>2. UNCHANGED <<locked, owner, pc, lk, held>>
    BY <1>12, Zenon DEF TrapEnter, TrapReturn, UserTrapIntrOn, UserTrapRetIntrOff, lockvars
  <2> QED BY <2>1, <2>2, SMTT(60) DEF LkOK, LockedIffHeld, MutualExclusion, OwnerIsHolder, Marked
<1>13. CASE UNCHANGED vars
  BY <1>13 DEF vars, lockvars, cpuvars, TypeOK, LkOK, LockedIffHeld, MutualExclusion, OwnerIsHolder, Marked
<1> QED BY <1>1, <1>2, <1>3, <1>4, <1>5, <1>6, <1>7, <1>8, <1>9, <1>10, <1>11, <1>12, <1>13, Zenon DEF Next, Step, GiveBack

\* In every reachable state the locks are as described.
THEOREM LocksOK == Spec => []LockInv
  BY LockInvInit, LockInvNext, PTL DEF Spec

\* acquire gives a lock to one context at a time.
THEOREM OneHolder == Spec => []MutualExclusion
  BY LocksOK, PTL DEF LockInv

-----------------------------------------------------------------------------
HolderIn(H, l) ==
  IF \E x \in Ctx : l \in H[x] THEN (CHOOSE x \in Ctx : l \in H[x])[1] ELSE NoCPU

\* When contexts exclude each other the holder is the one that has the lock.
LEMMA HolderFacts ==
  ASSUME NEW H, \A x, y \in Ctx : x # y => H[x] \cap H[y] = {}, NEW l
  PROVE  /\ (\A x \in Ctx : l \notin H[x]) => HolderIn(H, l) = NoCPU
         /\ \A x \in Ctx : l \in H[x] => HolderIn(H, l) = x[1]
<1>1. ASSUME NEW x \in Ctx, l \in H[x] PROVE HolderIn(H, l) = x[1]
  <2>1. \A y \in Ctx : l \in H[y] => y = x
    BY <1>1, Zenon
  <2>2. (CHOOSE y \in Ctx : l \in H[y]) = x
    BY <1>1, <2>1, Zenon
  <2> QED BY <1>1, <2>2, Zenon DEF HolderIn
<1> QED BY <1>1, Zenon DEF HolderIn

\* Only the holder of a lock that changes hands changes.
LEMMA HolderUnchanged ==
  ASSUME NEW H, \A x, y \in Ctx : x # y => H[x] \cap H[y] = {},
         NEW K, \A x, y \in Ctx : x # y => K[x] \cap K[y] = {},
         NEW l, \A x \in Ctx : l \in K[x] <=> l \in H[x]
  PROVE  HolderIn(K, l) = HolderIn(H, l)
<1>1. CASE \E x \in Ctx : l \in H[x]
  BY <1>1, HolderFacts, SMTT(60)
<1>2. CASE \A x \in Ctx : l \notin H[x]
  BY <1>2, HolderFacts, SMTT(60)
<1> QED BY <1>1, <1>2, Zenon

\* The winning test-and-set and the release of lk->locked are the steps of the
\* abstract lock; no other step changes who holds what.
LEMMA AtomicStep ==
  LockInv /\ LockInv' /\ [Next]_vars => AL!Next \/ held' = held
<1> SUFFICES ASSUME LockInv, LockInv', [Next]_vars
             PROVE  AL!Next \/ held' = held
  OBVIOUS
<1> DEFINE h == [l \in Lock |-> HolderIn(held, l)]
           k == [l \in Lock |-> HolderIn(held', l)]
<1>0. /\ TypeOK
      /\ \A x, y \in Ctx : x # y => held[x] \cap held[y] = {}
      /\ \A x, y \in Ctx : x # y => held'[x] \cap held'[y] = {}
  BY Zenon DEF LockInv, MutualExclusion
<1>h. [l \in Lock |-> Holder(l)] = h /\ [l \in Lock |-> Holder(l)]' = k
  BY Zenon DEF Holder, HolderIn
<1>1. ASSUME NEW x \in Ctx, TestAndSet(x) PROVE AL!Next
  <2>1. PICK m \in Lock : m = lk[x] /\ m \notin held[x] /\ x[1] \in CPU
    BY <1>1, Contexts, SMTT(60) DEF TestAndSet, At, LockInv, LkOK
  <2>2. \A y \in Ctx : m \notin held[y]
    BY <1>1, <2>1, SMTT(60) DEF TestAndSet, LockInv, LockedIffHeld
  <2>3. held' = [held EXCEPT ![x] = held[x] \cup {m}]
    BY <1>1, <2>1, SMTT(60) DEF TestAndSet
  <2>4. HolderIn(held, m) = NoCPU
    BY <1>0, <2>2, HolderFacts, SMTT(60)
  <2>5. HolderIn(held', m) = x[1]
    <3>1. m \in held'[x]
      BY <1>0, <2>3, SMTT(60) DEF TypeOK
    <3> QED BY <1>0, <3>1, HolderFacts, Zenon
  <2>6. ASSUME NEW l \in Lock, l # m PROVE HolderIn(held', l) = HolderIn(held, l)
    <3>1. \A y \in Ctx : l \in held'[y] <=> l \in held[y]
      BY <1>0, <2>3, <2>6, Zenon DEF TypeOK
    <3> QED BY <1>0, <3>1, HolderUnchanged, SMTT(60)
  <2>7. k = [h EXCEPT ![m] = x[1]] /\ h[m] = NoCPU
    BY <2>4, <2>5, <2>6, ZenonT(60)
  <2>8. AL!Acquire(x[1], m)
    BY <1>h, <2>7, ZenonT(60) DEF AL!Acquire
  <2> QED BY <2>1, <2>8, SMTT(60) DEF AL!Next
<1>2. ASSUME NEW x \in Ctx, Unlock(x) PROVE AL!Next
  <2>1. PICK m \in Lock : m = lk[x] /\ m \in held[x] /\ x[1] \in CPU
    BY <1>0, <1>2, Contexts, ZenonT(60) DEF Unlock, At, LockInv, LkOK, TypeOK
  <2>2. held' = [held EXCEPT ![x] = held[x] \ {m}]
    BY <1>2, <2>1, SMTT(60) DEF Unlock
  <2>3. HolderIn(held, m) = x[1]
    BY <1>0, <2>1, HolderFacts, SMTT(60)
  <2>4. HolderIn(held', m) = NoCPU
    <3>1. \A y \in Ctx : m \notin held'[y]
      BY <1>0, <2>1, <2>2, SMTT(60) DEF TypeOK
    <3> QED BY <1>0, <3>1, HolderFacts, SMTT(60)
  <2>5. ASSUME NEW l \in Lock, l # m PROVE HolderIn(held', l) = HolderIn(held, l)
    <3>1. \A y \in Ctx : l \in held'[y] <=> l \in held[y]
      BY <1>0, <2>2, <2>5, SMTT(60) DEF TypeOK
    <3> QED BY <1>0, <3>1, HolderUnchanged, Zenon
  <2>6. k = [h EXCEPT ![m] = NoCPU] /\ h[m] = x[1]
    BY <2>3, <2>4, <2>5, ZenonT(60)
  <2>7. AL!Release(x[1], m)
    BY <1>h, <2>6, ZenonT(60) DEF AL!Release
  <2> QED BY <2>1, <2>7, Zenon DEF AL!Next
<1>3. ASSUME NEW x \in Ctx,
             \/ \E l \in Lock \cup {NoLock} : PushOffGet(x, l)
             \/ PushOff(x) \/ HoldingLocked(x) \/ HoldingCpu(x) \/ SetCpu(x)
             \/ ClearCpu(x) \/ PopOff(x) \/ GiveBack(x)
      PROVE  held' = held
  BY <1>3, ZenonT(60) DEF PushOffGet, PushOff, HoldingLocked, HoldingCpu, SetCpu, ClearCpu, PopOff,
              GiveBack, PopOffCall, ReleaseCheck
<1>4. ASSUME NEW c \in CPU,
             TrapEnter(c) \/ TrapReturn(c) \/ UserTrapIntrOn(c) \/ UserTrapRetIntrOff(c)
      PROVE  held' = held
  BY <1>4, Zenon DEF TrapEnter, TrapReturn, UserTrapIntrOn, UserTrapRetIntrOff
<1> QED BY <1>1, <1>2, <1>3, <1>4, Zenon DEF Next, Step, vars

\* acquire and release take and give back one lock in one step, and do nothing else
\* to who holds what (spinlock.c:62-110).
THEOREM LockingIsAtomic == Spec => LockIsAtomic
<1>1. Init => AL!Init
  BY Zenon DEF Init, AL!Init, Holder
<1>2. LockInv /\ LockInv' /\ [Next]_vars => [held' # held => AL!Next]_vars
  BY AtomicStep, Zenon
<1> QED BY <1>1, <1>2, LocksOK, PTL DEF Spec, LockIsAtomic

\* spinlock.c implements the lock that the other modules use.
THEOREM ImplementsAbstractLock == Spec => RefinesAbstractLock
<1>1. Init => AL!Init
  BY Zenon DEF Init, AL!Init, Holder
<1>2. LockInv /\ LockInv' /\ [Next]_vars => [AL!Next]_([l \in Lock |-> Holder(l)])
  <2>1. held' = held => UNCHANGED [l \in Lock |-> Holder(l)]
    BY Zenon DEF Holder
  <2> QED BY <2>1, AtomicStep, Zenon
<1> QED BY <1>1, <1>2, LocksOK, PTL DEF Spec, RefinesAbstractLock, AL!Spec

-----------------------------------------------------------------------------
\* A context that does not execute: an idle handler, or a thread that was
\* interrupted outside push_off ... pop_off, with interrupts on.
Suspended(x) ==
  /\ Outermost(x)
  /\ pc[x] \in {"run", "pushoff"}
  /\ x[2] = "intr" => pc[x] = "run"
  /\ pc[x] = "pushoff" => old[x] /\ before[x]

\* A context that executes: noff is its own depth, and intena is what its
\* outermost push_off found.
Executing(x) ==
  /\ noff[x[1]] = Depth(x)
  /\ Depth(x) > 0 => ~ intr[x[1]] /\ (intena[x[1]] <=> before[x])
  /\ pc[x] = "pushoff" =>
       (old[x] <=> intr[x[1]]) /\ (Outermost(x) => (before[x] <=> intr[x[1]]))

IntrInv ==
  /\ NoPanic
  /\ \A x \in Ctx : IF Active(x) THEN Executing(x) ELSE Suspended(x)

\* Locks are finitely many, so the locks held can be counted.
LEMMA HeldCount ==
  ASSUME TypeOK, NEW x \in Ctx
  PROVE  /\ IsFiniteSet(held[x])
         /\ Cardinality(held[x]) \in Nat
         /\ Cardinality(held[x]) = 0 <=> held[x] = {}
<1>1. IsFiniteSet(Lock)
  BY SpinlockAssumption, FS_Interval DEF Lock
<1>2. held[x] \subseteq Lock
  BY Zenon DEF TypeOK
<1>3. IsFiniteSet(held[x])
  BY <1>1, <1>2, FS_Subset, Zenon
<1> QED BY <1>3, FS_CardinalityType, FS_EmptySet, Zenon

\* What Depth is, and when it is 0.
LEMMA DepthFacts ==
  ASSUME TypeOK, NEW x \in Ctx
  PROVE  /\ Depth(x) \in Nat
         /\ Depth(x) = 0 <=>
              Outermost(x) /\ pc[x] \notin {"locked?", "cpu?", "tas", "popoff"}
<1>1. Cardinality(held[x]) \in Nat /\ (Cardinality(held[x]) = 0 <=> held[x] = {})
  BY HeldCount, Zenon
<1>2. pushed[x] \in Nat
  BY Zenon DEF TypeOK
<1>3. CASE pc[x] \in {"locked?", "cpu?", "tas", "popoff"}
  BY <1>1, <1>2, <1>3 DEF Depth
<1>4. CASE pc[x] \notin {"locked?", "cpu?", "tas", "popoff"}
  BY <1>1, <1>2, <1>4 DEF Depth, Outermost
<1> QED BY <1>3, <1>4, Zenon

\* A step of x leaves the other contexts as they are: the one on its CPU is
\* suspended, and the others have a noff, intena and intr of their own.
LEMMA OthersUndisturbed ==
  ASSUME TypeOK, IntrInv, NEW x \in Ctx, Active(x), inIntr' = inIntr,
         \A y \in Ctx \ {x} :
           /\ pc'[y] = pc[y] /\ held'[y] = held[y] /\ pushed'[y] = pushed[y]
           /\ old'[y] = old[y] /\ before'[y] = before[y],
         \A c \in CPU \ {x[1]} :
           noff'[c] = noff[c] /\ intr'[c] = intr[c] /\ intena'[c] = intena[c],
         Executing(x)', pc'[x] # "panic"
  PROVE  IntrInv'
<1>1. \A y \in Ctx : Active(y)' <=> Active(y)
  BY SMTT(60) DEF Active
<1>2. ASSUME NEW y \in Ctx, y # x, Active(y) PROVE Executing(y)'
  <2>1. y[1] \in CPU \ {x[1]}
    BY <1>2, Contexts DEF Active
  <2>2. Executing(y)
    BY <1>2, Zenon DEF IntrInv
  <2> QED BY <1>2, <2>1, <2>2, SMTT(60) DEF Executing, Depth, Outermost
<1>3. ASSUME NEW y \in Ctx, ~ Active(y) PROVE Suspended(y)'
  <2>1. Suspended(y) /\ y # x
    BY <1>3, Zenon DEF IntrInv
  <2> QED BY <2>1, Zenon DEF Suspended, Outermost
<1>4. NoPanic'
  BY Zenon DEF NoPanic, IntrInv
<1> QED BY <1>1, <1>2, <1>3, <1>4, Zenon DEF IntrInv

\* While a context executes, the other of its CPU holds nothing.
LEMMA OtherHoldsNothing ==
  ASSUME IntrInv, NEW x \in Ctx, Active(x), NEW y \in Ctx, y[1] = x[1], y # x
  PROVE  held[y] = {} /\ Suspended(y)
<1>1. ~ Active(y)
  BY Contexts DEF Active
<1> QED BY <1>1, Zenon DEF IntrInv, Suspended, Outermost

\* Before anything runs no interrupt is disabled by a lock and nobody has panicked.
LEMMA IntrInvInit == Init => IntrInv
<1> SUFFICES ASSUME Init PROVE IntrInv
  OBVIOUS
<1>1. NoPanic
  BY Zenon DEF Init, NoPanic
<1>2. ASSUME NEW x \in Ctx PROVE Depth(x) = 0
  BY FS_EmptySet DEF Init, Depth
<1>3. ASSUME NEW x \in Ctx PROVE Executing(x) /\ Suspended(x)
  BY <1>2, <1>3, Contexts, Zenon DEF Init, Executing, Suspended, Outermost
<1> QED BY <1>1, <1>3, Zenon DEF IntrInv

\* No step breaks the discipline of interrupts, and none panics.
LEMMA IntrInvNext == LockInv /\ LockInv' /\ IntrInv /\ [Next]_vars => IntrInv'
<1> SUFFICES ASSUME LockInv, LockInv', IntrInv, [Next]_vars PROVE IntrInv'
  OBVIOUS
<1>0. TypeOK /\ TypeOK'
  BY Zenon DEF LockInv
<1>d. \A x \in Ctx :
        /\ Depth(x) \in Nat
        /\ Depth(x) = 0 <=>
             Outermost(x) /\ pc[x] \notin {"locked?", "cpu?", "tas", "popoff"}
  BY <1>0, DepthFacts, Zenon
<1>h. \A x \in Ctx : x[1] \in CPU /\ IsFiniteSet(held[x]) /\ Cardinality(held[x]) \in Nat
                     /\ pushed[x] \in Nat
  BY <1>0, HeldCount, Contexts, SMTT(60) DEF TypeOK
<1>1. ASSUME NEW x \in Ctx, NEW l \in Lock \cup {NoLock}, PushOffGet(x, l) PROVE IntrInv'
  <2>1. Active(x) /\ Executing(x) /\ pc[x] = "run"
    BY <1>1, SMTT(60) DEF PushOffGet, At, IntrInv
  <2>2. /\ pc'[x] = "pushoff" /\ UNCHANGED <<noff, intr, intena, held, pushed>>
        /\ old'[x] = intr[x[1]]
        /\ before'[x] = IF Outermost(x) THEN intr[x[1]] ELSE before[x]
    BY <1>0, <1>1, SMTT(60) DEF PushOffGet, Goto, cpuvars, TypeOK
  <2>3. Depth(x)' = Depth(x) /\ Outermost(x)' = Outermost(x)
    BY <2>1, <2>2, Zenon DEF Depth, Outermost
  <2>4. Depth(x) > 0 => ~ Outermost(x)
    BY <1>d, <2>1
  <2>5. Executing(x)'
    BY <2>1, <2>2, <2>3, <2>4, Zenon DEF Executing
  <2> QED BY <1>0, <1>1, <2>1, <2>2, <2>5, OthersUndisturbed, SMTT(60) DEF PushOffGet, Goto, TypeOK
<1>2. ASSUME NEW x \in Ctx, PushOff(x) PROVE IntrInv'
  <2>1. Active(x) /\ Executing(x) /\ pc[x] = "pushoff"
    BY <1>2, Zenon DEF PushOff, At, IntrInv
  <2>2. /\ noff'[x[1]] = noff[x[1]] + 1 /\ ~ intr'[x[1]] /\ UNCHANGED <<held, before>>
        /\ intena'[x[1]] = IF noff[x[1]] = 0 THEN old[x] ELSE intena[x[1]]
    BY <1>0, <1>2, <1>h, Zenon DEF PushOff, IntrOff, SaveIntena, TypeOK
  <2>3. \/ pushed'[x] = pushed[x] + 1 /\ pc'[x] = "run"
        \/ pushed'[x] = pushed[x] /\ pc'[x] = "locked?"
    BY <1>0, <1>2 DEF PushOff, Goto, TypeOK
  <2>4. Depth(x)' = Depth(x) + 1
    BY <1>h, <2>1, <2>2, <2>3 DEF Depth
  <2>5. Depth(x) = 0 => (old[x] <=> before[x])
    BY <1>d, <2>1, Zenon DEF Executing
  <2>6. Depth(x) # 0 => Depth(x) > 0
    BY <1>d
  <2>7. intena'[x[1]] <=> before'[x]
    BY <2>1, <2>2, <2>5, <2>6, Zenon DEF Executing
  <2>8. noff'[x[1]] = Depth(x)' /\ pc'[x] # "pushoff" /\ pc'[x] # "panic"
    BY <2>1, <2>2, <2>3, <2>4, SMTT(60) DEF Executing
  <2>9. Executing(x)'
    BY <2>2, <2>7, <2>8, Zenon DEF Executing
  <2>10. ASSUME NEW y \in Ctx \ {x}
         PROVE  /\ pc'[y] = pc[y] /\ held'[y] = held[y] /\ pushed'[y] = pushed[y]
                /\ old'[y] = old[y] /\ before'[y] = before[y]
    BY <1>0, <1>2 DEF PushOff, Goto, TypeOK
  <2>11. ASSUME NEW c \in CPU \ {x[1]}
         PROVE  noff'[c] = noff[c] /\ intr'[c] = intr[c] /\ intena'[c] = intena[c]
    BY <1>0, <1>2, ZenonT(60) DEF PushOff, IntrOff, SaveIntena, TypeOK
  <2>12. inIntr' = inIntr
    BY <1>2, Zenon DEF PushOff
  <2> QED BY <1>0, <2>1, <2>8, <2>9, <2>10, <2>11, <2>12, OthersUndisturbed, ZenonT(60)
<1>a. ASSUME NEW x \in Ctx, Active(x), UNCHANGED <<cpuvars, inIntr, old, before>>,
             \A y \in Ctx \ {x} : pc'[y] = pc[y] /\ held'[y] = held[y] /\ pushed'[y] = pushed[y],
             Depth(x)' = Depth(x), pc'[x] \notin {"pushoff", "panic"}
      PROVE  IntrInv'
  <2>1. Executing(x)
    BY <1>a, SMTT(60) DEF IntrInv
  <2>2. Executing(x)'
    BY <1>a, <2>1, SMTT(60) DEF Executing, cpuvars
  <2> QED BY <1>0, <1>a, <2>2, OthersUndisturbed, Zenon DEF cpuvars
<1>3. ASSUME NEW x \in Ctx, HoldingLocked(x) PROVE IntrInv'
  <2>1. pc'[x] \in {"cpu?", "tas"} /\ pc[x] = "locked?"
    BY <1>0, <1>3, Zenon DEF HoldingLocked, At, Goto, TypeOK
  <2>2. Depth(x)' = Depth(x)
    BY <1>3, <2>1, SMTT(60) DEF HoldingLocked, Depth
  <2> QED BY <1>0, <1>3, <1>a, <2>1, <2>2, SMTT(60) DEF HoldingLocked, At, Goto, TypeOK
<1>4. ASSUME NEW x \in Ctx, HoldingCpu(x) PROVE IntrInv'
  <2>1. pc[x] = "cpu?" /\ Active(x) /\ lk[x] \in Lock \ held[x]
    BY <1>4, Zenon DEF HoldingCpu, At, LockInv, LkOK
  <2>2. owner[lk[x]] # x[1]
    <3>1. SUFFICES ASSUME owner[lk[x]] = x[1] PROVE FALSE
      OBVIOUS
    <3>2. PICK y \in Ctx : y[1] = x[1] /\ lk[x] \in held[y]
      BY <1>h, <2>1, <3>1 DEF LockInv, OwnerIsHolder, Marked
    <3>3. y # x
      BY <2>1, <3>2, Zenon
    <3> QED BY <2>1, <3>2, <3>3, OtherHoldsNothing, Zenon
  <2>3. pc'[x] = "tas"
    BY <1>0, <1>4, <2>2, Zenon DEF HoldingCpu, Goto, TypeOK
  <2>4. Depth(x)' = Depth(x)
    BY <1>4, <2>1, <2>3, SMTT(60) DEF HoldingCpu, Depth
  <2> QED BY <1>0, <1>4, <1>a, <2>1, <2>3, <2>4, Zenon DEF HoldingCpu, Goto, TypeOK
<1>5. ASSUME NEW x \in Ctx, TestAndSet(x) PROVE IntrInv'
  <2>1. pc[x] = "tas" /\ Active(x) /\ lk[x] \in Lock \ held[x]
    BY <1>5, SMTT(60) DEF TestAndSet, At, LockInv, LkOK
  <2>2. pc'[x] = "setcpu" /\ held'[x] = held[x] \cup {lk[x]} /\ pushed' = pushed
    BY <1>0, <1>5, Zenon DEF TestAndSet, Goto, TypeOK
  <2>3. Cardinality(held[x] \cup {lk[x]}) = Cardinality(held[x]) + 1
    BY <1>h, <2>1, FS_AddElement, ZenonT(60)
  <2>4. Depth(x)' = Depth(x)
    BY <1>h, <2>1, <2>2, <2>3, SMTT(60) DEF Depth
  <2> QED BY <1>0, <1>5, <1>a, <2>1, <2>2, <2>4, SMTT(60) DEF TestAndSet, Goto, TypeOK
<1>6. ASSUME NEW x \in Ctx, SetCpu(x) \/ ClearCpu(x) PROVE IntrInv'
  <2>1. pc[x] \in {"setcpu", "clearcpu"} /\ pc'[x] \in {"run", "unlock"} /\ UNCHANGED <<held, pushed>>
    BY <1>0, <1>6, Zenon DEF SetCpu, ClearCpu, At, Goto, TypeOK
  <2>2. Depth(x)' = Depth(x)
    BY <2>1, SMTT(60) DEF Depth
  <2> QED BY <1>0, <1>6, <1>a, <2>1, <2>2, Zenon DEF SetCpu, ClearCpu, At, Goto, TypeOK
<1>7. ASSUME NEW x \in Ctx, NEW l \in Lock, ReleaseCheck(x, l) PROVE IntrInv'
  <2>1. pc[x] = "run" /\ Active(x) /\ l \in held[x] /\ UNCHANGED <<held, pushed>>
    BY <1>7, SMTT(60) DEF ReleaseCheck, At
  <2>2. locked[l] = 1 /\ owner[l] = x[1]
    BY <1>h, <2>1, SMTT(60) DEF LockInv, LockedIffHeld, OwnerIsHolder, Marked
  <2>3. pc'[x] = "clearcpu"
    BY <1>0, <1>7, <2>2, Zenon DEF ReleaseCheck, Goto, TypeOK
  <2>4. Depth(x)' = Depth(x)
    BY <2>1, <2>3, SMTT(60) DEF Depth
  <2> QED BY <1>0, <1>7, <1>a, <2>1, <2>3, <2>4, Zenon DEF ReleaseCheck, Goto, TypeOK
<1>8. ASSUME NEW x \in Ctx, Unlock(x) PROVE IntrInv'
  <2>1. pc[x] = "unlock" /\ Active(x) /\ lk[x] \in held[x]
    BY <1>8, SMTT(60) DEF Unlock, At, LockInv, LkOK
  <2>2. pc'[x] = "popoff" /\ held'[x] = held[x] \ {lk[x]} /\ pushed' = pushed
    BY <1>0, <1>8, Zenon DEF Unlock, Goto, TypeOK
  <2>3. Cardinality(held[x] \ {lk[x]}) = Cardinality(held[x]) - 1
    BY <1>h, <2>1, FS_RemoveElement, ZenonT(60)
  <2>4. Depth(x)' = Depth(x)
    BY <1>h, <2>1, <2>2, <2>3, SMTT(60) DEF Depth
  <2> QED BY <1>0, <1>8, <1>a, <2>1, <2>2, <2>4, SMTT(60) DEF Unlock, Goto, TypeOK
<1>9. ASSUME NEW x \in Ctx, PopOffCall(x) PROVE IntrInv'
  <2>1. pc[x] = "run" /\ Active(x) /\ pc'[x] = "popoff" /\ pushed'[x] = pushed[x] - 1 /\ held' = held
    BY <1>0, <1>9, Zenon DEF PopOffCall, At, Goto, TypeOK
  <2>2. Depth(x)' = Depth(x)
    BY <1>h, <2>1, SMTT(60) DEF Depth
  <2> QED BY <1>0, <1>9, <1>a, <2>1, <2>2, Zenon DEF PopOffCall, Goto, TypeOK
<1>10. ASSUME NEW x \in Ctx, PopOff(x) PROVE IntrInv'
  <2>1. pc[x] = "popoff" /\ Active(x) /\ Executing(x) /\ UNCHANGED <<held, pushed, intena, before>>
    BY <1>10, Zenon DEF PopOff, At, IntrInv
  <2>2. Depth(x) \in Nat /\ Depth(x) > 0
    BY <1>d, <2>1, SMTT(60)
  <2>3. ~ intr[x[1]] /\ noff[x[1]] = Depth(x) /\ (intena[x[1]] <=> before[x])
    BY <2>1, <2>2, Zenon DEF Executing
  <2>4. ~ (intr[x[1]] \/ noff[x[1]] < 1)
    BY <2>2, <2>3, SMTT(60)
  <2>5. pc'[x] = "run" /\ noff'[x[1]] = noff[x[1]] - 1
    BY <1>0, <1>10, <1>h, <2>4, SMTT(60) DEF PopOff, Uncount, Goto, TypeOK
  <2>6. intr'[x[1]] <=> (noff[x[1]] = 1 /\ intena[x[1]])
    BY <1>0, <1>10, <1>h, <2>4, SMTT(60) DEF PopOff, TypeOK
  <2>7. Depth(x)' = Depth(x) - 1
    <3>1. Depth(x) = Cardinality(held[x]) + pushed[x] + 1
      BY <2>1, SMTT(60) DEF Depth
    <3>2. Depth(x)' = Cardinality(held[x]) + pushed[x] + 0
      BY <2>1, <2>5, SMTT(60) DEF Depth
    <3>3. Cardinality(held[x]) \in Nat /\ pushed[x] \in Nat
      BY <1>h, SMTT(60)
    <3> HIDE DEF Depth
    <3> QED BY <3>1, <3>2, <3>3
  <2>8. noff'[x[1]] = Depth(x)' /\ (Depth(x)' > 0 => noff[x[1]] # 1)
    BY <2>2, <2>3, <2>5, <2>7, SMTT(60)
  <2>9. Executing(x)'
    BY <2>1, <2>3, <2>5, <2>6, <2>8, ZenonT(60) DEF Executing
  <2> QED BY <1>0, <1>10, <2>1, <2>5, <2>9, OthersUndisturbed, SMTT(60) DEF PopOff, Uncount, Goto, TypeOK
<1>11. ASSUME NEW c \in CPU, TrapEnter(c) PROVE IntrInv'
  <2> DEFINE x == Thread(c)  y == Intr(c)
  <2>1. /\ x \in Ctx /\ y \in Ctx /\ x[1] = c /\ y[1] = c /\ x # y
        /\ x[2] = "thread" /\ y[2] = "intr"
    BY Contexts, Zenon
  <2>2. \A z \in Ctx : z # x /\ z # y => z[1] \in CPU /\ z[1] # c
    BY Contexts, SMTT(60)
  <2> HIDE DEF x, y
  <2>3. Active(x) /\ ~ Active(y) /\ ~ Active(x)' /\ Active(y)'
    BY <1>0, <1>11, <2>1, SMTT(60) DEF TrapEnter, Active, TypeOK
  <2>4. Executing(x) /\ Suspended(y) /\ pc[x] # "panic"
    BY <2>1, <2>3, SMTT(60) DEF IntrInv, NoPanic
  <2>5. Depth(x) = 0
    BY <1>11, <1>d, <2>1, <2>4, SMTT(60) DEF TrapEnter, Executing
  <2>6. Outermost(x) /\ pc[x] \in {"run", "pushoff"}
    <3>1. Outermost(x) /\ pc[x] \notin {"locked?", "cpu?", "tas", "popoff"}
      BY <1>d, <2>1, <2>5, Zenon
    <3>2. pc[x] \notin {"setcpu", "clearcpu", "unlock"}
      BY <2>1, <3>1, Zenon DEF LockInv, LkOK, Outermost
    <3>3. pc[x] \in PC
      BY <1>0, <2>1, Zenon DEF TypeOK
    <3> QED BY <2>4, <3>1, <3>2, <3>3, Zenon DEF PC
  <2>7. Suspended(x)'
    BY <1>11, <2>1, <2>4, <2>6, Zenon DEF TrapEnter, Suspended, Executing, Outermost
  <2>8. Depth(y) = 0 /\ pc[y] = "run"
    BY <1>d, <2>1, <2>4, SMTT(60) DEF Suspended
  <2>9. Executing(y)'
    BY <1>11, <2>1, <2>4, <2>5, <2>8, ZenonT(60) DEF TrapEnter, Executing, Depth, lockvars
  <2>10. ASSUME NEW z \in Ctx, z # x, z # y
         PROVE  IF Active(z)' THEN Executing(z)' ELSE Suspended(z)'
    <3>1. z[1] \in CPU /\ z[1] # c
      BY <2>2, <2>10, SMTT(60)
    <3>2. (Active(z)' <=> Active(z)) /\ intr'[z[1]] = intr[z[1]]
      BY <1>0, <1>11, <3>1, Zenon DEF TrapEnter, Active, TypeOK
    <3>3. IF Active(z) THEN Executing(z) ELSE Suspended(z)
      BY Zenon DEF IntrInv
    <3> QED BY <1>11, <3>2, <3>3, ZenonT(60) DEF TrapEnter, Executing, Suspended, Depth, Outermost
  <2>11. NoPanic'
    BY <1>11, Zenon DEF TrapEnter, NoPanic, IntrInv
  <2> QED BY <2>3, <2>7, <2>9, <2>10, <2>11, Zenon DEF IntrInv
<1>12. ASSUME NEW c \in CPU, TrapReturn(c) PROVE IntrInv'
  <2> DEFINE x == Thread(c)  y == Intr(c)
  <2>1. /\ x \in Ctx /\ y \in Ctx /\ x[1] = c /\ y[1] = c /\ x # y
        /\ x[2] = "thread" /\ y[2] = "intr"
    BY Contexts, Zenon
  <2>2. \A z \in Ctx : z # x /\ z # y => z[1] \in CPU /\ z[1] # c
    BY Contexts
  <2>3. pc[y] = "run" /\ Outermost(y) /\ Active(y)
    BY <1>12, SMTT(60) DEF TrapReturn, At
  <2> HIDE DEF x, y
  <2>4. ~ Active(x) /\ Active(x)' /\ ~ Active(y)'
    BY <1>0, <1>12, <2>1, <2>3, SMTT(60) DEF TrapReturn, Active, TypeOK
  <2>5. Executing(y) /\ Suspended(x)
    BY <2>1, <2>3, <2>4, SMTT(60) DEF IntrInv
  <2>6. Suspended(y)'
    <3>1. UNCHANGED <<pc, held, pushed>>
      BY <1>12, Zenon DEF TrapReturn
    <3> QED BY <2>3, <3>1, Zenon DEF Suspended, Outermost
  <2>7. Depth(x) = 0 /\ noff[c] = 0
    BY <1>d, <2>1, <2>3, <2>5, SMTT(60) DEF Suspended, Executing
  <2>8. intr'[c]
    BY <1>0, <1>12, SMTT(60) DEF TrapReturn, TypeOK
  <2>9. Executing(x)'
    BY <1>12, <2>1, <2>5, <2>7, <2>8, SMTT(60) DEF TrapReturn, Executing, Suspended, Depth, Outermost
  <2>10. ASSUME NEW z \in Ctx, z # x, z # y
         PROVE  IF Active(z)' THEN Executing(z)' ELSE Suspended(z)'
    <3>1. z[1] \in CPU /\ z[1] # c
      BY <2>2, <2>10, Zenon
    <3>2. (Active(z)' <=> Active(z)) /\ intr'[z[1]] = intr[z[1]]
      BY <1>0, <1>12, <3>1, Zenon DEF TrapReturn, Active, TypeOK
    <3>3. IF Active(z) THEN Executing(z) ELSE Suspended(z)
      BY Zenon DEF IntrInv
    <3> QED BY <1>12, <3>2, <3>3, ZenonT(60) DEF TrapReturn, Executing, Suspended, Depth, Outermost
  <2>11. NoPanic'
    BY <1>12, SMTT(60) DEF TrapReturn, NoPanic, IntrInv
  <2> QED BY <2>4, <2>6, <2>9, <2>10, <2>11, Zenon DEF IntrInv
<1>13. ASSUME NEW c \in CPU, UserTrapIntrOn(c) \/ UserTrapRetIntrOff(c) PROVE IntrInv'
  <2> DEFINE x == Thread(c)
  <2>1. x \in Ctx /\ x[1] = c
    BY Contexts, Zenon
  <2>2. pc[x] = "run" /\ Outermost(x) /\ Active(x)
    BY <1>13, Zenon DEF UserTrapIntrOn, UserTrapRetIntrOff, At
  <2> HIDE DEF x
  <2>3. Depth(x) = 0 /\ Executing(x)
    BY <1>d, <2>1, <2>2, Zenon DEF IntrInv
  <2>4. UNCHANGED <<noff, intena, inIntr, pc, old, held, pushed, before>>
    BY <1>13, SMTT(60) DEF UserTrapIntrOn, UserTrapRetIntrOff
  <2>5. Executing(x)'
    BY <2>2, <2>3, <2>4, SMTT(60) DEF Executing, Depth
  <2> QED BY <1>0, <1>13, <2>1, <2>2, <2>4, <2>5, OthersUndisturbed, ZenonT(60)
          DEF UserTrapIntrOn, UserTrapRetIntrOff, IntrOff, TypeOK
<1>14. CASE UNCHANGED vars
  <2>1. pc' = pc
    BY <1>14, Zenon DEF vars
  <2>2. ASSUME NEW x \in Ctx
        PROVE  Active(x)' = Active(x) /\ Executing(x)' = Executing(x) /\ Suspended(x)' = Suspended(x)
    BY <1>14, Zenon DEF vars, cpuvars, Active, Executing, Suspended, Depth, Outermost
  <2> QED BY <2>1, <2>2, Zenon DEF IntrInv, NoPanic
<1> QED BY <1>1, <1>2, <1>3, <1>4, <1>5, <1>6, <1>7, <1>8, <1>9, <1>10, <1>11, <1>12, <1>13, <1>14, SMTT(60)
        DEF Next, Step, GiveBack

\* In every reachable state interrupts are as described.
THEOREM InterruptsOK == Spec => []IntrInv
  BY LocksOK, IntrInvInit, IntrInvNext, PTL DEF Spec

\* Callers that release what they acquired never reach a panic.
THEOREM NeverPanics == Spec => []NoPanic
  BY InterruptsOK, PTL DEF IntrInv

\* noff is the number of push_offs not yet popped on the CPU.
THEOREM NoffIsDepth == Spec => []NoffCounts
<1>1. LockInv /\ IntrInv => NoffCounts
  <2> SUFFICES ASSUME LockInv, IntrInv, NEW c \in CPU
               PROVE  noff[c] = Depth(Thread(c)) + Depth(Intr(c))
    BY Zenon DEF NoffCounts
  <2>1. /\ Thread(c) \in Ctx /\ Intr(c) \in Ctx /\ Thread(c)[1] = c /\ Intr(c)[1] = c
        /\ Thread(c)[2] = "thread" /\ Intr(c)[2] = "intr"
    BY Contexts, Zenon
  <2>2. \A x \in Ctx : Depth(x) \in Nat /\ (Suspended(x) => Depth(x) = 0)
    BY DepthFacts, Zenon DEF LockInv, Suspended
  <2>3. CASE inIntr[c]
    BY <2>1, <2>2, <2>3, SMTT(60) DEF IntrInv, Active, Executing
  <2>4. CASE ~ inIntr[c]
    BY <2>1, <2>2, <2>4, SMTT(60) DEF IntrInv, Active, Executing
  <2> QED BY <2>3, <2>4, Zenon
<1> QED BY <1>1, LocksOK, InterruptsOK, PTL

\* No CPU waits for a lock that it holds itself.
THEOREM NoCpuBlocksItself == Spec => []NoSelfDeadlock
<1>1. LockInv /\ IntrInv => NoSelfDeadlock
  <2> SUFFICES ASSUME LockInv, IntrInv, NEW c \in CPU
               PROVE  /\ inIntr[c] => held[Thread(c)] = {}
                      /\ \A x, y \in {Thread(c), Intr(c)} : pc[x] = "tas" => lk[x] \notin held[y]
    BY Zenon DEF NoSelfDeadlock
  <2>1. /\ Thread(c) \in Ctx /\ Intr(c) \in Ctx /\ Thread(c)[1] = c /\ Intr(c)[1] = c
        /\ Thread(c)[2] = "thread" /\ Intr(c)[2] = "intr"
    BY Contexts, Zenon
  <2>2. inIntr[c] => held[Thread(c)] = {}
    BY <2>1 DEF IntrInv, Active, Suspended, Outermost
  <2>3. ASSUME NEW x \in {Thread(c), Intr(c)}, NEW y \in {Thread(c), Intr(c)}, pc[x] = "tas"
        PROVE  lk[x] \notin held[y]
    <3>1. x \in Ctx /\ y \in Ctx /\ x[1] = y[1]
      BY <2>1, Zenon
    <3>2. lk[x] \notin held[x]
      BY <2>3, <3>1, SMTT(60) DEF LockInv, LkOK
    <3>3. Active(x)
      BY <2>3, <3>1, Zenon DEF IntrInv, Suspended
    <3> QED BY <3>1, <3>2, <3>3, OtherHoldsNothing, Zenon
  <2> QED BY <2>2, <2>3, SMTT(60)
<1> QED BY <1>1, LocksOK, InterruptsOK, PTL

\* Only the context that takes a step leaves pop_off by it.
LEMMA GotoLeaves ==
  ASSUME TypeOK, NEW x \in Ctx, NEW y \in Ctx, NEW l, Goto(y, l),
         pc[x] = "popoff", pc'[x] # "popoff"
  PROVE  x = y
  BY Zenon DEF Goto, TypeOK

\* The outermost pop_off restores what the outermost push_off found.
THEOREM InterruptsRestored == Spec => IntrRestored
<1>1. LockInv /\ LockInv' /\ IntrInv /\ [Next]_vars =>
        \A x \in Ctx : pc[x] = "popoff" /\ pc'[x] # "popoff" /\ Outermost(x) => intr'[x[1]] = before[x]
  <2> SUFFICES ASSUME LockInv, LockInv', IntrInv, [Next]_vars, NEW x \in Ctx,
                      pc[x] = "popoff", pc'[x] # "popoff", Outermost(x)
               PROVE  intr'[x[1]] = before[x]
    OBVIOUS
  <2>0. TypeOK /\ TypeOK' /\ x[1] \in CPU
    BY Contexts, SMTT(60) DEF LockInv
  <2>1. PopOff(x)
    <3>1. ASSUME NEW y \in Ctx, NEW l \in Lock \cup {NoLock}, PushOffGet(y, l) \/ ReleaseCheck(y, l)
          PROVE  FALSE
      <4>1. CASE PushOffGet(y, l)
        BY <2>0, <4>1, GotoLeaves, Zenon DEF PushOffGet, At
      <4>2. CASE ReleaseCheck(y, l)
        BY <2>0, <4>2, GotoLeaves, Zenon DEF ReleaseCheck, At
      <4> QED BY <3>1, <4>1, <4>2, Zenon
    <3>2. ASSUME NEW y \in Ctx,
                 PushOff(y) \/ HoldingLocked(y) \/ HoldingCpu(y) \/ SetCpu(y) \/ ClearCpu(y)
                 \/ Unlock(y) \/ TestAndSet(y) \/ PopOffCall(y)
          PROVE  FALSE
      <4>1. CASE PushOff(y)
        BY <2>0, <4>1, GotoLeaves, Zenon DEF PushOff, At
      <4>2. CASE HoldingLocked(y)
        BY <2>0, <4>2, GotoLeaves, Zenon DEF HoldingLocked, At
      <4>3. CASE HoldingCpu(y)
        BY <2>0, <4>3, GotoLeaves, Zenon DEF HoldingCpu, At
      <4>4. CASE SetCpu(y) \/ ClearCpu(y)
        BY <2>0, <4>4, GotoLeaves, Zenon DEF SetCpu, ClearCpu, At
      <4>5. CASE Unlock(y) \/ TestAndSet(y)
        BY <2>0, <4>5, GotoLeaves, Zenon DEF Unlock, TestAndSet, At
      <4>6. CASE PopOffCall(y)
        BY <2>0, <4>6, GotoLeaves, Zenon DEF PopOffCall, At
      <4> QED BY <3>2, <4>1, <4>2, <4>3, <4>4, <4>5, <4>6, Zenon
    <3>3. ASSUME NEW y \in Ctx, PopOff(y) PROVE y = x
      BY <2>0, <3>3, GotoLeaves, Zenon DEF PopOff
    <3>4. ASSUME NEW c \in CPU,
                 TrapEnter(c) \/ TrapReturn(c) \/ UserTrapIntrOn(c) \/ UserTrapRetIntrOff(c)
          PROVE  FALSE
      BY <3>4, Zenon DEF TrapEnter, TrapReturn, UserTrapIntrOn, UserTrapRetIntrOff
    <3>5. ~ UNCHANGED vars
      BY SMTT(60) DEF vars
    <3> QED BY <3>1, <3>2, <3>3, <3>4, <3>5, ZenonT(60) DEF Next, Step, GiveBack
  <2>2. Executing(x)
    BY <2>1, SMTT(60) DEF PopOff, At, IntrInv
  <2>3. Depth(x) = 1
    BY <2>0, FS_EmptySet, SMTT(60) DEF Depth, Outermost
  <2>4. noff[x[1]] = 1 /\ ~ intr[x[1]] /\ (intena[x[1]] <=> before[x])
    BY <2>2, <2>3, SMTT(60) DEF Executing
  <2>5. intr'[x[1]] = (noff[x[1]] = 1 /\ intena[x[1]])
    BY <2>0, <2>1, <2>4, SMTT(60) DEF PopOff, TypeOK
  <2>6. intr'[x[1]] \in BOOLEAN /\ before[x] \in BOOLEAN
    BY <2>0, SMTT(60) DEF TypeOK
  <2>7. intr'[x[1]] <=> before[x]
    BY <2>4, <2>5, ZenonT(60)
  <2> QED BY <2>6, <2>7, Zenon
<1> QED BY <1>1, LocksOK, InterruptsOK, PTL DEF Spec, IntrRestored

=============================================================================
