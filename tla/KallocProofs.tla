---------------------------- MODULE KallocProofs ----------------------------
(***************************************************************************)
(* Proofs about kernel/kalloc.c, for any number of CPUs, pages and         *)
(* threads.  First the locks and the locals.  Then the pages: none is      *)
(* lost or in two places, and kalloc and kfree act as atomic steps.        *)
(***************************************************************************)
EXTENDS Kalloc, TLAPS

\* What the locals of a thread are at each place in the code.  Between the
\* two steps of a pop or a push r and next still describe the list.
LocalsOK(t) ==
  /\ pc[t] \notin StealPC => i[t] = 0
  /\ pc[t] \in HoldOtherPC => i[t] \in CPU \ {cid[t]}
  /\ pc[t] \in {"idle", "acquire", "spin", "pop", "steal", "stealpop"} => r[t] = Null
  /\ pc[t] \in KfreePC \cup {"unlink", "stealunlink"} => r[t] # Null
  /\ cpu[t] = Off => Preemptible(t)
  /\ pc[t] = "unlink" =>
       /\ freelist[cid[t]] # <<>>
       /\ r[t] = Head(freelist[cid[t]]) /\ next[t] = Tail(freelist[cid[t]])
  /\ pc[t] = "stealunlink" =>
       /\ freelist[i[t]] # <<>>
       /\ r[t] = Head(freelist[i[t]]) /\ next[t] = Tail(freelist[i[t]])
  /\ pc[t] = "fpush" => next[t] = freelist[cid[t]]

\* Locks and locals, which the proof that pages are safe rests on.
LInv == TypeOK /\ LocksMatchCode /\ \A t \in Thread : LocalsOK(t)

-----------------------------------------------------------------------------
\* The head of a list that is not empty is a page, and so not null.
LEMMA FirstOfList ==
  ASSUME NEW s \in Seq(Page), s # <<>>
  PROVE  Head(s) \in Page /\ Head(s) # Null /\ Tail(s) \in Seq(Page)
<1>1. Head(s) \in Page /\ Tail(s) \in Seq(Page)
  OBVIOUS
<1> QED BY <1>1 DEF Page, Null

-----------------------------------------------------------------------------
\* The initial state has its locks free and its threads idle.
LEMMA LInvInit == Init => LInv
<1> SUFFICES ASSUME Init PROVE LInv
  OBVIOUS
<1>1. FreeRange \in Seq(Page)
  BY KallocAssumption DEF FreeRange, Page
<1>2. TypeOK
  BY <1>1, KallocAssumption DEF Init, TypeOK, CPU, Null, Off
<1>3. LocksMatchCode
  BY KallocAssumption, Zenon DEF Init, LocksMatchCode, Inside, HoldOwnPC, HoldOtherPC, StealPC
<1>4. \A t \in Thread : LocalsOK(t)
  BY Zenon DEF Init, LocalsOK, StealPC, HoldOtherPC, KfreePC, Preemptible
<1> QED BY <1>2, <1>3, <1>4, Zenon DEF LInv

\* Every step keeps the locks and locals as the code says.
LEMMA LInvNext == LInv /\ [Next]_vars => LInv'
<1> SUFFICES ASSUME LInv, [Next]_vars PROVE LInv'
  OBVIOUS
<1> USE KallocAssumption DEF LInv
<1>1. ASSUME NEW t \in Thread, KallocEnter(t) PROVE LInv'
  <2>1. TypeOK'
    BY <1>1, Zenon DEF KallocEnter, At, Goto, TypeOK, KallocPC, Off
  <2>2. LocksMatchCode'
    BY <1>1 DEF KallocEnter, At, Goto, TypeOK, LocksMatchCode, Inside, HoldOwnPC, HoldOtherPC, StealPC
  <2>3. ASSUME NEW u \in Thread PROVE LocalsOK(u)'
    <3>1. CASE u = t
      BY <1>1, <3>1, ZenonT(60) DEF KallocEnter, At, Goto, TypeOK, LocalsOK, HoldOtherPC, StealPC, KfreePC, Null, Preemptible
    <3>2. CASE u # t
      BY <1>1, <3>2, Zenon DEF KallocEnter, At, Goto, TypeOK, LocalsOK, Preemptible
    <3> QED BY <3>1, <3>2, Zenon
  <2> QED BY <2>1, <2>2, <2>3, Zenon
<1>2. ASSUME NEW t \in Thread, KallocPushOff(t) PROVE LInv'
  <2>1. TypeOK'
    BY <1>2, Zenon DEF KallocPushOff, At, Goto, TypeOK, KallocPC, KfreePC
  <2>2. LocksMatchCode'
    BY <1>2 DEF KallocPushOff, At, Goto, TypeOK, LocksMatchCode, Inside, HoldOwnPC, HoldOtherPC, StealPC
  <2>3. ASSUME NEW u \in Thread PROVE LocalsOK(u)'
    <3>1. CASE u = t
      BY <1>2, <3>1, ZenonT(60) DEF KallocPushOff, At, Goto, TypeOK, LocalsOK, HoldOtherPC, StealPC, KfreePC, Null, Preemptible
    <3>2. CASE u # t
      BY <1>2, <3>2, Zenon DEF KallocPushOff, At, Goto, TypeOK, LocalsOK, Preemptible
    <3> QED BY <3>1, <3>2, Zenon
  <2> QED BY <2>1, <2>2, <2>3, Zenon
<1>3. ASSUME NEW t \in Thread, KallocAcquire(t) PROVE LInv'
  <2>1. TypeOK'
    BY <1>3, Zenon DEF KallocAcquire, Acquire, At, Goto, TypeOK, KallocPC, KfreePC
  <2>2. LocksMatchCode'
    BY <1>3 DEF KallocAcquire, Acquire, At, Goto, TypeOK, LocksMatchCode, Inside, HoldOwnPC, HoldOtherPC, StealPC
  <2>3. ASSUME NEW u \in Thread PROVE LocalsOK(u)'
    <3>1. CASE u = t
      BY <1>3, <3>1, ZenonT(60) DEF KallocAcquire, Acquire, At, Goto, TypeOK, LocalsOK, HoldOtherPC, StealPC, KfreePC, Null, Preemptible
    <3>2. CASE u # t
      BY <1>3, <3>2, Zenon DEF KallocAcquire, Acquire, At, Goto, TypeOK, LocalsOK, Preemptible
    <3> QED BY <3>1, <3>2, Zenon
  <2> QED BY <2>1, <2>2, <2>3, Zenon
<1>4. ASSUME NEW t \in Thread, KallocPop(t) PROVE LInv'
  <2>1. CASE ReadFirst(t, cid[t]) /\ Goto(t, "unlink")
    <3>1. Head(freelist[cid[t]]) \in Page /\ Head(freelist[cid[t]]) # Null
          /\ Tail(freelist[cid[t]]) \in Seq(Page)
      BY <2>1, FirstOfList, Zenon DEF TypeOK, ReadFirst
    <3>2. TypeOK'
      BY <1>4, <2>1, <3>1, Zenon DEF KallocPop, ReadFirst, Goto, TypeOK, KallocPC
    <3>3. LocksMatchCode'
      BY <1>4, <2>1 DEF KallocPop, At, Goto, TypeOK, LocksMatchCode, Inside, HoldOwnPC, HoldOtherPC, StealPC
    <3>4. LocalsOK(t)'
      BY <1>4, <2>1, <3>1, SMTT(60) DEF KallocPop, ReadFirst, At, Goto, TypeOK, LocalsOK, HoldOtherPC, StealPC, KfreePC, Preemptible
    <3>5. ASSUME NEW u \in Thread, u # t PROVE LocalsOK(u)'
      BY <1>4, <2>1, <3>5, Zenon DEF KallocPop, ReadFirst, Goto, TypeOK, LocalsOK, Preemptible
    <3> QED BY <3>2, <3>3, <3>4, <3>5, Zenon
  <2>2. CASE freelist[cid[t]] = <<>> /\ Goto(t, "steal") /\ UNCHANGED <<r, next>>
    <3>1. TypeOK'
      BY <1>4, <2>2, Zenon DEF KallocPop, Goto, TypeOK, KallocPC, StealPC
    <3>2. LocksMatchCode'
      BY <1>4, <2>2 DEF KallocPop, At, Goto, TypeOK, LocksMatchCode, Inside, HoldOwnPC, HoldOtherPC, StealPC
    <3>3. LocalsOK(t)'
      BY <1>4, <2>2, Zenon DEF KallocPop, At, Goto, TypeOK, LocalsOK, HoldOtherPC, StealPC, KfreePC, Preemptible
    <3>4. ASSUME NEW u \in Thread, u # t PROVE LocalsOK(u)'
      BY <1>4, <2>2, <3>4, Zenon DEF KallocPop, Goto, TypeOK, LocalsOK, Preemptible
    <3> QED BY <3>1, <3>2, <3>3, <3>4, Zenon
  <2> QED BY <1>4, <2>1, <2>2, Zenon DEF KallocPop
<1>5. ASSUME NEW t \in Thread, KallocUnlink(t) PROVE LInv'
  <2>1. TypeOK'
    BY <1>5 DEF KallocUnlink, Unlink, At, Goto, TypeOK, KallocPC, KfreePC
  <2>2. LocksMatchCode'
    BY <1>5 DEF KallocUnlink, Unlink, At, Goto, TypeOK, LocksMatchCode, Inside, HoldOwnPC, HoldOtherPC, StealPC
  <2>3. ASSUME NEW u \in Thread PROVE LocalsOK(u)'
    <3>1. CASE u = t
      BY <1>5, <3>1, Zenon DEF KallocUnlink, Unlink, At, Goto, TypeOK, LocalsOK, HoldOtherPC, StealPC, KfreePC, Null, Preemptible
    <3>2. CASE u # t
      BY <1>5, <3>2 DEF KallocUnlink, Unlink, At, Goto, TypeOK, LocalsOK, Preemptible, LocksMatchCode, Inside, HoldOwnPC, HoldOtherPC, StealPC
    <3> QED BY <3>1, <3>2, Zenon
  <2> QED BY <2>1, <2>2, <2>3, Zenon
<1>6. ASSUME NEW t \in Thread, StealSkip(t) PROVE LInv'
  <2>1. TypeOK'
    BY <1>6, SMTT(60) DEF StealSkip, At, TypeOK, CPU
  <2>2. LocksMatchCode'
    BY <1>6 DEF StealSkip, At, TypeOK, LocksMatchCode, Inside, HoldOwnPC, HoldOtherPC, StealPC, LocalsOK
  <2>3. ASSUME NEW u \in Thread PROVE LocalsOK(u)'
    <3>1. CASE u = t
      BY <1>6, <3>1, Zenon DEF StealSkip, At, TypeOK, LocalsOK, HoldOtherPC, StealPC, KfreePC, Null, Preemptible
    <3>2. CASE u # t
      BY <1>6, <3>2, Zenon DEF StealSkip, At, TypeOK, LocalsOK, Preemptible
    <3> QED BY <3>1, <3>2, Zenon
  <2> QED BY <2>1, <2>2, <2>3, Zenon
<1>7. ASSUME NEW t \in Thread, StealAcquire(t) PROVE LInv'
  <2>1. TypeOK'
    BY <1>7, Zenon DEF StealAcquire, Acquire, At, Goto, TypeOK, KallocPC, StealPC
  <2>2. LocksMatchCode'
    BY <1>7 DEF StealAcquire, Acquire, At, Goto, TypeOK, LocksMatchCode, Inside, HoldOwnPC, HoldOtherPC, StealPC
  <2>3. ASSUME NEW u \in Thread PROVE LocalsOK(u)'
    <3>1. CASE u = t
      BY <1>7, <3>1, Zenon DEF StealAcquire, Acquire, At, Goto, TypeOK, LocalsOK, HoldOtherPC, StealPC, KfreePC, Null, Preemptible
    <3>2. CASE u # t
      BY <1>7, <3>2, Zenon DEF StealAcquire, Acquire, At, Goto, TypeOK, LocalsOK, Preemptible
    <3> QED BY <3>1, <3>2, Zenon
  <2> QED BY <2>1, <2>2, <2>3, Zenon
<1>8. ASSUME NEW t \in Thread, StealEnd(t) PROVE LInv'
  <2>1. TypeOK'
    BY <1>8, SMTT(60) DEF StealEnd, EndOfLists, At, Goto, TypeOK, KallocPC, CPU
  <2>2. LocksMatchCode'
    BY <1>8 DEF StealEnd, EndOfLists, At, Goto, TypeOK, LocksMatchCode, Inside, HoldOwnPC, HoldOtherPC, StealPC, LocalsOK
  <2>3. ASSUME NEW u \in Thread PROVE LocalsOK(u)'
    <3>1. CASE u = t
      BY <1>8, <3>1, Zenon DEF StealEnd, EndOfLists, At, Goto, TypeOK, LocalsOK, HoldOtherPC, StealPC, KfreePC, Null, Preemptible
    <3>2. CASE u # t
      BY <1>8, <3>2, SMTT(60) DEF StealEnd, EndOfLists, At, Goto, TypeOK, LocalsOK, Preemptible
    <3> QED BY <3>1, <3>2, Zenon
  <2> QED BY <2>1, <2>2, <2>3, Zenon
<1>9. ASSUME NEW t \in Thread, StealPop(t) PROVE LInv'
  <2>0. pc[t] = "stealpop" /\ cpu[t] # Off /\ i[t] \in CPU \ {cid[t]} /\ r[t] = Null
    BY <1>9, Zenon DEF StealPop, At, LocalsOK, HoldOtherPC
  <2>1. CASE ReadFirst(t, i[t]) /\ Goto(t, "stealunlink") /\ UNCHANGED <<lock, i>>
    <3>1. Head(freelist[i[t]]) \in Page /\ Head(freelist[i[t]]) # Null
          /\ Tail(freelist[i[t]]) \in Seq(Page)
      BY <2>0, <2>1, FirstOfList, Zenon DEF TypeOK, ReadFirst
    <3>2. TypeOK'
      BY <1>9, <2>1, <3>1, Zenon DEF StealPop, ReadFirst, Goto, TypeOK, KallocPC, StealPC
    <3>3. LocksMatchCode'
      BY <1>9, <2>1, SMTT(60) DEF StealPop, At, Goto, TypeOK, LocksMatchCode, Inside, HoldOwnPC, HoldOtherPC, StealPC
    <3>4. LocalsOK(t)'
      BY <1>9, <2>0, <2>1, <3>1, SMTT(60) DEF StealPop, ReadFirst, Goto, TypeOK, LocalsOK, HoldOtherPC, StealPC, KfreePC, Preemptible
    <3>5. ASSUME NEW u \in Thread, u # t PROVE LocalsOK(u)'
      BY <1>9, <2>1, <3>5, Zenon DEF StealPop, ReadFirst, Goto, TypeOK, LocalsOK, Preemptible
    <3> QED BY <3>2, <3>3, <3>4, <3>5, Zenon
  <2>2. CASE /\ freelist[i[t]] = <<>> /\ Release(t, i[t])
             /\ i' = [i EXCEPT ![t] = @ + 1] /\ Goto(t, "steal") /\ UNCHANGED <<r, next>>
    <3>1. TypeOK'
      <4>1. i[t] + 1 \in 0 .. NCPU
        BY <2>0 DEF CPU
      <4> QED BY <1>9, <2>2, <4>1, ZenonT(60) DEF StealPop, Release, Goto, TypeOK, KallocPC, StealPC
    <3>2. LocksMatchCode'
      BY <1>9, <2>0, <2>2 DEF StealPop, Release, Goto, TypeOK, LocksMatchCode, Inside, HoldOwnPC, HoldOtherPC, StealPC
    <3>3. LocalsOK(t)'
      BY <1>9, <2>0, <2>2, Zenon DEF StealPop, Goto, TypeOK, LocalsOK, HoldOtherPC, StealPC, KfreePC, Preemptible
    <3>4. ASSUME NEW u \in Thread, u # t PROVE LocalsOK(u)'
      BY <1>9, <2>2, <3>4, Zenon DEF StealPop, Goto, TypeOK, LocalsOK, Preemptible
    <3> QED BY <3>1, <3>2, <3>3, <3>4, Zenon
  <2> QED BY <1>9, <2>1, <2>2, Zenon DEF StealPop
<1>10. ASSUME NEW t \in Thread, StealUnlink(t) PROVE LInv'
  <2>1. TypeOK'
    <3>1. 0 \in 0 .. NCPU /\ <<>> \in Seq(Page)
      OBVIOUS
    <3>2. "release" \in KallocPC
      BY Zenon DEF KallocPC
    <3> QED BY <1>10, <3>1, <3>2, ZenonT(60) DEF StealUnlink, Unlink, Release, Goto, TypeOK
  <2>2. LocksMatchCode'
    BY <1>10 DEF StealUnlink, Unlink, Release, At, Goto, TypeOK, LocksMatchCode, Inside, HoldOwnPC, HoldOtherPC, StealPC, LocalsOK
  <2>3. ASSUME NEW u \in Thread PROVE LocalsOK(u)'
    <3>1. CASE u = t
      BY <1>10, <3>1, Zenon DEF StealUnlink, Unlink, Release, At, Goto, TypeOK, LocalsOK, HoldOtherPC, StealPC, KfreePC, Null, Preemptible
    <3>2. CASE u # t
      BY <1>10, <3>2, SMTT(60) DEF StealUnlink, Unlink, Release, At, Goto, TypeOK, LocalsOK, Preemptible, LocksMatchCode, Inside, HoldOwnPC, HoldOtherPC, StealPC
    <3> QED BY <3>1, <3>2, Zenon
  <2> QED BY <2>1, <2>2, <2>3, Zenon
<1>11. ASSUME NEW t \in Thread, KallocRelease(t) PROVE LInv'
  <2>1. TypeOK'
    BY <1>11, Zenon DEF KallocRelease, Release, At, Goto, TypeOK, KallocPC, KfreePC
  <2>2. LocksMatchCode'
    BY <1>11 DEF KallocRelease, Release, At, Goto, TypeOK, LocksMatchCode, Inside, HoldOwnPC, HoldOtherPC, StealPC
  <2>3. ASSUME NEW u \in Thread PROVE LocalsOK(u)'
    <3>1. CASE u = t
      BY <1>11, <3>1, Zenon DEF KallocRelease, Release, At, Goto, TypeOK, LocalsOK, HoldOtherPC, StealPC, KfreePC, Null, Preemptible
    <3>2. CASE u # t
      BY <1>11, <3>2, Zenon DEF KallocRelease, Release, At, Goto, TypeOK, LocalsOK, Preemptible
    <3> QED BY <3>1, <3>2, Zenon
  <2> QED BY <2>1, <2>2, <2>3, Zenon
<1>12. ASSUME NEW t \in Thread, KallocReturn(t) PROVE LInv'
  <2>1. TypeOK'
    BY <1>12, SMTT(60) DEF KallocReturn, Return, At, Goto, TypeOK, CPU, Null
  <2>2. LocksMatchCode'
    BY <1>12 DEF KallocReturn, Return, At, Goto, TypeOK, LocksMatchCode, Inside, HoldOwnPC, HoldOtherPC, StealPC
  <2>3. ASSUME NEW u \in Thread PROVE LocalsOK(u)'
    <3>1. CASE u = t
      BY <1>12, <3>1, Zenon DEF KallocReturn, Return, At, Goto, TypeOK, LocalsOK, HoldOtherPC, StealPC, KfreePC, Null, Preemptible
    <3>2. CASE u # t
      BY <1>12, <3>2, Zenon DEF KallocReturn, Return, At, Goto, TypeOK, LocalsOK, Preemptible
    <3> QED BY <3>1, <3>2, Zenon
  <2> QED BY <2>1, <2>2, <2>3, Zenon
<1>13. ASSUME NEW t \in Thread, KfreePushOff(t) PROVE LInv'
  <2>1. TypeOK'
    BY <1>13, Zenon DEF KfreePushOff, At, Goto, TypeOK, KallocPC, KfreePC
  <2>2. LocksMatchCode'
    BY <1>13 DEF KfreePushOff, At, Goto, TypeOK, LocksMatchCode, Inside, HoldOwnPC, HoldOtherPC, StealPC
  <2>3. ASSUME NEW u \in Thread PROVE LocalsOK(u)'
    <3>1. CASE u = t
      BY <1>13, <3>1, Zenon DEF KfreePushOff, At, Goto, TypeOK, LocalsOK, HoldOtherPC, StealPC, KfreePC, Null, Preemptible
    <3>2. CASE u # t
      BY <1>13, <3>2, Zenon DEF KfreePushOff, At, Goto, TypeOK, LocalsOK, Preemptible
    <3> QED BY <3>1, <3>2, Zenon
  <2> QED BY <2>1, <2>2, <2>3, Zenon
<1>14. ASSUME NEW t \in Thread, KfreeAcquire(t) PROVE LInv'
  <2>1. TypeOK'
    BY <1>14, Zenon DEF KfreeAcquire, Acquire, At, Goto, TypeOK, KallocPC, KfreePC
  <2>2. LocksMatchCode'
    BY <1>14 DEF KfreeAcquire, Acquire, At, Goto, TypeOK, LocksMatchCode, Inside, HoldOwnPC, HoldOtherPC, StealPC
  <2>3. ASSUME NEW u \in Thread PROVE LocalsOK(u)'
    <3>1. CASE u = t
      BY <1>14, <3>1, SMTT(60) DEF KfreeAcquire, Acquire, At, Goto, TypeOK, LocalsOK, HoldOtherPC, StealPC, KfreePC, Null, Preemptible
    <3>2. CASE u # t
      BY <1>14, <3>2, Zenon DEF KfreeAcquire, Acquire, At, Goto, TypeOK, LocalsOK, Preemptible
    <3> QED BY <3>1, <3>2, Zenon
  <2> QED BY <2>1, <2>2, <2>3, Zenon
<1>15. ASSUME NEW t \in Thread, KfreeLink(t) PROVE LInv'
  <2>1. TypeOK'
    BY <1>15, Zenon DEF KfreeLink, At, Goto, TypeOK, KallocPC, KfreePC
  <2>2. LocksMatchCode'
    BY <1>15 DEF KfreeLink, At, Goto, TypeOK, LocksMatchCode, Inside, HoldOwnPC, HoldOtherPC, StealPC
  <2>3. ASSUME NEW u \in Thread PROVE LocalsOK(u)'
    <3>1. CASE u = t
      BY <1>15, <3>1, SMTT(60) DEF KfreeLink, At, Goto, TypeOK, LocalsOK, HoldOtherPC, StealPC, KfreePC, Null, Preemptible
    <3>2. CASE u # t
      BY <1>15, <3>2, Zenon DEF KfreeLink, At, Goto, TypeOK, LocalsOK, Preemptible
    <3> QED BY <3>1, <3>2, Zenon
  <2> QED BY <2>1, <2>2, <2>3, Zenon
<1>16. ASSUME NEW t \in Thread, KfreePush(t) PROVE LInv'
  <2>1. TypeOK'
    <3>1. r[t] \in Page
      BY <1>16, Zenon DEF KfreePush, At, TypeOK, LocalsOK, KfreePC
    <3>2. <<r[t]>> \o next[t] \in Seq(Page)
      BY <3>1 DEF TypeOK
    <3>3. 0 \in CPU
      BY SMTT(60) DEF CPU
    <3> QED BY <1>16, <3>2, <3>3 DEF KfreePush, Release, Return, Goto, TypeOK
  <2>2. LocksMatchCode'
    BY <1>16, SMTT(60) DEF KfreePush, Release, Return, At, Goto, TypeOK, LocksMatchCode, Inside, HoldOwnPC, HoldOtherPC, StealPC, LocalsOK
  <2>3. ASSUME NEW u \in Thread PROVE LocalsOK(u)'
    <3>1. CASE u = t
      BY <1>16, <3>1, SMTT(60) DEF KfreePush, Release, Return, At, Goto, TypeOK, LocalsOK, HoldOtherPC, StealPC, KfreePC, Null, Preemptible
    <3>2. CASE u # t
      BY <1>16, <3>2, SMTT(60) DEF KfreePush, Release, Return, At, Goto, TypeOK, LocalsOK, Preemptible, LocksMatchCode, Inside, HoldOwnPC, HoldOtherPC, StealPC
    <3> QED BY <3>1, <3>2, Zenon
  <2> QED BY <2>1, <2>2, <2>3, Zenon
<1>17. ASSUME NEW t \in Thread, NEW pa \in Page, KfreeEnter(t, pa) PROVE LInv'
  <2>1. TypeOK'
    BY <1>17, Zenon DEF KfreeEnter, At, Goto, TypeOK, KfreePC, Off
  <2>2. LocksMatchCode'
    BY <1>17, SMTT(60) DEF KfreeEnter, At, Goto, TypeOK, LocksMatchCode, Inside, HoldOwnPC, HoldOtherPC, StealPC
  <2>3. ASSUME NEW u \in Thread PROVE LocalsOK(u)'
    <3>0. pa # Null
      BY DEF Page, Null
    <3>1. CASE u = t
      BY <1>17, <3>0, <3>1, SMTT(60) DEF KfreeEnter, At, Goto, TypeOK, LocalsOK, HoldOtherPC, StealPC, KfreePC, Preemptible
    <3>2. CASE u # t
      BY <1>17, <3>2, Zenon DEF KfreeEnter, At, Goto, TypeOK, LocalsOK, Preemptible
    <3> QED BY <3>1, <3>2, Zenon
  <2> QED BY <2>1, <2>2, <2>3, Zenon
<1>18. ASSUME NEW t \in Thread, Preempt(t) PROVE LInv'
  <2>1. TypeOK'
    BY <1>18, SMTT(60) DEF Preempt, Preemptible, TypeOK
  <2>2. LocksMatchCode'
    BY <1>18, SMTT(60) DEF Preempt, Preemptible, TypeOK, LocksMatchCode, Inside, HoldOwnPC, HoldOtherPC, StealPC
  <2>3. ASSUME NEW u \in Thread PROVE LocalsOK(u)'
    <3>1. CASE u = t
      BY <1>18, <3>1, SMTT(60) DEF Preempt, Preemptible, TypeOK, LocalsOK, HoldOtherPC, StealPC, KfreePC, Null
    <3>2. CASE u # t
      BY <1>18, <3>2, Zenon DEF Preempt, Preemptible, TypeOK, LocalsOK
    <3> QED BY <3>1, <3>2, Zenon
  <2> QED BY <2>1, <2>2, <2>3, Zenon
<1>19. ASSUME NEW t \in Thread, NEW c \in CPU, Dispatch(t, c) PROVE LInv'
  <2>1. TypeOK'
    BY <1>19, Zenon DEF Dispatch, TypeOK
  <2>2. LocksMatchCode'
    BY <1>19, SMTT(60) DEF Dispatch, TypeOK, LocksMatchCode, Inside, HoldOwnPC, HoldOtherPC, StealPC
  <2>3. ASSUME NEW u \in Thread PROVE LocalsOK(u)'
    <3>1. CASE u = t
      BY <1>19, <3>1, SMTT(60) DEF Dispatch, TypeOK, LocalsOK, HoldOtherPC, StealPC, KfreePC, Null, Preemptible
    <3>2. CASE u # t
      BY <1>19, <3>2, SMTT(60) DEF Dispatch, TypeOK, LocalsOK, Preemptible
    <3> QED BY <3>1, <3>2, Zenon
  <2> QED BY <2>1, <2>2, <2>3, Zenon
<1>20. CASE UNCHANGED vars
  BY <1>20 DEF vars, TypeOK, LocksMatchCode, LocalsOK, Preemptible, Inside
<1> QED BY <1>1, <1>2, <1>3, <1>4, <1>5, <1>6, <1>7, <1>8, <1>9, <1>10, <1>11, <1>12, <1>13, <1>14, <1>15, <1>16, <1>17, <1>18, <1>19, <1>20, Zenon DEF Next, KallocStep, KfreeStep

\* In every reachable state locks and locals are as the code says.
THEOREM LocksAndLocals == Spec => []LInv
  BY LInvInit, LInvNext, PTL DEF Spec

\* Values stay in their types.
THEOREM TypeCorrect == Spec => []TypeOK
  BY LocksAndLocals, PTL DEF LInv

\* No path keeps a lock it should have released, or is preempted with one.
THEOREM LocksGivenBack == Spec => []LocksMatchCode
  BY LocksAndLocals, PTL DEF LInv

-----------------------------------------------------------------------------
\* A thread that steals found its own list empty, and it is empty still.
THEOREM OwnListStaysEmpty == Spec => []OwnListEmptyWhileStealing
<1>1. Init => OwnListEmptyWhileStealing
  BY SMTT(60) DEF Init, OwnListEmptyWhileStealing, StealPC
<1>2. LInv /\ OwnListEmptyWhileStealing /\ [Next]_vars => OwnListEmptyWhileStealing'
  <2> SUFFICES ASSUME LInv, OwnListEmptyWhileStealing, [Next]_vars,
                      NEW u \in Thread, pc'[u] \in StealPC
               PROVE  freelist'[cid'[u]] = <<>>
    BY SMTT(60) DEF OwnListEmptyWhileStealing
  <2> USE DEF LInv
  <2>1. ASSUME NEW t \in Thread, KallocUnlink(t) \/ KfreePush(t) PROVE freelist'[cid'[u]] = <<>>
    <3>1. u # t /\ pc[u] \in StealPC /\ cid'[u] = cid[u] /\ freelist[cid[u]] = <<>>
      BY <2>1, SMTT(60) DEF KallocUnlink, KfreePush, Return, Goto, TypeOK, StealPC, OwnListEmptyWhileStealing
    <3>2. lock[cid[u]] = u /\ lock[cid[t]] = t
      BY <2>1, <3>1, SMTT(60) DEF KallocUnlink, KfreePush, At, TypeOK, LocksMatchCode, Inside, HoldOwnPC
    <3>3. cid[u] # cid[t]
      BY <3>1, <3>2, SMTT(60)
    <3>4. \E s : freelist' = [freelist EXCEPT ![cid[t]] = s]
      BY <2>1, ZenonT(60) DEF KallocUnlink, KfreePush, Unlink
    <3> QED BY <3>1, <3>3, <3>4, SMTT(60) DEF TypeOK
  <2>2. ASSUME NEW t \in Thread, StealUnlink(t) PROVE freelist'[cid'[u]] = <<>>
    <3>1. u # t /\ pc[u] \in StealPC /\ cid'[u] = cid[u] /\ freelist[cid[u]] = <<>>
      BY <2>2, SMTT(60) DEF StealUnlink, Goto, TypeOK, StealPC, OwnListEmptyWhileStealing
    <3>2. lock[cid[u]] = u /\ lock[i[t]] = t
      BY <2>2, <3>1, Zenon DEF StealUnlink, Release, At, TypeOK, LocksMatchCode, Inside, HoldOwnPC
    <3> QED BY <2>2, <3>1, <3>2, SMTT(60) DEF StealUnlink, Unlink, TypeOK
  <2>3. ASSUME NEW t \in Thread, KallocPop(t) PROVE freelist'[cid'[u]] = <<>>
    BY <2>3, SMTT(60) DEF KallocPop, Goto, TypeOK, StealPC, OwnListEmptyWhileStealing
  <2>4. ASSUME NEW t \in Thread,
               \/ KallocEnter(t) \/ KallocPushOff(t) \/ KallocAcquire(t)
               \/ StealSkip(t) \/ StealAcquire(t) \/ StealEnd(t) \/ KallocRelease(t)
               \/ KfreePushOff(t) \/ KfreeAcquire(t) \/ KfreeLink(t)
        PROVE  freelist'[cid'[u]] = <<>>
    BY <2>4, SMTT(60) DEF KallocEnter, KallocPushOff, KallocAcquire, StealSkip, StealAcquire, StealEnd,
                KallocRelease, KfreePushOff, KfreeAcquire, KfreeLink, At, Goto, TypeOK,
                StealPC, OwnListEmptyWhileStealing
  <2>5. ASSUME NEW t \in Thread,
               StealPop(t) \/ KallocReturn(t) \/ \E pa \in Page : KfreeEnter(t, pa)
        PROVE  freelist'[cid'[u]] = <<>>
    <3>1. u # t \/ pc[u] \in StealPC
      BY <2>5, Zenon DEF StealPop, KallocReturn, KfreeEnter, Return, At, Goto, TypeOK, StealPC
    <3>2. pc[u] \in StealPC /\ cid'[u] = cid[u]
      <4>1. CASE StealPop(t)
        BY <3>1, <4>1, Zenon DEF StealPop, Goto, TypeOK
      <4>2. CASE KallocReturn(t)
        BY <4>2, Zenon DEF KallocReturn, Return, Goto, TypeOK, StealPC
      <4>3. CASE \E pa \in Page : KfreeEnter(t, pa)
        BY <4>3, Zenon DEF KfreeEnter, Goto, TypeOK, StealPC
      <4> QED BY <2>5, <4>1, <4>2, <4>3, Zenon
    <3>3. freelist' = freelist
      BY <2>5, Zenon DEF StealPop, KallocReturn, KfreeEnter
    <3> QED BY <3>2, <3>3, Zenon DEF OwnListEmptyWhileStealing
  <2>6. ASSUME NEW t \in Thread, Preempt(t) \/ \E c \in CPU : Dispatch(t, c)
        PROVE  freelist'[cid'[u]] = <<>>
    BY <2>6, Zenon DEF Preempt, Dispatch, OwnListEmptyWhileStealing
  <2>7. CASE UNCHANGED vars
    BY <2>7, Zenon DEF vars, OwnListEmptyWhileStealing
  <2> QED BY <2>1, <2>2, <2>3, <2>4, <2>5, <2>6, <2>7, ZenonT(60) DEF Next, KallocStep, KfreeStep
<1> QED BY <1>1, <1>2, LocksAndLocals, PTL DEF Spec

-----------------------------------------------------------------------------
PagesOf(f) == UNION {Range(f[c]) : c \in CPU}

\* Free lists without repetitions, within one list or between two.
Disjoint(f) ==
  /\ \A c \in CPU : IsInjective(f[c])
  /\ \A c, d \in CPU : c # d => Range(f[c]) \cap Range(f[d]) = {}

-----------------------------------------------------------------------------
\* Tail takes exactly the head off a list without repetitions.
LEMMA TailOfList ==
  ASSUME NEW S, NEW s \in Seq(S), s # <<>>, IsInjective(s)
  PROVE  /\ Head(s) \in S
         /\ Tail(s) \in Seq(S)
         /\ IsInjective(Tail(s))
         /\ Range(Tail(s)) = Range(s) \ {Head(s)}
         /\ Head(s) \in Range(s)
<1>1. Len(s) \in Nat /\ Len(s) > 0 /\ DOMAIN s = 1 .. Len(s) /\ Head(s) = s[1]
  OBVIOUS
<1>2. /\ Tail(s) \in Seq(S) /\ Len(Tail(s)) = Len(s) - 1
      /\ DOMAIN Tail(s) = 1 .. Len(s) - 1
      /\ \A k \in 1 .. Len(s) - 1 : Tail(s)[k] = s[k + 1]
  BY <1>1
<1>3. IsInjective(Tail(s))
  BY <1>1, <1>2 DEF IsInjective
<1>4. ASSUME NEW x PROVE x \in Range(Tail(s)) <=> x \in Range(s) \ {Head(s)}
  <2>1. ASSUME x \in Range(Tail(s)) PROVE x \in Range(s) \ {Head(s)}
    <3>1. PICK k \in 1 .. Len(s) - 1 : x = s[k + 1]
      BY <1>2, <2>1, Zenon DEF Range
    <3> QED BY <1>1, <3>1 DEF Range, IsInjective
  <2>2. ASSUME x \in Range(s), x # Head(s) PROVE x \in Range(Tail(s))
    <3>1. PICK k \in 1 .. Len(s) : x = s[k]
      BY <1>1, <2>2, Zenon DEF Range
    <3>2. k - 1 \in 1 .. Len(s) - 1 /\ Tail(s)[k - 1] = x
      BY <1>1, <1>2, <2>2, <3>1
    <3> QED BY <1>2, <3>2, ZenonT(60) DEF Range
  <2> QED BY <2>1, <2>2, Zenon
<1>5. Range(Tail(s)) = Range(s) \ {Head(s)}
  BY <1>4, Zenon
<1>6. Head(s) \in S /\ Head(s) \in Range(s)
  BY <1>1 DEF Range
<1> QED BY <1>2, <1>3, <1>5, <1>6, Zenon

\* A page pushed on a list that does not have it.
LEMMA PushOnList ==
  ASSUME NEW S, NEW s \in Seq(S), NEW p \in S, p \notin Range(s), IsInjective(s)
  PROVE  /\ <<p>> \o s \in Seq(S)
         /\ IsInjective(<<p>> \o s)
         /\ Range(<<p>> \o s) = Range(s) \cup {p}
<1> DEFINE q == <<p>> \o s
<1>1. Len(s) \in Nat /\ DOMAIN s = 1 .. Len(s)
  OBVIOUS
<1>2. /\ q \in Seq(S) /\ DOMAIN q = 1 .. Len(s) + 1 /\ q[1] = p
      /\ \A k \in 2 .. Len(s) + 1 : q[k] = s[k - 1]
  BY <1>1
<1> HIDE DEF q
<1>3. \A k \in 1 .. Len(s) : s[k] # p
  BY <1>1, Zenon DEF Range
<1>4. IsInjective(q)
  <2> SUFFICES ASSUME NEW a \in 1 .. Len(s) + 1, NEW b \in 1 .. Len(s) + 1, q[a] = q[b]
               PROVE  a = b
    BY <1>2, Zenon DEF IsInjective
  <2>1. CASE a = 1 \/ b = 1
    BY <1>1, <1>2, <1>3, <2>1
  <2>2. CASE a # 1 /\ b # 1
    <3>1. a - 1 \in 1 .. Len(s) /\ b - 1 \in 1 .. Len(s) /\ s[a - 1] = s[b - 1]
      BY <1>1, <1>2, <2>2
    <3> QED BY <1>1, <3>1 DEF IsInjective
  <2> QED BY <2>1, <2>2, Zenon
<1>5. ASSUME NEW x PROVE x \in Range(q) <=> x \in Range(s) \cup {p}
  <2>1. ASSUME x \in Range(q) PROVE x \in Range(s) \cup {p}
    <3>1. PICK k \in 1 .. Len(s) + 1 : x = q[k]
      BY <1>2, <2>1, Zenon DEF Range
    <3>2. CASE k = 1
      BY <1>2, <3>1, <3>2, Zenon
    <3>3. CASE k # 1
      <4>1. k - 1 \in DOMAIN s /\ x = s[k - 1]
        BY <1>1, <1>2, <3>1, <3>3
      <4> QED BY <4>1, Zenon DEF Range
    <3> QED BY <3>2, <3>3, Zenon
  <2>2. ASSUME x \in Range(s) PROVE x \in Range(q)
    <3>1. PICK k \in 1 .. Len(s) : x = s[k]
      BY <1>1, <2>2, Zenon DEF Range
    <3>2. k + 1 \in DOMAIN q /\ q[k + 1] = x
      BY <1>1, <1>2, <3>1
    <3> QED BY <3>2, Zenon DEF Range
  <2>3. p \in Range(q)
    <3>1. 1 \in DOMAIN q /\ q[1] = p
      BY <1>1, <1>2
    <3> QED BY <3>1, Zenon DEF Range
  <2> QED BY <2>1, <2>2, <2>3, Zenon
<1>6. Range(q) = Range(s) \cup {p}
  BY <1>5, Zenon
<1> QED BY <1>2, <1>4, <1>6, Zenon DEF q

\* A pop from list l, seen from all the lists.
LEMMA PopFromLists ==
  ASSUME NEW f \in [CPU -> Seq(Page)], Disjoint(f), NEW l \in CPU, f[l] # <<>>,
         NEW g, g = [f EXCEPT ![l] = Tail(f[l])]
  PROVE  /\ g \in [CPU -> Seq(Page)]
         /\ Disjoint(g)
         /\ Head(f[l]) \in PagesOf(f)
         /\ PagesOf(g) = PagesOf(f) \ {Head(f[l])}
<1> DEFINE h == Head(f[l])
<1>1. /\ Tail(f[l]) \in Seq(Page) /\ IsInjective(Tail(f[l]))
      /\ Range(Tail(f[l])) = Range(f[l]) \ {h} /\ h \in Range(f[l])
  BY TailOfList, Zenon DEF Disjoint
<1>2. /\ g \in [CPU -> Seq(Page)] /\ g[l] = Tail(f[l])
      /\ \A c \in CPU : c # l => g[c] = f[c]
  BY <1>1, Zenon
<1> HIDE DEF h
<1>3. \A c \in CPU : IsInjective(g[c])
  BY <1>1, <1>2, Zenon DEF Disjoint
<1>4. \A c \in CPU : Range(g[c]) = Range(f[c]) \ {h}
  BY <1>1, <1>2, Zenon DEF Disjoint
<1>5. Disjoint(g)
  BY <1>3, <1>4, Zenon DEF Disjoint
<1>6. PagesOf(g) = PagesOf(f) \ {h} /\ h \in PagesOf(f)
  BY <1>1, <1>4 DEF PagesOf
<1> QED BY <1>2, <1>5, <1>6, ZenonT(60) DEF h

\* A push on list l of a page that is on no list.
LEMMA PushOnLists ==
  ASSUME NEW f \in [CPU -> Seq(Page)], Disjoint(f), NEW l \in CPU,
         NEW p \in Page, p \notin PagesOf(f),
         NEW g, g = [f EXCEPT ![l] = <<p>> \o f[l]]
  PROVE  /\ g \in [CPU -> Seq(Page)]
         /\ Disjoint(g)
         /\ PagesOf(g) = PagesOf(f) \cup {p}
<1>0. \A c \in CPU : p \notin Range(f[c])
  BY Zenon DEF PagesOf
<1>1. /\ <<p>> \o f[l] \in Seq(Page) /\ IsInjective(<<p>> \o f[l])
      /\ Range(<<p>> \o f[l]) = Range(f[l]) \cup {p}
  BY <1>0, PushOnList DEF Disjoint
<1>2. /\ g \in [CPU -> Seq(Page)] /\ g[l] = <<p>> \o f[l]
      /\ \A c \in CPU : c # l => g[c] = f[c]
  BY <1>1, Zenon
<1>3. \A c \in CPU : IsInjective(g[c])
  BY <1>1, <1>2, Zenon DEF Disjoint
<1>4. Range(g[l]) = Range(f[l]) \cup {p} /\ \A c \in CPU : c # l => Range(g[c]) = Range(f[c])
  BY <1>1, <1>2, Zenon
<1>5. Disjoint(g)
  BY <1>0, <1>3, <1>4 DEF Disjoint
<1>6. PagesOf(g) = PagesOf(f) \cup {p}
  BY <1>4, ZenonT(60) DEF PagesOf
<1> QED BY <1>2, <1>5, <1>6, ZenonT(60)

-----------------------------------------------------------------------------
PInv == PageInOnePlace /\ NoPageLost

\* Pages stay where they are when lists, callers and hands do.
LEMMA PagesUnmoved ==
  ASSUME PInv, UNCHANGED <<freelist, allocated>>,
         \A u \in Thread : (InHand(u)' <=> InHand(u)) /\ (InHand(u) => r'[u] = r[u])
  PROVE  PInv'
<1>1. ListPages' = ListPages
  BY SMTT(60) DEF ListPages
<1>2. {r[t] : t \in {u \in Thread : InHand(u)}}' = {r[t] : t \in {u \in Thread : InHand(u)}}
  OBVIOUS
<1>3. NoPageLost'
  BY <1>1, <1>2, Zenon DEF PInv, NoPageLost
<1>4. PageInOnePlace'
  BY <1>1, Zenon DEF PInv, PageInOnePlace
<1> QED BY <1>3, <1>4, SMTT(60) DEF PInv

\* A page goes from the head of a list into the hands of thread t.
LEMMA PageTaken ==
  ASSUME TypeOK, PInv, NEW t \in Thread, NEW l \in CPU, freelist[l] # <<>>,
         r[t] = Head(freelist[l]), ~ InHand(t), InHand(t)',
         freelist' = [freelist EXCEPT ![l] = Tail(freelist[l])],
         UNCHANGED <<allocated, r>>,
         \A u \in Thread \ {t} : InHand(u)' <=> InHand(u)
  PROVE  /\ PInv'
         /\ r[t] \in ListPages /\ ListPages' = ListPages \ {r[t]}
<1>1. /\ Disjoint(freelist') /\ r[t] \in ListPages
      /\ ListPages' = ListPages \ {r[t]}
  <2>1. Disjoint(freelist) /\ freelist \in [CPU -> Seq(Page)]
    BY Zenon DEF TypeOK, PInv, PageInOnePlace, Disjoint
  <2>2. /\ Disjoint(freelist') /\ Head(freelist[l]) \in PagesOf(freelist)
        /\ PagesOf(freelist') = PagesOf(freelist) \ {Head(freelist[l])}
    BY <2>1, PopFromLists, ZenonT(60)
  <2> QED BY <2>2, ZenonT(60) DEF PagesOf, ListPages
<1>2. {r[u] : u \in {v \in Thread : InHand(v)}}' = {r[u] : u \in {v \in Thread : InHand(v)}} \cup {r[t]}
  OBVIOUS
<1>3. NoPageLost'
  BY <1>1, <1>2, Zenon DEF PInv, NoPageLost
<1>4. PageInOnePlace'
  BY <1>1, ZenonT(60) DEF PInv, PageInOnePlace, Disjoint
<1> QED BY <1>1, <1>3, <1>4, Zenon DEF PInv

\* Thread t pushes the page in its hands on a list.
LEMMA PageReturned ==
  ASSUME TypeOK, PInv, NEW t \in Thread, NEW l \in CPU, r[t] \in Page,
         InHand(t), ~ InHand(t)',
         freelist' = [freelist EXCEPT ![l] = <<r[t]>> \o freelist[l]],
         UNCHANGED allocated,
         \A u \in Thread \ {t} : (InHand(u)' <=> InHand(u)) /\ r'[u] = r[u]
  PROVE  /\ PInv'
         /\ r[t] \notin ListPages /\ ListPages' = ListPages \cup {r[t]}
<1>1. /\ Disjoint(freelist') /\ r[t] \notin ListPages
      /\ ListPages' = ListPages \cup {r[t]}
  <2>1. Disjoint(freelist) /\ freelist \in [CPU -> Seq(Page)] /\ r[t] \notin PagesOf(freelist)
    BY Zenon DEF TypeOK, PInv, PageInOnePlace, Disjoint, ListPages, PagesOf
  <2>2. /\ Disjoint(freelist')
        /\ PagesOf(freelist') = PagesOf(freelist) \cup {r[t]}
    BY <2>1, PushOnLists, ZenonT(60)
  <2> QED BY <2>1, <2>2, ZenonT(60) DEF PagesOf, ListPages
<1>2. {r[u] : u \in {v \in Thread : InHand(v)}}' \cup {r[t]} = {r[u] : u \in {v \in Thread : InHand(v)}}
  OBVIOUS
<1>3. NoPageLost'
  BY <1>1, <1>2, Zenon DEF PInv, NoPageLost
<1>4. PageInOnePlace'
  BY <1>1, ZenonT(60) DEF PInv, PageInOnePlace, Disjoint
<1> QED BY <1>1, <1>3, <1>4, Zenon DEF PInv

\* At first list 0 has every page once.
LEMMA PInvInit == Init => PInv /\ PA!Init
<1> SUFFICES ASSUME Init PROVE PInv /\ PA!Init
  OBVIOUS
<1> USE KallocAssumption
<1>1. IsInjective(FreeRange) /\ DOMAIN FreeRange = 1 .. NPAGE
  BY DEF FreeRange, IsInjective
<1>2. ASSUME NEW p PROVE p \in Range(FreeRange) <=> p \in Page
  <2>1. ASSUME p \in Page PROVE p \in Range(FreeRange)
    <3>1. NPAGE + 1 - p \in 1 .. NPAGE /\ FreeRange[NPAGE + 1 - p] = p
      BY <2>1 DEF FreeRange, Page
    <3> QED BY <1>1, <3>1, Zenon DEF Range
  <2>2. ASSUME p \in Range(FreeRange) PROVE p \in Page
    BY <2>2 DEF Range, FreeRange, Page
  <2> QED BY <2>1, <2>2, Zenon
<1>3. 0 \in CPU /\ freelist[0] = FreeRange /\ \A c \in CPU \ {0} : freelist[c] = <<>>
  BY DEF Init, CPU
<1>4. IsInjective(<<>>) /\ Range(<<>>) = {}
  BY DEF IsInjective, Range
<1>5. ListPages = Page
  BY <1>2, <1>3, <1>4 DEF ListPages
<1>6. \A t \in Thread : ~ InHand(t)
  BY Zenon DEF Init, InHand
<1>7. PageInOnePlace
  BY <1>1, <1>3, <1>4, <1>5, <1>6, Zenon DEF Init, PageInOnePlace
<1>8. NoPageLost
  BY <1>5, <1>6, Zenon DEF Init, NoPageLost
<1>9. PA!Init
  BY <1>5, Zenon DEF PA!Init
<1> QED BY <1>7, <1>8, <1>9, Zenon DEF PInv

\* Every step moves at most one page, and on the free pages it is a step of
\* the atomic allocator.
LEMMA PInvNext == LInv /\ PInv /\ [Next]_vars => PInv' /\ [PA!Next]_(PA!avars)
<1> SUFFICES ASSUME LInv, PInv, [Next]_vars PROVE PInv' /\ [PA!Next]_(PA!avars)
  OBVIOUS
<1> USE DEF LInv
<1>a. ASSUME NEW t \in Thread, NEW l \in CPU, freelist[l] # <<>>,
             r[t] = Head(freelist[l]), ~ InHand(t), InHand(t)',
             freelist' = [freelist EXCEPT ![l] = Tail(freelist[l])],
             UNCHANGED <<allocated, r>>,
             \A u \in Thread \ {t} : InHand(u)' <=> InHand(u)
      PROVE  PInv' /\ [PA!Next]_(PA!avars)
  <2>1. PInv' /\ r[t] \in ListPages /\ ListPages' = ListPages \ {r[t]}
    BY <1>a, PageTaken, ZenonT(60)
  <2>2. r[t] \in Page
    BY <1>a, FirstOfList, Zenon DEF TypeOK
  <2>3. PA!Alloc(r[t])
    BY <2>1, <2>2, Zenon DEF PA!Alloc
  <2> QED BY <2>1, <2>2, <2>3, Zenon DEF PA!Next
<1>b. ASSUME UNCHANGED <<freelist, allocated>>,
             \A u \in Thread : (InHand(u)' <=> InHand(u)) /\ (InHand(u) => r'[u] = r[u])
      PROVE  PInv' /\ [PA!Next]_(PA!avars)
  BY <1>b, PagesUnmoved, Zenon DEF PA!avars, ListPages
<1>1. ASSUME NEW t \in Thread, KallocUnlink(t) PROVE PInv' /\ [PA!Next]_(PA!avars)
  <2>1. /\ cid[t] \in CPU /\ freelist[cid[t]] # <<>> /\ r[t] = Head(freelist[cid[t]])
        /\ next[t] = Tail(freelist[cid[t]]) /\ ~ InHand(t) /\ InHand(t)'
    BY <1>1, Zenon DEF KallocUnlink, Goto, At, TypeOK, LocalsOK, InHand
  <2>2. \A u \in Thread \ {t} : InHand(u)' <=> InHand(u)
    BY <1>1, Zenon DEF KallocUnlink, Goto, TypeOK, InHand
  <2> QED BY <1>1, <1>a, <2>1, <2>2, ZenonT(60) DEF KallocUnlink, Unlink
<1>2. ASSUME NEW t \in Thread, StealUnlink(t) PROVE PInv' /\ [PA!Next]_(PA!avars)
  <2>1. /\ i[t] \in CPU /\ freelist[i[t]] # <<>> /\ r[t] = Head(freelist[i[t]])
        /\ next[t] = Tail(freelist[i[t]]) /\ ~ InHand(t) /\ InHand(t)'
    BY <1>2, Zenon DEF StealUnlink, Goto, At, TypeOK, LocalsOK, InHand, HoldOtherPC
  <2>2. \A u \in Thread \ {t} : InHand(u)' <=> InHand(u)
    BY <1>2, Zenon DEF StealUnlink, Goto, TypeOK, InHand
  <2> QED BY <1>2, <1>a, <2>1, <2>2, ZenonT(60) DEF StealUnlink, Unlink
<1>3. ASSUME NEW t \in Thread, KfreePush(t) PROVE PInv' /\ [PA!Next]_(PA!avars)
  <2>1. /\ cid[t] \in CPU /\ r[t] \in Page /\ next[t] = freelist[cid[t]]
        /\ InHand(t) /\ ~ InHand(t)'
    BY <1>3, Zenon DEF KfreePush, Return, Goto, At, TypeOK, LocalsOK, KfreePC, InHand
  <2>2. \A u \in Thread \ {t} : (InHand(u)' <=> InHand(u)) /\ r'[u] = r[u]
    BY <1>3, SMTT(60) DEF KfreePush, Return, Goto, TypeOK, InHand
  <2>3. PInv' /\ r[t] \notin ListPages /\ ListPages' = ListPages \cup {r[t]}
    BY <1>3, <2>1, <2>2, PageReturned, ZenonT(60) DEF KfreePush
  <2>4. PA!Free(r[t])
    BY <2>1, <2>3, Zenon DEF PA!Free
  <2> QED BY <2>1, <2>3, <2>4, Zenon DEF PA!Next
<1>4. ASSUME NEW t \in Thread, KallocReturn(t) PROVE PInv' /\ [PA!Next]_(PA!avars)
  <2>1. ListPages' = ListPages
    BY <1>4, Zenon DEF KallocReturn, ListPages
  <2>2. \A u \in Thread \ {t} : (InHand(u)' <=> InHand(u)) /\ r'[u] = r[u]
    BY <1>4, Zenon DEF KallocReturn, Return, Goto, TypeOK, InHand
  <2>3. ~ InHand(t)' /\ (InHand(t) <=> r[t] # Null)
    BY <1>4, SMTT(60) DEF KallocReturn, Return, Goto, At, TypeOK, InHand
  <2>4. CASE r[t] = Null
    <3>1. allocated' = allocated
      BY <1>4, <2>4, Zenon DEF KallocReturn
    <3> QED BY <1>4, <1>b, <2>2, <2>3, <2>4, <3>1, Zenon DEF KallocReturn
  <2>5. CASE r[t] # Null
    <3>1. allocated' = allocated \cup {r[t]}
      BY <1>4, <2>5, Zenon DEF KallocReturn
    <3>2. {r[u] : u \in {v \in Thread : InHand(v)}}' \cup {r[t]} = {r[u] : u \in {v \in Thread : InHand(v)}}
      BY <2>2, <2>3, <2>5, Zenon
    <3>3. NoPageLost'
      BY <2>1, <3>1, <3>2, SMTT(60) DEF PInv, NoPageLost
    <3>4. PageInOnePlace'
      BY <1>4, <2>1, <2>2, <2>3, <2>5, <3>1, SMTT(60) DEF PInv, PageInOnePlace, KallocReturn
    <3> QED BY <2>1, <3>3, <3>4, Zenon DEF PInv, PA!avars
  <2> QED BY <2>4, <2>5, Zenon
<1>5. ASSUME NEW t \in Thread, NEW pa \in Page, KfreeEnter(t, pa) PROVE PInv' /\ [PA!Next]_(PA!avars)
  <2>1. ListPages' = ListPages
    BY <1>5, Zenon DEF KfreeEnter, ListPages
  <2>2. \A u \in Thread \ {t} : (InHand(u)' <=> InHand(u)) /\ r'[u] = r[u]
    BY <1>5, SMTT(60) DEF KfreeEnter, Goto, TypeOK, InHand
  <2>3. ~ InHand(t)
    BY <1>5, Zenon DEF KfreeEnter, At, LocalsOK, InHand
  <2>4. InHand(t)' /\ r'[t] = pa
    BY <1>5 DEF KfreeEnter, Goto, TypeOK, InHand, Page, Null
  <2>5. {r[u] : u \in {v \in Thread : InHand(v)}}' = {r[u] : u \in {v \in Thread : InHand(v)}} \cup {pa}
    BY <2>2, <2>3, <2>4, Zenon
  <2>6. pa \in allocated /\ allocated' = allocated \ {pa}
    BY <1>5, Zenon DEF KfreeEnter
  <2>7. NoPageLost'
    BY <2>1, <2>5, <2>6, SMTT(60) DEF PInv, NoPageLost
  <2>8. PageInOnePlace'
    BY <1>5, <2>1, <2>2, <2>4, <2>6, SMTT(60) DEF PInv, PageInOnePlace, KfreeEnter
  <2> QED BY <2>1, <2>7, <2>8, Zenon DEF PInv, PA!avars
<1>6. ASSUME NEW t \in Thread, KallocPop(t) \/ StealPop(t) PROVE PInv' /\ [PA!Next]_(PA!avars)
  <2>1. r[t] = Null
    BY <1>6, Zenon DEF KallocPop, StealPop, At, LocalsOK
  <2>2. ~ InHand(t)' /\ ~ InHand(t)
    BY <1>6, <2>1, SMTT(60) DEF KallocPop, StealPop, Goto, TypeOK, InHand
  <2>3. \A u \in Thread \ {t} : (InHand(u)' <=> InHand(u)) /\ r'[u] = r[u]
    BY <1>6 DEF KallocPop, StealPop, ReadFirst, Goto, TypeOK, InHand
  <2> QED BY <1>6, <1>b, <2>2, <2>3, SMTT(60) DEF KallocPop, StealPop
<1>7. ASSUME NEW t \in Thread,
             \/ KallocEnter(t) \/ KallocPushOff(t) \/ KallocAcquire(t)
             \/ StealSkip(t) \/ StealAcquire(t) \/ StealEnd(t) \/ KallocRelease(t)
             \/ KfreePushOff(t) \/ KfreeAcquire(t) \/ KfreeLink(t)
      PROVE  PInv' /\ [PA!Next]_(PA!avars)
  <2>1. UNCHANGED <<freelist, allocated, r>>
    BY <1>7, SMTT(60) DEF KallocEnter, KallocPushOff, KallocAcquire, StealSkip, StealAcquire, StealEnd,
                KallocRelease, KfreePushOff, KfreeAcquire, KfreeLink
  <2>2. \A u \in Thread : InHand(u)' <=> InHand(u)
    BY <1>7, <2>1, SMTT(60) DEF KallocEnter, KallocPushOff, KallocAcquire, StealSkip, StealAcquire, StealEnd,
                KallocRelease, KfreePushOff, KfreeAcquire, KfreeLink, At, Goto, TypeOK, InHand
  <2> QED BY <1>b, <2>1, <2>2, SMTT(60)
<1>8. ASSUME NEW t \in Thread, Preempt(t) \/ \E c \in CPU : Dispatch(t, c)
      PROVE  PInv' /\ [PA!Next]_(PA!avars)
  BY <1>b, <1>8, ZenonT(60) DEF Preempt, Dispatch, InHand
<1>9. CASE UNCHANGED vars
  BY <1>b, <1>9, Zenon DEF vars, InHand
<1> QED BY <1>1, <1>2, <1>3, <1>4, <1>5, <1>6, <1>7, <1>8, <1>9, Zenon DEF Next, KallocStep, KfreeStep

\* No page is in two places and none is lost, however kalloc and kfree interleave.
THEOREM PagesStayKept == Spec => []PagesKept
<1>1. Spec => []PInv
  BY LocksAndLocals, PInvInit, PInvNext, PTL DEF Spec
<1> QED BY <1>1, PTL DEF PInv, PagesKept

\* kalloc.c implements the atomic page allocator.
THEOREM ImplementsPageAllocator == Spec => RefinesPageAllocator
<1>1. Spec => []PInv
  BY LocksAndLocals, PInvInit, PInvNext, PTL DEF Spec
<1> QED BY <1>1, LocksAndLocals, PInvInit, PInvNext, PTL DEF Spec, RefinesPageAllocator, PA!Spec
=============================================================================
