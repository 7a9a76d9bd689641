-------------------------- MODULE SleepLockProofs --------------------------
(***************************************************************************)
(* Sleep locks are sound for any set of processes.  The invariant says who *)
(* holds the spinlock and who owns the sleep lock at each place of the     *)
(* code, and that pid names the owner from setpid on.                      *)
(***************************************************************************)
EXTENDS SleepLock, TLAPS

PCs == {"out", "lock", "unlock", "askout", "askin", "test", "clear", "tellout", "tellin",
        "setpid", "in", "wake", "asleep"}

TypeOK ==
  /\ sl \in [locked : BOOLEAN, pid : Locker \cup {NoLocker}, lk : Locker \cup {NoLocker}]
  /\ slth \in [Locker -> [pc : PCs, says : {"nothing", "yes", "no"}]]

\* p is between acquire and release of the spinlock.
HasLk(p) == slth[p].pc \in {"test", "setpid", "clear", "wake", "tellin", "tellout"}

\* The pid of the sleep lock is p's.
HasPid(p) == slth[p].pc \in {"in", "unlock", "askin", "tellin", "clear"}

Owns(p) == HasPid(p) \/ slth[p].pc = "setpid"

IInv ==
  /\ TypeOK
  /\ \A p \in Locker : HasLk(p) => sl.lk = p
  /\ \A p \in Locker : Owns(p) => sl.locked
  /\ \A p, q \in Locker : Owns(p) /\ Owns(q) => p = q
  /\ \A p \in Locker : HasPid(p) <=> sl.pid = p
  /\ \A p \in Locker : slth[p].says = "nothing"
                       \/ (slth[p].pc = "in" /\ slth[p].says = "yes")
                       \/ (slth[p].pc = "out" /\ slth[p].says = "no")
  /\ \A p \in Locker : slth[p].pc = "asleep" => sl.locked \/ \E q \in Locker : slth[q].pc = "wake"

\* No step of sleeplock.c breaks the invariant.
LEMMA StepKeepsIInv ==
  ASSUME NoLocker \notin Locker, IInv, [SleepLockNext]_slvars PROVE IInv'
<1>1. CASE UNCHANGED slvars
  BY <1>1 DEF slvars, IInv, TypeOK, HasLk, HasPid, Owns
<1>2. ASSUME NEW p \in Locker, Call(p) PROVE IInv'
  <2>1. CASE At(p, "out") /\ SlGoto(p, "lock")
    BY <1>2, <2>1 DEF IInv, TypeOK, PCs, HasLk, HasPid, Owns, Call, At, SlGoto
  <2>2. CASE At(p, "out") /\ SlGoto(p, "askout")
    BY <1>2, <2>2 DEF IInv, TypeOK, PCs, HasLk, HasPid, Owns, Call, At, SlGoto
  <2>3. CASE At(p, "in") /\ SlGoto(p, "unlock")
    BY <1>2, <2>3 DEF IInv, TypeOK, PCs, HasLk, HasPid, Owns, Call, At, SlGoto
  <2>4. CASE At(p, "in") /\ SlGoto(p, "askin")
    BY <1>2, <2>4 DEF IInv, TypeOK, PCs, HasLk, HasPid, Owns, Call, At, SlGoto
  <2> QED BY <1>2, <2>1, <2>2, <2>3, <2>4 DEF Call
<1>3. ASSUME NEW p \in Locker, Acquire(p) PROVE IInv'
  <2>1. CASE At(p, "lock") /\ SlGoto(p, "test")
    BY <1>3, <2>1 DEF IInv, TypeOK, PCs, HasLk, HasPid, Owns, Acquire, At, SlGoto
  <2>2. CASE At(p, "unlock") /\ SlGoto(p, "clear")
    BY <1>3, <2>2 DEF IInv, TypeOK, PCs, HasLk, HasPid, Owns, Acquire, At, SlGoto
  <2>3. CASE At(p, "askout") /\ SlGoto(p, "tellout")
    BY <1>3, <2>3 DEF IInv, TypeOK, PCs, HasLk, HasPid, Owns, Acquire, At, SlGoto
  <2>4. CASE At(p, "askin") /\ SlGoto(p, "tellin")
    BY <1>3, <2>4 DEF IInv, TypeOK, PCs, HasLk, HasPid, Owns, Acquire, At, SlGoto
  <2> QED BY <1>3, <2>1, <2>2, <2>3, <2>4 DEF Acquire, At
<1>4. ASSUME NEW p \in Locker, Test(p) PROVE IInv'
  <2>1. CASE sl.locked /\ SlGoto(p, "asleep")
    BY <1>4, <2>1 DEF IInv, TypeOK, PCs, HasLk, HasPid, Owns, Test, At, SlGoto
  <2>2. CASE ~ sl.locked /\ SlGoto(p, "setpid")
    <3>1. slth' = [slth EXCEPT ![p] = [pc |-> "setpid", says |-> "nothing"]] /\ slth[p].pc = "test"
      BY <1>4, <2>2 DEF Test, At, SlGoto
    <3>2. sl'.locked = TRUE /\ sl'.pid = sl.pid /\ sl'.lk = sl.lk /\ TypeOK'
      BY <1>4, <2>2, <3>1 DEF Test, IInv, TypeOK, PCs
    <3>3. \A q \in Locker : slth'[q] = IF q = p THEN [pc |-> "setpid", says |-> "nothing"] ELSE slth[q]
      BY <3>1 DEF IInv, TypeOK
    <3>4. \A q \in Locker : HasLk(q)' => sl'.lk = q
      BY <3>1, <3>2, <3>3 DEF IInv, HasLk
    <3>5. \A q \in Locker : Owns(q)' => sl'.locked
      BY <1>4, <2>2, <3>1, <3>2, <3>3 DEF IInv, Owns, HasPid
    <3>6. \A q, r \in Locker : Owns(q)' /\ Owns(r)' => q = r
      BY <1>4, <2>2, <3>1, <3>3 DEF IInv, Owns, HasPid
    <3>7. \A q \in Locker : HasPid(q)' <=> sl'.pid = q
      BY <1>4, <2>2, <3>1, <3>2, <3>3 DEF IInv, Owns, HasPid
    <3>8. \A q \in Locker : slth'[q].pc = "asleep" => sl'.locked \/ \E r \in Locker : slth'[r].pc = "wake"
      BY <3>1, <3>2, <3>3 DEF IInv
    <3> QED BY <3>2, <3>3, <3>4, <3>5, <3>6, <3>7, <3>8 DEF IInv
  <2> QED BY <1>4, <2>1, <2>2 DEF Test
<1>5. ASSUME NEW p \in Locker, SetPid(p) PROVE IInv'
  <2>1. slth' = [slth EXCEPT ![p] = [pc |-> "in", says |-> "nothing"]] /\ slth[p].pc = "setpid"
    BY <1>5 DEF SetPid, At, SlGoto
  <2>2. sl'.locked = sl.locked /\ sl'.pid = p /\ sl'.lk = NoLocker /\ TypeOK'
    BY <1>5, <2>1 DEF SetPid, IInv, TypeOK, PCs
  <2>3. \A q \in Locker : slth'[q] = IF q = p THEN [pc |-> "in", says |-> "nothing"] ELSE slth[q]
    BY <2>1 DEF IInv, TypeOK
  <2>4. \A q \in Locker : HasLk(q)' => sl'.lk = q
    BY <2>1, <2>2, <2>3 DEF IInv, HasLk
  <2>5. \A q \in Locker : Owns(q)' => sl'.locked
    BY <1>5, <2>1, <2>2, <2>3 DEF IInv, Owns, HasPid
  <2>6. \A q, r \in Locker : Owns(q)' /\ Owns(r)' => q = r
    BY <1>5, <2>1, <2>3 DEF IInv, Owns, HasPid
  <2>7. \A q \in Locker : HasPid(q)' <=> sl'.pid = q
    BY <1>5, <2>1, <2>2, <2>3 DEF IInv, Owns, HasPid
  <2>8. \A q \in Locker : slth'[q].pc = "asleep" => sl'.locked \/ \E r \in Locker : slth'[r].pc = "wake"
    BY <2>1, <2>2, <2>3 DEF IInv
  <2> QED BY <2>2, <2>3, <2>4, <2>5, <2>6, <2>7, <2>8 DEF IInv
<1>6. ASSUME NEW p \in Locker, Clear(p) PROVE IInv'
  <2>1. slth' = [slth EXCEPT ![p] = [pc |-> "wake", says |-> "nothing"]] /\ slth[p].pc = "clear"
    BY <1>6 DEF Clear, At, SlGoto
  <2>2. sl'.locked = FALSE /\ sl'.pid = NoLocker /\ sl'.lk = sl.lk /\ TypeOK'
    BY <1>6, <2>1 DEF Clear, IInv, TypeOK, PCs
  <2>3. \A q \in Locker : slth'[q] = IF q = p THEN [pc |-> "wake", says |-> "nothing"] ELSE slth[q]
    BY <2>1 DEF IInv, TypeOK
  <2>4. \A q \in Locker : HasLk(q)' => sl'.lk = q
    BY <2>1, <2>2, <2>3 DEF IInv, HasLk
  <2>5. \A q \in Locker : Owns(q)' => sl'.locked
    BY <1>6, <2>1, <2>2, <2>3 DEF IInv, Owns, HasPid
  <2>6. \A q, r \in Locker : Owns(q)' /\ Owns(r)' => q = r
    BY <1>6, <2>1, <2>3 DEF IInv, Owns, HasPid
  <2>7. \A q \in Locker : HasPid(q)' <=> sl'.pid = q
    BY <1>6, <2>1, <2>2, <2>3 DEF IInv, Owns, HasPid
  <2>8. \A q \in Locker : slth'[q].pc = "asleep" => sl'.locked \/ \E r \in Locker : slth'[r].pc = "wake"
    BY <2>1, <2>2, <2>3 DEF IInv
  <2> QED BY <2>2, <2>3, <2>4, <2>5, <2>6, <2>7, <2>8 DEF IInv
<1>7. ASSUME NEW p \in Locker, Wake(p) PROVE IInv'
  BY <1>7 DEF IInv, TypeOK, PCs, HasLk, HasPid, Owns, Wake, Woken, At
<1>8. ASSUME NEW p \in Locker, Holdingsleep(p) PROVE IInv'
  BY <1>8 DEF IInv, TypeOK, PCs, HasLk, HasPid, Owns, Holdingsleep, At
<1>9. ASSUME NEW p \in Locker, Kill(p) PROVE IInv'
  BY <1>9 DEF IInv, TypeOK, PCs, HasLk, HasPid, Owns, Kill, At, SlGoto
<1> QED BY <1>1, <1>2, <1>3, <1>4, <1>5, <1>6, <1>7, <1>8, <1>9 DEF SleepLockNext

\* Whatever processes call acquiresleep, releasesleep and holdingsleep: one holder,
\* true answers, no lost wakeup (sleeplock.c:21-52).
THEOREM SleepLocksSound ==
  ASSUME NoLocker \notin Locker PROVE SleepLockSpec => []SleepLockSound
<1>1. Initsleeplock => IInv
  BY DEF Initsleeplock, IInv, TypeOK, PCs, HasLk, HasPid, Owns
<1>2. IInv /\ [SleepLockNext]_slvars => IInv'
  BY StepKeepsIInv
<1>3. IInv => SleepLockSound
  BY DEF IInv, SleepLockSound, Inside, Owns, HasPid, At
<1> QED BY <1>1, <1>2, <1>3, PTL DEF SleepLockSpec
=============================================================================
