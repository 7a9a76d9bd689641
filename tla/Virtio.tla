------------------------------- MODULE Virtio -------------------------------
(***************************************************************************)
(* kernel/virtio_disk.c: the disk driver, its interrupt handler and, as    *)
(* external code, the device behind the two rings.                         *)
(*                                                                         *)
(* A thread transfers a buffer of its own: the buffer's sleep lock keeps   *)
(* others off it, so a buffer is named by its thread.  The driver writes   *)
(* the ring entry and avail->idx in two steps and acknowledges, then       *)
(* reads, the used ring: the device runs between them.  The uint16 indices *)
(* wrap around at IDX.  A ring entry that has been read is dead, and the   *)
(* model forgets it (NoDesc): to read it again would be an error.          *)
(***************************************************************************)
EXTENDS Integers, FiniteSetsExt

CONSTANTS NUM,       \* descriptors, and entries of each ring
          IDX,       \* 2^16 in the code: a multiple of NUM
          User,      \* threads that transfer a buffer
          NoUser,    \* no thread; a null struct buf
          Handler    \* virtio_disk_intr

Desc == 0 .. NUM - 1
NoDesc == -1

VARIABLES
  disk,  \* struct disk: free (as a set), desc[].next and .addr, info[].b and
         \* .status, the rings and their indices, the holder of vdisk_lock
  vth,   \* vth[t]: where t is, its idx[0], its b->disk, and (history) whether
         \* the device has transferred its buffer
  dev    \* the device: how far it has read avail->ring, the heads of the chains
         \* it works on, its interrupt line

vars == <<disk, vth, dev>>

\* virtio_disk_init
Init ==
  /\ disk = [free |-> Desc, next |-> [i \in Desc |-> NoDesc], addr |-> [i \in Desc |-> NoUser],
             b |-> [i \in Desc |-> NoUser], status |-> [i \in Desc |-> 0],
             ring |-> [i \in Desc |-> NoDesc], avail_idx |-> 0,
             used |-> [i \in Desc |-> NoDesc], idx |-> 0, used_idx |-> 0, lock |-> NoUser]
  /\ vth = [t \in User \cup {Handler} |->
              [pc |-> "idle", idx0 |-> NoDesc, disk |-> FALSE, moved |-> FALSE]]
  /\ dev = [avail |-> 0, inflight |-> {}, irq |-> FALSE]

-----------------------------------------------------------------------------
At(t, l) == vth[t].pc = l

Goto(t, l) == vth' = [vth EXCEPT ![t].pc = l]

Inc(i) == (i + 1) % IDX

\* Mutant: free_desc does not call wakeup.
WokenNobody == vth

\* wakeup(&disk.free[0])
Woken == [t \in DOMAIN vth |-> IF At(t, "nodesc") THEN [vth[t] EXCEPT !.pc = "acquire"] ELSE vth[t]]

\* virtio_disk_rw is called with a locked buffer that is not on its way.
Rw(t) ==
  /\ At(t, "idle") /\ t \in User
  /\ vth' = [vth EXCEPT ![t].pc = "acquire", ![t].moved = FALSE]
  /\ UNCHANGED <<disk, dev>>

\* acquire(&disk.vdisk_lock), at the start and at the end of both sleeps.
Acquire(t) ==
  /\ disk.lock = NoUser
  /\ \/ At(t, "acquire") /\ Goto(t, "alloc")
     \/ At(t, "reacquire") /\ Goto(t, "wait")
  /\ disk' = [disk EXCEPT !.lock = t]
  /\ UNCHANGED dev

\* disk.avail->ring[disk.avail->idx % NUM]
RingSlot == disk.avail_idx % NUM

\* alloc3_desc succeeds with the three lowest; format them, record the buffer
\* and fill the ring entry.
Format(t) ==
  LET i1 == Min(disk.free)  i2 == Min(disk.free \ {i1})  i3 == Min(disk.free \ {i1, i2}) IN
  /\ At(t, "alloc") /\ Cardinality(disk.free) >= 3
  /\ disk' = [disk EXCEPT !.free = @ \ {i1, i2, i3},
                          !.next[i1] = i2, !.next[i2] = i3, !.next[i3] = NoDesc,
                          !.addr[i2] = t, !.status[i1] = 255, !.b[i1] = t, !.ring[RingSlot] = i1]
  /\ vth' = [vth EXCEPT ![t].pc = "notify", ![t].idx0 = i1, ![t].disk = TRUE]
  /\ UNCHANGED dev

\* alloc3_desc fails: free_desc gives back what it took, waking the others
\* that wait for descriptors, and t sleeps on &disk.free[0].
NoDescriptors(t) ==
  /\ At(t, "alloc") /\ Cardinality(disk.free) < 3
  /\ vth' = [(IF disk.free = {} THEN vth ELSE Woken) EXCEPT ![t].pc = "nodesc"]
  /\ disk' = [disk EXCEPT !.lock = NoUser]
  /\ UNCHANGED dev

\* disk.avail->idx += 1, between the fences; then notify the device.
Notify(t) ==
  /\ At(t, "notify")
  /\ disk' = [disk EXCEPT !.avail_idx = Inc(@)]
  /\ Goto(t, "wait")
  /\ UNCHANGED dev

\* while(b->disk == 1) sleep(b, &disk.vdisk_lock)
Wait(t) ==
  /\ At(t, "wait") /\ vth[t].disk
  /\ disk' = [disk EXCEPT !.lock = NoUser]
  /\ Goto(t, "asleep")
  /\ UNCHANGED dev

\* The descriptors that free_chain(h) walks through.
Chain(h) == {h, disk.next[h], disk.next[disk.next[h]]}

\* info[idx[0]].b = 0, free_chain and release.
Finish(t) ==
  LET h == vth[t].idx0 IN
  /\ At(t, "wait") /\ ~ vth[t].disk
  /\ disk' = [disk EXCEPT !.b[h] = NoUser, !.free = @ \cup Chain(h), !.lock = NoUser,
                          !.next = [i \in Desc |-> IF i \in Chain(h) THEN NoDesc ELSE @[i]],
                          !.addr = [i \in Desc |-> IF i \in Chain(h) THEN NoUser ELSE @[i]]]
  /\ vth' = [Woken EXCEPT ![t].pc = "idle", ![t].idx0 = NoDesc]
  /\ UNCHANGED dev

-----------------------------------------------------------------------------
\* virtio_disk_intr: acquire(&disk.vdisk_lock).
IntrAcquire ==
  /\ dev.irq /\ At(Handler, "idle") /\ disk.lock = NoUser
  /\ disk' = [disk EXCEPT !.lock = Handler]
  /\ Goto(Handler, "ack")
  /\ UNCHANGED dev

IntrAck ==
  /\ At(Handler, "ack")
  /\ dev' = [dev EXCEPT !.irq = FALSE]
  /\ Goto(Handler, "loop")
  /\ UNCHANGED disk

\* One completed request: panic on a bad status or a null b.
IntrOne ==
  LET k == disk.used_idx % NUM  id == disk.used[k]  b == disk.b[id] IN
  /\ At(Handler, "loop") /\ disk.used_idx # disk.idx
  /\ IF disk.status[id] # 0 \/ b = NoUser
       THEN Goto(Handler, "panic") /\ UNCHANGED disk
       ELSE /\ vth' = [vth EXCEPT ![b].disk = FALSE,
                                  ![b].pc = IF @ = "asleep" THEN "reacquire" ELSE @]
            /\ disk' = [disk EXCEPT !.used_idx = Inc(@), !.used[k] = NoDesc]
  /\ UNCHANGED dev

\* Mutant: the interrupt is acknowledged at the end, after the ring was read.
AckAtEnd == dev' = [dev EXCEPT !.irq = FALSE]

LeaveLine == UNCHANGED dev

\* The ring is read to its end; the device may go on before the lock is released.
IntrNoMore ==
  /\ At(Handler, "loop") /\ disk.used_idx = disk.idx
  /\ Goto(Handler, "release")
  /\ UNCHANGED <<disk, dev>>

IntrEnd ==
  /\ At(Handler, "release")
  /\ disk' = [disk EXCEPT !.lock = NoUser]
  /\ Goto(Handler, "idle")
  /\ LeaveLine

-----------------------------------------------------------------------------
\* External: the device takes a new entry of the avail ring.
DeviceFetch ==
  LET k == dev.avail % NUM IN
  /\ dev.avail # disk.avail_idx
  /\ dev' = [dev EXCEPT !.inflight = @ \cup {disk.ring[k]}, !.avail = Inc(@)]
  /\ disk' = [disk EXCEPT !.ring[k] = NoDesc]
  /\ UNCHANGED vth

\* External: it finishes any of the requests it has, transferring the buffer
\* the chain points to, and writes the status, the used entry and used->idx.
DeviceComplete(h) ==
  LET t == disk.addr[disk.next[h]] IN
  /\ h \in dev.inflight
  /\ dev' = [dev EXCEPT !.inflight = @ \ {h}, !.irq = TRUE]
  /\ vth' = [vth EXCEPT ![t].moved = TRUE]
  /\ disk' = [disk EXCEPT !.status[h] = 0, !.used[disk.idx % NUM] = h, !.idx = Inc(@)]

Device == DeviceFetch \/ \E h \in Desc : DeviceComplete(h)

RwStep(t) == Acquire(t) \/ Format(t) \/ NoDescriptors(t) \/ Notify(t) \/ Wait(t) \/ Finish(t)

Intr == IntrAcquire \/ IntrAck \/ IntrOne \/ IntrNoMore \/ IntrEnd

Next == (\E t \in User : Rw(t) \/ RwStep(t)) \/ Intr \/ Device

Spec == Init /\ [][Next]_vars

\* The device serves its requests; threads and the handler go on, and get a
\* lock that is given up again and again.
Fairness ==
  /\ WF_vars(DeviceFetch) /\ \A h \in Desc : WF_vars(DeviceComplete(h))
  /\ SF_vars(Intr)
  /\ \A t \in User : SF_vars(RwStep(t))

-----------------------------------------------------------------------------
Pending == {t \in User : vth[t].idx0 # NoDesc}

\* Every descriptor is free or in the chain of exactly one request: none leaks
\* and free_desc never finds one free (virtio_disk.c:162-169), whatever the
\* order of completions.
DescriptorsOwned ==
  /\ \A t \in Pending : Chain(vth[t].idx0) \subseteq Desc \ disk.free
  /\ \A t, u \in Pending : t # u => Chain(vth[t].idx0) \cap Chain(vth[u].idx0) = {}
  /\ Desc = disk.free \cup UNION {Chain(vth[t].idx0) : t \in Pending}

\* A buffer that the handler declares done was transferred, by this request
\* and not by an earlier one that used the same descriptors; and the handler
\* never meets an unfinished status or a request without a buffer
\* (virtio_disk.c:303-309).
DoneMeansTransferred ==
  /\ \A t \in Pending : ~ vth[t].disk => vth[t].moved
  /\ ~ At(Handler, "panic")

\* Acknowledging before reading the used ring loses no completion, although
\* the device goes on meanwhile (virtio_disk.c:287-293), and no thread sleeps
\* for a buffer that is done, nor for descriptors when three are free.
NothingMissed ==
  /\ disk.used_idx # disk.idx => dev.irq \/ At(Handler, "ack") \/ At(Handler, "loop")
  /\ disk.lock = NoUser =>
       \A t \in User : /\ At(t, "asleep") => vth[t].disk
                       /\ At(t, "nodesc") => Cardinality(disk.free) < 3

\* Every transfer that has its descriptors ends, and whoever sleeps for
\* descriptors is woken by free_desc and tries again.  Who gets them is up to the
\* scheduler: a thread may lose the race again and again.
RwReturns ==
  \A t \in User : /\ t \in Pending ~> At(t, "idle")
                  /\ At(t, "nodesc") ~> ~ At(t, "nodesc")
=============================================================================
