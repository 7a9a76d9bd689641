-------------------------------- MODULE Pipe --------------------------------
(***************************************************************************)
(* kernel/pipe.c: one pipe, whose ends several processes share (fork and   *)
(* dup), from pipealloc to kfree.                                          *)
(*                                                                         *)
(* pi->lock is held from acquire to sleep or release, and the loops go     *)
(* byte by byte, because killed may be set meanwhile.  sleep and wakeup    *)
(* are what module Proc shows them to be: sleep gives up the lock and is   *)
(* asleep in one step.  The uint counters wrap around at UINT.             *)
(***************************************************************************)
EXTENDS Integers, Sequences

CONSTANTS PIPESIZE,
          UINT,            \* 2^32 in the code: a multiple of PIPESIZE
          Reader, Writer,  \* the processes that have an end open
          Byte,
          Asked,           \* the numbers of bytes asked for in one call
          NoProc

VARIABLES
  pi,   \* struct pipe, with the holder of its lock and whether it is freed
  pth   \* pth[p]: where p is, its argument n, its local i, and p->killed

vars == <<pi, pth>>

Proc == Reader \cup Writer

\* Inside pipewrite or piperead; "asleep" on &nread (a reader) or &nwrite.
OpPC == {"acquire", "loop", "test", "copy", "asleep"}

TypeOK ==
  /\ pi \in [data : [0 .. PIPESIZE - 1 -> Byte], nread : 0 .. UINT - 1, nwrite : 0 .. UINT - 1,
             readopen : BOOLEAN, writeopen : BOOLEAN, lock : Proc \cup {NoProc}, freed : BOOLEAN]
  /\ pth \in [Proc -> [pc : {"user", "closed", "close", "free"} \cup OpPC, n : Asked \cup {0},
                       i : Nat, killed : BOOLEAN]]

\* After pipealloc, with the ends handed on to Reader and Writer; kalloc leaves
\* whatever bytes in data.
Init ==
  /\ LET junk == CHOOSE b \in Byte : TRUE IN
       pi = [data |-> [k \in 0 .. PIPESIZE - 1 |-> junk], nread |-> 0, nwrite |-> 0,
             readopen |-> TRUE, writeopen |-> TRUE, lock |-> NoProc, freed |-> FALSE]
  /\ pth = [p \in Proc |-> [pc |-> "user", n |-> 0, i |-> 0, killed |-> FALSE]]

-----------------------------------------------------------------------------
At(p, l) == pth[p].pc = l

Goto(p, l) == pth' = [pth EXCEPT ![p].pc = l]

Inc(c) == (c + 1) % UINT

Empty == pi.nread = pi.nwrite

\* Mutant: the counters are compared without the wrap-around.
FullNoWrap == pi.nwrite = pi.nread + PIPESIZE

Full == pi.nwrite = (pi.nread + PIPESIZE) % UINT

\* wakeup of the members of S that sleep.
Woken(S) ==
  [q \in Proc |-> IF q \in S /\ At(q, "asleep") THEN [pth[q] EXCEPT !.pc = "acquire"] ELSE pth[q]]

\* The lock is given up, S is woken, and p goes to l with n and i forgotten.
Leave(p, S, l) ==
  /\ pi' = [pi EXCEPT !.lock = NoProc]
  /\ pth' = [Woken(S) EXCEPT ![p].pc = l, ![p].n = 0, ![p].i = 0]

Sleep(p, S) ==
  /\ pi' = [pi EXCEPT !.lock = NoProc]
  /\ pth' = [Woken(S) EXCEPT ![p].pc = "asleep"]

-----------------------------------------------------------------------------
\* read(fd, addr, n) or write(fd, addr, n).  A killed process does not get
\* here: usertrap makes it exit.
Call(p, n) ==
  /\ At(p, "user") /\ ~ pth[p].killed
  /\ pth' = [pth EXCEPT ![p].pc = "acquire", ![p].n = n]
  /\ UNCHANGED pi

\* acquire(&pi->lock), at the start and at the end of sleep.
Acquire(p) ==
  /\ At(p, "acquire") /\ pi.lock = NoProc
  /\ pi' = [pi EXCEPT !.lock = p]
  /\ Goto(p, "loop")

\* Mutant: the readers are not woken.
WriteWakesNobody == {}

WriteWakes == Reader

\* pipewrite: the end of the loop, and its tests.
WriteLoop(p) ==
  LET t == pth[p] IN
  /\ p \in Writer /\ At(p, "loop")
  /\ \/ t.i = t.n /\ Leave(p, WriteWakes, "user")
     \/ t.i < t.n /\ (~ pi.readopen \/ t.killed) /\ Leave(p, {}, "user")
     \/ t.i < t.n /\ pi.readopen /\ ~ t.killed /\ Goto(p, "test") /\ UNCHANGED pi

\* The pipe is full; or a byte is copied in, and put or not to be had.
WriteTest(p) ==
  /\ p \in Writer /\ At(p, "test")
  /\ \/ Full /\ Sleep(p, WriteWakes)
     \/ /\ ~ Full
        /\ \E b \in Byte : pi' = [pi EXCEPT !.data[pi.nwrite % PIPESIZE] = b, !.nwrite = Inc(@)]
        /\ pth' = [pth EXCEPT ![p].i = @ + 1, ![p].pc = "loop"]
     \/ ~ Full /\ Leave(p, WriteWakes, "user")

\* piperead: wait for a byte or for the end of the data.
ReadLoop(p) ==
  LET waits == Empty /\ pi.writeopen IN
  /\ p \in Reader /\ At(p, "loop")
  /\ \/ waits /\ pth[p].killed /\ Leave(p, {}, "user")
     \/ waits /\ ~ pth[p].killed /\ Goto(p, "test") /\ UNCHANGED pi
     \/ ~ waits /\ Goto(p, "copy") /\ UNCHANGED pi

ReadSleep(p) == p \in Reader /\ At(p, "test") /\ Sleep(p, {})

\* Mutant: a reader wakes nobody.
ReadWakesNobody == {}

ReadWakes == Writer

\* One byte, whose copyout may fail: it is gone then.
ReadByte(p) ==
  /\ p \in Reader /\ At(p, "copy")
  /\ pth[p].i < pth[p].n /\ ~ Empty
  /\ \/ /\ pi' = [pi EXCEPT !.nread = Inc(@)]
        /\ pth' = [pth EXCEPT ![p].i = @ + 1]
     \/ /\ pi' = [pi EXCEPT !.nread = Inc(@), !.lock = NoProc]
        /\ pth' = [Woken(ReadWakes) EXCEPT ![p].pc = "user", ![p].n = 0, ![p].i = 0]

ReadDone(p) ==
  /\ p \in Reader /\ At(p, "copy")
  /\ pth[p].i = pth[p].n \/ Empty
  /\ Leave(p, ReadWakes, "user")

-----------------------------------------------------------------------------
\* The file's reference count drops to 0: nobody else has the end open.
Last(p, S) == \A q \in S \ {p} : pth[q].pc \in {"closed", "close", "free"}

\* fileclose, by close or exit: the last one calls pipeclose.
Fileclose(p) ==
  /\ At(p, "user")
  /\ Goto(p, IF Last(p, IF p \in Reader THEN Reader ELSE Writer) THEN "close" ELSE "closed")
  /\ UNCHANGED pi

\* pipeclose, all of it under pi->lock; kfree comes after release.
Pipeclose(p) ==
  /\ At(p, "close") /\ pi.lock = NoProc
  /\ pi' = [pi EXCEPT !.readopen = @ /\ p \in Writer, !.writeopen = @ /\ p \in Reader]
  /\ pth' = [Woken(IF p \in Writer THEN Reader ELSE Writer)
               EXCEPT ![p].pc = IF pi'.readopen \/ pi'.writeopen THEN "closed" ELSE "free"]

Kfree(p) ==
  /\ At(p, "free")
  /\ pi' = [pi EXCEPT !.freed = TRUE]
  /\ Goto(p, "closed")

\* kill: a sleeping process goes on.
Kill(p) ==
  /\ ~ At(p, "closed") /\ ~ pth[p].killed
  /\ pth' = [Woken({p}) EXCEPT ![p].killed = TRUE]
  /\ UNCHANGED pi

Step(p) ==
  \/ Acquire(p)
  \/ WriteLoop(p) \/ WriteTest(p)
  \/ ReadLoop(p) \/ ReadSleep(p) \/ ReadByte(p) \/ ReadDone(p)
  \/ Pipeclose(p) \/ Kfree(p)

Next ==
  \E p \in Proc : (\E n \in Asked : Call(p, n)) \/ Step(p) \/ Fileclose(p) \/ Kill(p)

Spec == Init /\ [][Next]_vars

\* A process inside a call goes on, and gets a lock that is released again and
\* again; a process closes its end in the end (by exit at the latest).
Fairness == \A p \in Proc : SF_vars(Step(p)) /\ SF_vars(Fileclose(p))

-----------------------------------------------------------------------------
\* The bytes that wait in the ring, the oldest first.
Queue == [k \in 1 .. (pi.nwrite - pi.nread) % UINT |-> pi.data[(pi.nread + k - 1) % PIPESIZE]]

\* The page of the pipe is freed when nobody can touch it any more: no process
\* is inside a call or about to close, although kfree comes after release
\* (pipe.c:69-76).
NoUseAfterFree == pi.freed => \A p \in Proc : At(p, "closed")

\* Nobody sleeps over a change it waits for: a sleeping writer means a full pipe
\* with a reader, a sleeping reader an empty one with a writer.  The one
\* exception is a writer that was killed half way: it leaves its bytes without
\* waking anybody (pipe.c:87-90).
NobodyOversleeps ==
  pi.lock = NoProc =>
    \A p \in Proc : At(p, "asleep") =>
      IF p \in Writer THEN Full /\ pi.readopen
      ELSE pi.writeopen /\ (Empty \/ \E q \in Writer : pth[q].killed)

\* Every call returns, once the processes at the other end read, write or close.
CallsReturn == \A p \in Proc : pth[p].pc \in OpPC ~> At(p, "user")
=============================================================================
