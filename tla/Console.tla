------------------------------- MODULE Console -------------------------------
(***************************************************************************)
(* kernel/console.c: the input side of the console.  consoleintr edits the *)
(* buffer from the interrupt, consoleread takes bytes from it, both under  *)
(* cons.lock.  The uint indices r, w and e wrap around at CUINT.  The echo *)
(* is output only (module Uart, uartputc_sync); procdump changes nothing.  *)
(***************************************************************************)
EXTENDS Integers, Sequences

CONSTANTS INPUT_BUF,
          CUINT,      \* 2^32 in the code: a multiple of INPUT_BUF
          Proc,       \* processes that read
          Letter,     \* ordinary characters, among them NUL
          NUL,
          MaxRead,    \* bound: bytes asked for in one call
          NoProc

Newline == "\n"
CtrlD == "^D"
CtrlU == "^U"
Backspace == "^H"
CarriageReturn == "\r"

Typed == Letter \cup {Newline, CarriageReturn, CtrlD, CtrlU, Backspace}
Stored == (Letter \ {NUL}) \cup {Newline, CtrlD}

VARIABLES
  cons,  \* buf, r, w, e and the holder of lock
  cth    \* cth[p]: where p is in consoleread, target, n, p->killed, and the
         \* last byte it took

vars == <<cons, cth>>

\* consoleinit; the buffer is zeroed memory.
Init ==
  /\ cons = [buf |-> [k \in 0 .. INPUT_BUF - 1 |-> NUL], r |-> 0, w |-> 0, e |-> 0, lock |-> NoProc]
  /\ cth = [p \in Proc |-> [pc |-> "user", target |-> 0, n |-> 0, killed |-> FALSE, last |-> NUL]]

-----------------------------------------------------------------------------
At(p, l) == cth[p].pc = l

Inc(i) == (i + 1) % CUINT

Dec(i) == (i - 1) % CUINT

Wake == [p \in Proc |-> IF At(p, "asleep") THEN [cth[p] EXCEPT !.pc = "acquire"] ELSE cth[p]]

\* Control-U: back to the end of what was handed over, or to a newline.
KillLine ==
  LET stops == {k \in 0 .. (cons.e - cons.w) % CUINT :
                  \/ k = (cons.e - cons.w) % CUINT
                  \/ cons.buf[((cons.e - k - 1) % CUINT) % INPUT_BUF] = Newline}
      k == CHOOSE k \in stops : \A j \in stops : k <= j
  IN cons' = [cons EXCEPT !.e = (@ - k) % CUINT] /\ UNCHANGED cth

\* Mutant: the line may be edited back beyond what was handed over.
EraseHandedOver == cons.e # cons.r /\ cons' = [cons EXCEPT !.e = Dec(@)] /\ UNCHANGED cth

Erase == cons.e # cons.w /\ cons' = [cons EXCEPT !.e = Dec(@)] /\ UNCHANGED cth

HandOver(c) == cons' = [c EXCEPT !.w = c.e] /\ cth' = Wake

Store(ch) ==
  LET c == [cons EXCEPT !.buf[cons.e % INPUT_BUF] = ch, !.e = Inc(@)] IN
  /\ (cons.e - cons.r) % CUINT < INPUT_BUF
  /\ IF ch \in {Newline, CtrlD} \/ c.e = (c.r + INPUT_BUF) % CUINT
       THEN HandOver(c) ELSE cons' = c /\ UNCHANGED cth

\* consoleintr(ch), under cons.lock from its first line to its last.
Consoleintr(ch) ==
  /\ cons.lock = NoProc
  /\ CASE ch = CtrlU -> KillLine
       [] ch = Backspace -> Erase
       [] ch = CarriageReturn -> Store(Newline)
       [] OTHER -> ch # NUL /\ Store(ch)

-----------------------------------------------------------------------------
\* consoleread(n)
Read(p, n) ==
  /\ At(p, "user") /\ ~ cth[p].killed
  /\ cth' = [cth EXCEPT ![p].pc = "acquire", ![p].target = n, ![p].n = n, ![p].last = NUL]
  /\ UNCHANGED cons

Acquire(p) ==
  /\ At(p, "acquire") /\ cons.lock = NoProc
  /\ cons' = [cons EXCEPT !.lock = p]
  /\ cth' = [cth EXCEPT ![p].pc = "loop"]

Return(p, c) ==
  /\ cons' = [c EXCEPT !.lock = NoProc]
  /\ cth' = [cth EXCEPT ![p].pc = "user"]

\* Nothing to read: a killed process returns, another one sleeps.
ReadWait(p) ==
  /\ At(p, "loop") /\ cth[p].n > 0 /\ cons.r = cons.w
  /\ \/ cth[p].killed /\ Return(p, cons)
     \/ ~ cth[p].killed /\ cth' = [cth EXCEPT ![p].pc = "sleep"] /\ UNCHANGED cons

\* sleep(&cons.r, &cons.lock), whether or not it was killed since the test.
ReadSleep(p) ==
  /\ At(p, "sleep")
  /\ cons' = [cons EXCEPT !.lock = NoProc]
  /\ cth' = [cth EXCEPT ![p].pc = "asleep"]

\* cons.r-- leaves ^D for the next read.
TakesCtrlD(p) == cth[p].n = cth[p].target

\* One byte; its copyout may fail, and it is gone then.
ReadByte(p) ==
  LET ch == cons.buf[cons.r % INPUT_BUF]
      taken == [cons EXCEPT !.r = Inc(@)]
      got == [cth EXCEPT ![p].n = @ - 1, ![p].last = ch]
  IN
  /\ At(p, "loop") /\ cth[p].n > 0 /\ cons.r # cons.w
  /\ \/ ch = CtrlD /\ ~ TakesCtrlD(p) /\ Return(p, cons)
     \/ /\ ch = CtrlD /\ TakesCtrlD(p)
        /\ cons' = [taken EXCEPT !.lock = NoProc]
        /\ cth' = [cth EXCEPT ![p].last = ch, ![p].pc = "user"]
     \/ ch # CtrlD /\ Return(p, taken)
     \/ ch = Newline /\ cons' = [taken EXCEPT !.lock = NoProc] /\ cth' = [got EXCEPT ![p].pc = "user"]
     \/ ch \notin {CtrlD, Newline} /\ cons' = taken /\ cth' = got

ReadDone(p) == At(p, "loop") /\ cth[p].n = 0 /\ Return(p, cons)

Kill(p) ==
  /\ ~ cth[p].killed
  /\ cth' = [cth EXCEPT ![p].killed = TRUE, ![p].pc = IF @ = "asleep" THEN "acquire" ELSE @]
  /\ UNCHANGED cons

Next ==
  \/ \E ch \in Typed : Consoleintr(ch)
  \/ \E p \in Proc : \/ \E n \in 1 .. MaxRead : Read(p, n)
                     \/ Acquire(p) \/ ReadWait(p) \/ ReadSleep(p) \/ ReadByte(p) \/ ReadDone(p)
                     \/ Kill(p)

Spec == Init /\ [][Next]_vars

-----------------------------------------------------------------------------
Between(i, j) == [k \in 1 .. (j - i) % CUINT |-> cons.buf[((i + k - 1) % CUINT) % INPUT_BUF]]

Committed == Between(cons.r, cons.w)
Line == Between(cons.w, cons.e)

LD == INSTANCE LineDiscipline
        WITH N <- INPUT_BUF, Char <- Stored, LineEnd <- {Newline, CtrlD}, committed <- Committed, line <- Line

\* A read stops at the end of a line, a ^D is taken only by a read that returns
\* 0 bytes, so that every ^D is one end-of-file (console.c:102-109), and nobody
\* sleeps with input waiting.
ReadsByLine ==
  /\ \A p \in Proc : /\ At(p, "loop") => cth[p].last # Newline
                     /\ cth[p].last = CtrlD => cth[p].n = cth[p].target
  /\ cons.lock = NoProc => \A p \in Proc : At(p, "asleep") => cons.r = cons.w
=============================================================================
