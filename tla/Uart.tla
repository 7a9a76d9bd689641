-------------------------------- MODULE Uart --------------------------------
(***************************************************************************)
(* kernel/uart.c: the output buffer, its interrupt handler, and the        *)
(* synchronous output of printf and of the echo, which bypasses the buffer *)
(* and its lock.  The 16550 behind the registers is external: LSR_TX_IDLE  *)
(* is set when its transmit FIFO is empty, and it interrupts then.  The    *)
(* uint64 counters wrap around at UINT.                                    *)
(***************************************************************************)
EXTENDS Integers, Sequences

CONSTANTS SIZE,     \* UART_TX_BUF_SIZE
          UUINT,    \* 2^64 in the code: a multiple of SIZE
          Putter,   \* processes in uartputc
          Syncer,   \* CPUs in uartputc_sync
          Char,
          NoOne,    \* nobody holds uart_tx_lock
          Uartintr  \* the handler

VARIABLES
  tx,   \* uart_tx_buf, uart_tx_w, uart_tx_r and the holder of uart_tx_lock
  uart, \* the device: how many characters its FIFO has, its transmit interrupt
  uth   \* uth[t]: where t is, and the character it was called with

vars == <<tx, uart, uth>>

Thread == Putter \cup Syncer \cup {Uartintr}

\* uartinit; the buffer is zeroed memory.
Init ==
  /\ LET c == CHOOSE c \in Char : TRUE IN
     /\ tx = [buf |-> [k \in 0 .. SIZE - 1 |-> c], w |-> 0, r |-> 0, lock |-> NoOne]
     /\ uth = [t \in Thread |-> [pc |-> "idle", c |-> c]]
  /\ uart = [fifo |-> 0, irq |-> FALSE]

-----------------------------------------------------------------------------
At(t, l) == uth[t].pc = l

Goto(t, l) == uth' = [uth EXCEPT ![t].pc = l]

Inc(i) == (i + 1) % UUINT

\* Mutant: the counters are compared without the wrap-around.
FullNoWrap == tx.w = tx.r + SIZE

Full == tx.w = (tx.r + SIZE) % UUINT

TxIdle == uart.fifo = 0

\* uartputc(c) and uartputc_sync(c), whose character nobody but the wire sees
Call(t, c) ==
  /\ At(t, "idle") /\ t # Uartintr
  /\ uth' = [uth EXCEPT ![t] = [pc |-> IF t \in Putter THEN "acquire" ELSE "poll", c |-> IF t \in Putter THEN c ELSE @.c]]
  /\ UNCHANGED <<tx, uart>>

\* acquire(&uart_tx_lock): at the start, at the end of sleep, in uartintr.
Acquire(t) ==
  /\ At(t, "acquire") /\ tx.lock = NoOne
  /\ tx' = [tx EXCEPT !.lock = t]
  /\ Goto(t, IF t = Uartintr THEN "start" ELSE "put")
  /\ UNCHANGED uart

\* Sleep on a full buffer, or put the character.
Put(t) ==
  /\ At(t, "put")
  /\ \/ Full /\ tx' = [tx EXCEPT !.lock = NoOne] /\ Goto(t, "asleep")
     \/ ~ Full /\ tx' = [tx EXCEPT !.buf[tx.w % SIZE] = uth[t].c, !.w = Inc(@)] /\ Goto(t, "start")
  /\ UNCHANGED uart

\* Mutant: nobody who waits for space is woken.
WokenNobody == uth

\* wakeup(&uart_tx_r)
Woken == [q \in Thread |-> IF At(q, "asleep") THEN [uth[q] EXCEPT !.pc = "acquire"] ELSE uth[q]]

\* uartstart up to its write: return (and release) when the buffer is empty or
\* the UART busy, else take a character and wake.
Start(t) ==
  /\ At(t, "start")
  /\ \/ /\ tx.w = tx.r \/ ~ TxIdle
        /\ tx' = [tx EXCEPT !.lock = NoOne]
        /\ Goto(t, "idle")
     \/ /\ tx.w # tx.r /\ TxIdle
        /\ tx' = [tx EXCEPT !.r = Inc(@)]
        /\ uth' = [Woken EXCEPT ![t].pc = "send"]
  /\ UNCHANGED uart

\* while((ReadReg(LSR) & LSR_TX_IDLE) == 0): uartputc_sync sees it idle.
Poll(t) ==
  /\ At(t, "poll") /\ TxIdle
  /\ Goto(t, "send")
  /\ UNCHANGED <<tx, uart>>

\* WriteReg(THR, c), which also withdraws the interrupt.
Send(t) ==
  /\ At(t, "send")
  /\ uart' = [fifo |-> uart.fifo + 1, irq |-> FALSE]
  /\ Goto(t, IF t \in Syncer THEN "idle" ELSE "start")
  /\ UNCHANGED tx

\* uartintr: the input is module Console's; then the output.
Intr ==
  /\ uart.irq /\ At(Uartintr, "idle")
  /\ uart' = [uart EXCEPT !.irq = FALSE]
  /\ Goto(Uartintr, "acquire")
  /\ UNCHANGED tx

\* External: a character leaves the UART.
Shift ==
  /\ ~ TxIdle
  /\ uart' = [fifo |-> uart.fifo - 1, irq |-> uart.irq \/ uart.fifo = 1]
  /\ UNCHANGED <<tx, uth>>

Step(t) == Acquire(t) \/ Put(t) \/ Start(t) \/ Poll(t) \/ Send(t)

Next ==
  \/ \E t \in Thread : Step(t) \/ \E c \in Char : Call(t, c)
  \/ Intr
  \/ Shift

Spec == Init /\ [][Next]_vars

-----------------------------------------------------------------------------
\* The characters that wait in the ring, the oldest first.
Queue == [k \in 1 .. (tx.w - tx.r) % UUINT |-> tx.buf[(tx.r + k - 1) % SIZE]]

\* What is in the buffer gets out although uartstart gives up when the UART is
\* busy (uart.c:145-150) and uartputc_sync writes to it without the lock: either
\* the UART has a character and will interrupt, or somebody is about to call
\* uartstart.  Nobody sleeps while there is room.
OutputNotStalled ==
  /\ tx.w # tx.r => \/ ~ TxIdle \/ uart.irq
                    \/ \E t \in Thread : At(t, "start") \/ At(t, "send") \/ (t = Uartintr /\ ~ At(t, "idle"))
  /\ tx.lock = NoOne => \A t \in Putter : At(t, "asleep") => Full
=============================================================================
