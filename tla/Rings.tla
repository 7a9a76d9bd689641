------------------------------- MODULE Rings -------------------------------
(***************************************************************************)
(* The two ring buffers that processes and an interrupt handler share, the *)
(* pipe of kernel/pipe.c and the output buffer of kernel/uart.c, and what  *)
(* they promise.                                                           *)
(***************************************************************************)
EXTENDS Integers, Sequences

CONSTANTS PIPESIZE, UINT, Reader, Writer, Byte, Asked, NoProc,
          SIZE, UUINT, Putter, Syncer, Char, NoOne, Uartintr

\* A counter goes around at a multiple of the buffer's size, so that the place of
\* a byte is the same before and after.
ASSUME PipeAssumption ==
         /\ PIPESIZE \in Nat \ {0} /\ UINT \in Nat /\ UINT > PIPESIZE /\ UINT % PIPESIZE = 0
         /\ Reader \cap Writer = {} /\ NoProc \notin Reader \cup Writer
         /\ Byte # {} /\ Asked \subseteq Nat

ASSUME UartAssumption ==
         /\ SIZE \in Nat \ {0} /\ UUINT \in Nat /\ UUINT > SIZE /\ UUINT % SIZE = 0
         /\ Putter \cap Syncer = {} /\ Uartintr \notin Putter \cup Syncer
         /\ NoOne \notin Putter \cup Syncer \cup {Uartintr}
         /\ Char # {}

VARIABLES pi, pth, tx, uart, uth

P == INSTANCE Pipe
U == INSTANCE Uart

PipeFifo == INSTANCE Fifo WITH N <- PIPESIZE, Elem <- Byte, queue <- P!Queue
UartFifo == INSTANCE Fifo WITH N <- SIZE, Elem <- Char, queue <- U!Queue

\* Bytes leave a pipe in the order they entered it, none lost or overwritten,
\* also when the counters wrap around (pipe.c:98, 126).
PipeIsFifo == PipeFifo!Spec

\* The page of a pipe is freed once, when nobody can touch it any more, and nobody
\* sleeps over a change it waits for (pipe.c:69-76, 87-93, 116-121).
PipeSound == P!TypeOK /\ P!NoUseAfterFree /\ P!NobodyOversleeps

\* What processes hand to uartputc leaves for the UART in that order, through a
\* buffer that fills, wraps around and drains from the interrupt (uart.c:95-108, 137-160).
UartIsFifo == UartFifo!Spec

\* The output never stalls: when there is something to send, the device is busy,
\* its interrupt is on its way, or somebody is about to call uartstart; and when the
\* lock is free, a process that sleeps for room finds the buffer full (uart.c:100, 157).
OutputNotStalled == U!OutputNotStalled
=============================================================================
