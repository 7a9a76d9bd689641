----------------------------- MODULE MCProcess -----------------------------
(***************************************************************************)
(* Processes, traps, address spaces and the copies between kernel and user *)
(* memory for TLC.  Each is on its own: `running` chooses the one that     *)
(* takes steps.                                                            *)
(***************************************************************************)
EXTENDS Proc, TLC

CONSTANTS Hart, Task, NoTask,
          PGSIZE, FAN, UINT, NPAGES, Slot, Delta, Program,
          MAXVA, WORD, Byte, Frame, MaxLen, PTRSIZE

VARIABLES running, hart, task, user, vfree, others, ptab, vpanic, cp

T == INSTANCE Trap
V == INSTANCE Vm
U == INSTANCE UserCopy

CPUSymmetry == Permutations(CPU)

Deltas == {-20, -3, -2, -1, 1, 2, 3}

Segment(vaddr, memsz) == [vaddr |-> vaddr, memsz |-> memsz, header |-> TRUE, content |-> TRUE]
Programs == {<<>>, <<Segment(0, 3)>>, <<Segment(0, 3), Segment(4, 1)>>, <<Segment(0, 0)>>,
             <<Segment(0, 2), Segment(3, 2)>>,
             <<Segment(0, 4), [Segment(2, 1) EXCEPT !.content = FALSE]>>,
             <<Segment(0, 1), [Segment(0, 1) EXCEPT !.header = FALSE]>>}

\* What the variables of the other components that do not run are.
NotRunning == 0

SumInit ==
  /\ running \in {"proc", "trap", "vm", "copy"}
  /\ Init
  /\ IF running = "trap" THEN T!Init ELSE hart = NotRunning /\ task = NotRunning /\ user = NotRunning
  /\ IF running = "vm" THEN V!Init ELSE vfree = NotRunning /\ others = NotRunning /\ ptab = NotRunning /\ vpanic = NotRunning
  /\ IF running = "copy" THEN U!Init ELSE cp = NotRunning

SumNext ==
  /\ \/ running = "proc" /\ Next /\ UNCHANGED <<hart, task, user, vfree, others, ptab, vpanic, cp>>
     \/ running = "trap" /\ T!Next /\ UNCHANGED <<vars, vfree, others, ptab, vpanic, cp>>
     \/ running = "vm" /\ V!Next /\ UNCHANGED <<vars, hart, task, user, cp>>
     \/ running = "copy" /\ U!Next /\ UNCHANGED <<vars, hart, task, user, vfree, others, ptab, vpanic>>
  /\ UNCHANGED running

SumSpec == SumInit /\ [][SumNext]_<<running, vars, hart, task, user, vfree, others, ptab, vpanic, cp>>

\* The process table alone, under the fairness of module Proc.
ReapInit == running = "proc" /\ SumInit

ReapSpec ==
  /\ ReapInit
  /\ [][SumNext]_<<running, vars, hart, task, user, vfree, others, ptab, vpanic, cp>>
  /\ Fairness

\* A process finds its registers as it left them whatever hart it runs on and
\* whatever interrupts it, and so does the kernel code that a trap, a switch or
\* the timer interrupts (trampoline.S, kernelvec.S, swtch.S, trap.c:37-150).
TrapsTransparent == running = "trap" => T!UserStateKept /\ T!KernelStateKept

\* Every page is free or in one place, and an address space has exactly the pages
\* below its size, also when fork, exec or sbrk runs out of memory at whatever page
\* (vm.c:232-241, 325-327; exec.c:121-128; proc.c:252-268).
AddressSpacesSound == running = "vm" => V!PagesAccounted /\ V!AddressSpacesWhole

\* copyout, copyin, copyinstr, fetchaddr and fetchstr move exactly the bytes asked
\* for, across pages, or say that they failed (vm.c:346-434; syscall.c:11-32).
CopiesExact == running = "copy" => U!CopiesExact
=============================================================================
