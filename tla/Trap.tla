-------------------------------- MODULE Trap --------------------------------
(***************************************************************************)
(* Traps and context switches: the trampoline, kernelvec, swtch and        *)
(* kernel/trap.c, with processes that enter the kernel by system call or   *)
(* interrupt, are interrupted in it, give up their CPU in it and may go on *)
(* with another one.                                                       *)
(*                                                                         *)
(* A register holds a token that says whose value it is.  Four stand for   *)
(* the thirty-two: a0, which the trampoline swaps with sscratch; t for     *)
(* those that a called function may change; s for those that swtch saves;  *)
(* and tp, the hart's number in the kernel.  The code runs with interrupts *)
(* off wherever a step does several things.                                *)
(***************************************************************************)
EXTENDS Integers, FiniteSets, Sequences

CONSTANTS Hart, Task, NoTask

VARIABLES
  hart,  \* hart[h]: pc, task, registers and control registers
  task,  \* task[p]: state, trapframe, saved context, kernel stack
  user   \* history: what p's user registers must be when it runs again

vars == <<hart, task, user>>

Forgotten == "forgotten"
Reg == {"a0", "t", "s", "tp"}
UserRegs(p) == [r \in Reg |-> <<"user", p, r>>]
\* What the kernel code of thread x (a process, or a hart's scheduler) keeps in
\* its registers on hart h.
KernelRegs(x, h) == [r \in Reg |-> IF r = "tp" THEN <<"hart", h>> ELSE <<"kernel", x, r>>]

\* The process's instruction: ecall moves it on.
NextInstr(i) == (i + 1) % 2

SchedulerOf(h) == <<"scheduler", h>>

\* Every hart is in scheduler(); every process waits there to return to user
\* space for the first time, through forkret.
Init ==
  /\ hart = [h \in Hart |->
       [pc |-> "scheduler", task |-> NoTask, regs |-> KernelRegs(SchedulerOf(h), h), ctx |-> Forgotten,
        sie |-> TRUE, sepc |-> Forgotten, spp |-> "U", spie |-> TRUE, cause |-> "none",
        stvec |-> "kernelvec", satp |-> "kernel", sscratch |-> Forgotten, ssip |-> FALSE, stack |-> <<>>]]
  /\ task = [p \in Task |->
       [state |-> "runnable", tf |-> [regs |-> UserRegs(p), epc |-> 0, hartid |-> 0],
        ctx |-> [pc |-> "usertrapret", s |-> <<"kernel", p, "s">>, intena |-> TRUE], stack |-> <<>>]]
  /\ user = [p \in Task |-> [regs |-> UserRegs(p), pc |-> 0]]

At(h, l) == hart[h].pc = l

\* The hart leaves its code for the trap vector (hardware).
TakeTrap(h, cause, where, mode) ==
  [hart[h] EXCEPT !.pc = hart[h].stvec, !.cause = cause, !.sepc = where, !.spp = mode,
                  !.spie = hart[h].sie, !.sie = FALSE]

\* sret (hardware): back to where sepc says.  Values that the next trap will
\* overwrite are forgotten here and below, where the code is done with them.
Sret(c, pc) == [c EXCEPT !.pc = pc, !.sie = c.spie, !.spie = TRUE, !.spp = "U", !.cause = "none",
                         !.sepc = IF pc = "user" THEN @ ELSE Forgotten]

-----------------------------------------------------------------------------
\* The timer interrupt in machine mode, which no supervisor code can hold off:
\* timervec saves what it uses and raises a software interrupt.
Timervec(h) ==
  /\ ~ hart[h].ssip
  /\ hart' = [hart EXCEPT ![h].ssip = TRUE]
  /\ UNCHANGED <<task, user>>

Interrupts(h) == {"device"} \cup (IF hart[h].ssip THEN {"timer"} ELSE {})

\* A user program makes a system call or is interrupted.
UserTrap(h, cause) ==
  LET p == hart[h].task IN
  /\ At(h, "user") /\ cause \in {"ecall"} \cup Interrupts(h)
  /\ hart' = [hart EXCEPT ![h] = TakeTrap(h, cause, user[p].pc, "U")]
  /\ UNCHANGED <<task, user>>

\* Kernel code is interrupted: a system call, or the scheduler's loop.
KernelTrap(h, cause) ==
  /\ (At(h, "syscall") \/ At(h, "scheduler")) /\ hart[h].sie
  /\ cause \in Interrupts(h)
  /\ hart' = [hart EXCEPT ![h] = TakeTrap(h, cause, hart[h].pc, "S")]
  /\ UNCHANGED <<task, user>>

\* uservec: a0 comes from sscratch; the stack, tp and satp from the trapframe.
Uservec(h) ==
  LET c == hart[h]  p == c.task IN
  /\ At(h, "uservec")
  /\ task' = [task EXCEPT ![p].tf.regs = c.regs]
  /\ hart' = [hart EXCEPT ![h] = [c EXCEPT !.pc = "usertrap", !.satp = "kernel", !.sscratch = Forgotten,
                                  !.regs = [KernelRegs(p, h) EXCEPT !.tp = <<"hart", task[p].tf.hartid>>]]]
  /\ UNCHANGED user

\* devintr: the timer's software interrupt is acknowledged.
Devintr(c) == IF c.cause = "timer" THEN [c EXCEPT !.ssip = FALSE] ELSE c

\* epc += 4.
Past(i) == NextInstr(i)

\* usertrap: save sepc, then a system call with interrupts on, or devintr.
Usertrap(h) ==
  LET c == hart[h]  p == c.task  ecall == c.cause = "ecall" IN
  /\ At(h, "usertrap")
  /\ task' = [task EXCEPT ![p].tf.epc = IF ecall THEN Past(c.sepc) ELSE c.sepc]
  /\ hart' = [hart EXCEPT ![h] = [Devintr(c) EXCEPT !.stvec = "kernelvec", !.sie = ecall,
                !.sepc = Forgotten, !.spp = "U", !.spie = TRUE, !.cause = "none",
                !.pc = CASE ecall -> "syscall" [] c.cause = "timer" -> "yield" [] OTHER -> "usertrapret"]]
  /\ user' = [user EXCEPT ![p].pc = IF ecall THEN NextInstr(@) ELSE @]

\* syscall: the result goes into the trapframe's a0.
Syscall(h) ==
  LET p == hart[h].task  ret == <<"result", p>> IN
  /\ At(h, "syscall")
  /\ task' = [task EXCEPT ![p].tf.regs.a0 = ret]
  /\ user' = [user EXCEPT ![p].regs.a0 = ret]
  /\ hart' = [hart EXCEPT ![h].pc = "usertrapret"]

\* A system call gives up the CPU (sleep), to go on where it was.
SyscallSleeps(h) ==
  /\ At(h, "syscall")
  /\ hart' = [hart EXCEPT ![h].pc = "sleep"]
  /\ UNCHANGED <<task, user>>

-----------------------------------------------------------------------------
\* kerneltrap up to yield: which_dev, and whether to give up the CPU.
Kerneltrap(c) ==
  [Devintr(c) EXCEPT !.pc = IF c.cause = "timer" /\ c.task # NoTask THEN "yieldk" ELSE "kernelret"]

\* kernelvec pushes the registers; kerneltrap keeps sepc and sstatus in locals.
\* A process has its own stack, the scheduler that of its hart.
Kernelvec(h) ==
  LET c == hart[h]  p == c.task
      frame == [regs |-> c.regs, sepc |-> c.sepc, spp |-> c.spp, spie |-> c.spie]
      next == [Kerneltrap(c) EXCEPT !.regs = [KernelRegs("handler", h) EXCEPT !.tp = c.regs.tp, !.s = c.regs.s]]
  IN
  /\ At(h, "kernelvec")
  /\ IF p = NoTask
       THEN hart' = [hart EXCEPT ![h] = [next EXCEPT !.stack = <<frame>> \o @]] /\ UNCHANGED task
       ELSE hart' = [hart EXCEPT ![h] = next] /\ task' = [task EXCEPT ![p].stack = <<frame>> \o @]
  /\ UNCHANGED user

\* What kernelvec restores: all but tp, "in case we moved CPUs".
Restore(c, frame) == [frame.regs EXCEPT !.tp = c.regs.tp]

SavedSepc(c, frame) == frame.sepc

\* The end of kerneltrap: sepc and sstatus, then the registers and sret.
Kernelret(h) ==
  LET c == hart[h]  p == c.task
      frame == Head(IF p = NoTask THEN c.stack ELSE task[p].stack)
      back == [c EXCEPT !.regs = Restore(c, frame), !.spp = frame.spp, !.spie = frame.spie,
                        !.sepc = SavedSepc(c, frame)]
  IN
  /\ At(h, "kernelret")
  /\ IF p = NoTask
       THEN hart' = [hart EXCEPT ![h] = Sret([back EXCEPT !.stack = Tail(@)], back.sepc)] /\ UNCHANGED task
       ELSE /\ hart' = [hart EXCEPT ![h] = Sret(back, back.sepc)]
            /\ task' = [task EXCEPT ![p].stack = Tail(@)]
  /\ UNCHANGED user

-----------------------------------------------------------------------------
\* Where a process goes on after it gave up the CPU.
Resumes(pc) == CASE pc = "yield" -> "usertrapret" [] pc = "yieldk" -> "kernelret" [] pc = "sleep" -> "syscall"

\* sched keeps in a local whether interrupts were on: "intena is a property of
\* this kernel thread, not this CPU".
Intena(c) == c.sie

\* swtch to thread x on hart h, whose context has s: the registers that a called
\* function must keep are loaded, tp is not.
Swtch(c, x, h, s) == [KernelRegs(x, h) EXCEPT !.tp = c.regs.tp, !.s = s]

\* sched: swtch to the scheduler of this hart.
Sched(h) ==
  LET c == hart[h]  p == c.task IN
  /\ c.pc \in {"yield", "yieldk", "sleep"}
  /\ task' = [task EXCEPT ![p].state = "runnable",
                          ![p].ctx = [pc |-> Resumes(c.pc), s |-> c.regs.s, intena |-> Intena(c)]]
  /\ hart' = [hart EXCEPT ![h] = [c EXCEPT !.pc = "scheduler", !.task = NoTask, !.sie = TRUE,
                !.ctx = Forgotten, !.sepc = Forgotten, !.spp = "U", !.spie = TRUE, !.cause = "none",
                !.regs = Swtch(c, SchedulerOf(h), h, c.ctx)]]
  /\ UNCHANGED user

\* scheduler: swtch to a runnable process.
Scheduler(h, p) ==
  LET c == hart[h] IN
  /\ At(h, "scheduler") /\ task[p].state = "runnable"
  /\ task' = [task EXCEPT ![p].state = "running", ![p].ctx = Forgotten]
  /\ hart' = [hart EXCEPT ![h] = [c EXCEPT !.pc = task[p].ctx.pc, !.task = p, !.ctx = c.regs.s,
                !.sie = task[p].ctx.intena,
                !.regs = Swtch(c, p, h, task[p].ctx.s)]]
  /\ UNCHANGED user

\* Mutant: the trapframe keeps the hart of an earlier return.
HartidOfBefore(p, c) == task[p].tf.hartid

Hartid(p, c) == c.regs.tp[2]

\* userret: the user's page table and registers, sret.
Userret(c, p) ==
  Sret([c EXCEPT !.satp = p, !.regs = task[p].tf.regs, !.sscratch = "trapframe"], "user")

\* usertrapret: interrupts off, stvec, the trapframe, sstatus and sepc, userret.
Usertrapret(h) ==
  LET c == hart[h]  p == c.task IN
  /\ At(h, "usertrapret")
  /\ task' = [task EXCEPT ![p].tf = [regs |-> Forgotten, epc |-> 0, hartid |-> Hartid(p, c)]]
  /\ hart' = [hart EXCEPT ![h] = Userret([c EXCEPT !.sie = FALSE, !.stvec = "uservec", !.spp = "U", !.spie = TRUE,
                                            !.sepc = task[p].tf.epc], p)]
  /\ UNCHANGED user

Next ==
  \E h \in Hart :
    \/ Timervec(h)
    \/ \E cause \in {"ecall", "device", "timer"} : UserTrap(h, cause) \/ KernelTrap(h, cause)
    \/ Uservec(h) \/ Usertrap(h) \/ Syscall(h) \/ SyscallSleeps(h)
    \/ Kernelvec(h) \/ Kernelret(h) \/ Sched(h) \/ Usertrapret(h)
    \/ \E p \in Task : Scheduler(h, p)

Spec == Init /\ [][Next]_vars

-----------------------------------------------------------------------------
InUser(h) == At(h, "user") \/ At(h, "uservec")

\* A process in user space has the registers and the instruction it had when it
\* left it, whatever happened meanwhile and wherever it goes on: only a system
\* call moves it past the ecall and changes a0.
UserStateKept ==
  \A h \in Hart : InUser(h) =>
    LET c == hart[h]  p == c.task IN
    /\ c.regs = user[p].regs /\ c.sepc = user[p].pc
    /\ c.satp = p /\ c.sscratch = "trapframe" /\ c.stvec = "uservec"

\* In the kernel tp is the hart's number, so cpuid() and mycpu() are right; the
\* code of each thread finds its registers as it left them; and traps go to
\* kernelvec whenever interrupts are on.
KernelStateKept ==
  \A h \in Hart : ~ InUser(h) =>
    LET c == hart[h] IN
    /\ c.regs.tp = <<"hart", h>>
    /\ At(h, "syscall") => c.regs = KernelRegs(c.task, h)
    /\ At(h, "scheduler") => c.regs = KernelRegs(SchedulerOf(h), h)
    /\ c.sie => c.stvec = "kernelvec"
=============================================================================
