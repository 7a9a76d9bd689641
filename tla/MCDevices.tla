----------------------------- MODULE MCDevices -----------------------------
(***************************************************************************)
(* Spinlocks, a pipe, the disk driver, the UART, the console, and two      *)
(* programs, the shell and grep, for TLC.  Each is on its own: `running`   *)
(* chooses the one that takes steps.                                       *)
(***************************************************************************)
EXTENDS Spinlock, Rings

CONSTANTS NUM, IDX, User, NoUser, Handler,
          INPUT_BUF, CUINT, ConsProc, Letter, NUL, MaxRead,
          Token, MaxLine, MAXARGS, NOFILE,
          ReChar, TextChar, MaxRe, MaxText, BUFSIZE

VARIABLES running, disk, vth, dev, cons, cth, sh, gr, buf, out

D == INSTANCE Virtio
C == INSTANCE Console WITH Proc <- ConsProc
S == INSTANCE Shell
G == INSTANCE Grep

\* What the variables of the other components that do not run are.
NotRunning == 0

SumInit ==
  /\ running \in {"spinlock", "pipe", "disk", "uart", "console", "sh", "grep"}
  /\ Init /\ P!Init /\ U!Init
  /\ IF running = "disk" THEN D!Init ELSE disk = NotRunning /\ vth = NotRunning /\ dev = NotRunning
  /\ IF running = "console" THEN C!Init ELSE cons = NotRunning /\ cth = NotRunning
  /\ IF running = "sh" THEN S!Init ELSE sh = NotRunning
  /\ IF running = "grep" THEN G!Init ELSE gr = NotRunning /\ buf = NotRunning /\ out = NotRunning

pipevars == <<pi, pth>>
diskvars == <<disk, vth, dev>>
uartvars == <<tx, uart, uth>>
consvars == <<cons, cth>>
grepvars == <<gr, buf, out>>

\* A pipe comes to rest when both ends are closed.
SumNext ==
  /\ \/ running = "spinlock" /\ Next /\ UNCHANGED <<pipevars, diskvars, uartvars, consvars, sh, grepvars>>
     \/ running = "pipe" /\ (P!Next \/ UNCHANGED pipevars)
        /\ UNCHANGED <<vars, diskvars, uartvars, consvars, sh, grepvars>>
     \/ running = "disk" /\ D!Next /\ UNCHANGED <<vars, pipevars, uartvars, consvars, sh, grepvars>>
     \/ running = "uart" /\ U!Next /\ UNCHANGED <<vars, pipevars, diskvars, consvars, sh, grepvars>>
     \/ running = "console" /\ C!Next /\ UNCHANGED <<vars, pipevars, diskvars, uartvars, sh, grepvars>>
     \/ running = "sh" /\ S!Next /\ UNCHANGED <<vars, pipevars, diskvars, uartvars, consvars, grepvars>>
     \/ running = "grep" /\ G!Next /\ UNCHANGED <<vars, pipevars, diskvars, uartvars, consvars, sh>>
  /\ UNCHANGED running

SumSpec ==
  SumInit /\ [][SumNext]_<<running, vars, pipevars, diskvars, uartvars, consvars, sh, grepvars>>

\* Descriptors are neither leaked nor shared, a buffer that is declared done was
\* transferred by its own request, no completion is missed although the handler
\* acknowledges first, and nobody sleeps for what is there already
\* (virtio_disk.c:162-169, 220-226, 287-309).
DiskSound == running = "disk" => D!DescriptorsOwned /\ D!DoneMeansTransferred /\ D!NothingMissed

\* Typing, editing and reading a line act on the lines as one step each: what was
\* handed over cannot be edited any more, readers get it in order and stop at the
\* end of a line, and nobody sleeps with input waiting (console.c:79-127, 135-179).
ConsoleIsLineDiscipline ==
  /\ running = "console" => C!LD!Init
  /\ [][running = "console" => [C!LD!Next]_<<C!Committed, C!Line>>]_<<running, cons>>
  /\ [](running = "console" => C!ReadsByLine)

\* The shell accepts the lines of its grammar and no others, and no process of a
\* pipeline but its writer keeps the write end open, so that its reader sees the
\* end of the input (sh.c:100-123, 327-446).
ShellSound == running = "sh" => S!ParsesGrammar /\ S!PipesEnd

\* grep writes the lines that match, in order, also when they span several reads
\* (grep.c:10-34).
GrepWritesMatches == running = "grep" => G!GrepWritesMatches
=============================================================================
