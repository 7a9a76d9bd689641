---------------------------- MODULE AtomicStore ----------------------------
(***************************************************************************)
(* What kernel/log.c promises the file system: block writes of operations  *)
(* reach the disk all together, only when no operation is under way, and a *)
(* crash leaves exactly what was committed last.                           *)
(***************************************************************************)
CONSTANTS Proc, Block, Value
VARIABLES mem,     \* mem[b]: what a process that reads block b sees
          stable,  \* stable[b]: what a crash now would leave of block b
          active   \* the processes between begin_op and end_op

avars == <<mem, stable, active>>

Init ==
  /\ mem \in [Block -> Value]
  /\ stable = mem
  /\ active = {}

Begin(p) ==
  /\ p \notin active
  /\ active' = active \cup {p}
  /\ UNCHANGED <<mem, stable>>

Write(p, b, v) ==
  /\ p \in active
  /\ mem' = [mem EXCEPT ![b] = v]
  /\ UNCHANGED <<stable, active>>

End(p) ==
  /\ p \in active
  /\ active' = active \ {p}
  /\ UNCHANGED <<mem, stable>>

Commit ==
  /\ active = {}
  /\ stable' = mem
  /\ UNCHANGED <<mem, active>>

Crash ==
  /\ mem' = stable
  /\ active' = {}
  /\ UNCHANGED stable

Next ==
  \/ \E p \in Proc : \/ Begin(p) \/ End(p)
                     \/ \E b \in Block, v \in Value : Write(p, b, v)
  \/ Commit
  \/ Crash

Spec == Init /\ [][Next]_avars
=============================================================================
