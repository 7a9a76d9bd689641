---------------------------- MODULE AbstractLock ----------------------------
(***************************************************************************)
(* What kernel/spinlock.c promises: a lock has at most one holder, which   *)
(* takes it when it is free and gives it back.                             *)
(***************************************************************************)
CONSTANTS CPU, Lock, NoCPU
VARIABLE holder   \* holder[l]: the CPU that holds l, or NoCPU

Init == holder = [l \in Lock |-> NoCPU]

Acquire(c, l) ==
  /\ holder[l] = NoCPU
  /\ holder' = [holder EXCEPT ![l] = c]

Release(c, l) ==
  /\ holder[l] = c
  /\ holder' = [holder EXCEPT ![l] = NoCPU]

Next == \E c \in CPU, l \in Lock : Acquire(c, l) \/ Release(c, l)

Spec == Init /\ [][Next]_holder
=============================================================================
