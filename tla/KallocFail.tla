----------------------------- MODULE KallocFail -----------------------------
(***************************************************************************)
(* When may kalloc return 0?  Kalloc with a history variable that records  *)
(* for every call whether the lists were all empty at some moment of it.   *)
(***************************************************************************)
EXTENDS Kalloc

VARIABLE exhausted  \* exhausted[t]: during this call no list had a page, once

hvars == <<vars, exhausted>>

HInit == Init /\ exhausted = [t \in Thread |-> FALSE]

HNext ==
  /\ Next
  /\ exhausted' = [t \in Thread |->
                     \/ ListPages' = {}
                     \/ pc[t] \in KallocPC /\ exhausted[t]]

HSpec == HInit /\ [][HNext]_hvars

\* kalloc returns 0 only if the memory could not be allocated: at some moment
\* of the call no list had a free page (kalloc.c:70).  So it is with two lists;
\* with more, a page may be freed to a list that the search has passed before the
\* last page of a list ahead of it is taken (kalloc.c:85-99).
FailsOnlyIfExhausted ==
  \A t \in Thread : pc[t] = "return" /\ r[t] = Null => exhausted[t]
=============================================================================
