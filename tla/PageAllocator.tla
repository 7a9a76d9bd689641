--------------------------- MODULE PageAllocator ---------------------------
(***************************************************************************)
(* What kernel/kalloc.c promises: a set of free pages from which each      *)
(* kalloc takes one page and to which each kfree returns one page, both    *)
(* atomically.  How the free pages are spread over lists is not visible.   *)
(***************************************************************************)
CONSTANT Page
VARIABLES free, held

avars == <<free, held>>

Init == free = Page /\ held = {}

Alloc(p) ==
  /\ p \in free
  /\ free' = free \ {p}
  /\ held' = held \cup {p}

Free(p) ==
  /\ p \in held
  /\ held' = held \ {p}
  /\ free' = free \cup {p}

Next == \E p \in Page : Alloc(p) \/ Free(p)

Spec == Init /\ [][Next]_avars
=============================================================================
