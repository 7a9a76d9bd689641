------------------------------ MODULE Umalloc ------------------------------
(***************************************************************************)
(* The allocator of user programs, user/umalloc.c: a circular list of free *)
(* blocks in address order, that merges neighbours and asks sbrk for more. *)
(* Addresses count units of sizeof(Header); base, a static variable, lies  *)
(* below the heap, at 0.                                                   *)
(***************************************************************************)
EXTENDS Integers, FiniteSets

CONSTANTS HEAP,      \* the heap is 1 .. HEAP: sbrk fails beyond
          MinCore,   \* morecore asks for at least this much (4096)
          MaxBytes,  \* bound: the largest request
          HeaderSize

base == 0
Addr == 0 .. HEAP + 1

VARIABLES
  heap,   \* header[a]: ptr and size of the block at a; freep (-1 at first); brk
  taken   \* history: the blocks the program has, <<address, units>>

vars == <<heap, taken>>

Init ==
  /\ heap = [ptr |-> [a \in Addr |-> 0], size |-> [a \in Addr |-> 0], freep |-> -1, brk |-> 1]
  /\ taken = {}

\* The free block after which free inserts bp: between two neighbours, or at
\* one end of the arena.
RECURSIVE Before(_, _, _)
Before(h, p, bp) ==
  LET next == h.ptr[p] IN
  IF (bp > p /\ bp < next) \/ (p >= next /\ (bp > p \/ bp < next)) THEN p
  ELSE Before(h, next, bp)

JoinsLower(h, p, bp) == p + h.size[p] = bp

Free(h, bp) ==
  LET p == Before(h, h.freep, bp)
      next == h.ptr[p]
      h1 == IF bp + h.size[bp] = next
            THEN [h EXCEPT !.size[bp] = @ + h.size[next], !.ptr[bp] = h.ptr[next]]
            ELSE [h EXCEPT !.ptr[bp] = next]
      h2 == IF JoinsLower(h, p, bp)
            THEN [h1 EXCEPT !.size[p] = @ + h1.size[bp], !.ptr[p] = h1.ptr[bp]]
            ELSE [h1 EXCEPT !.ptr[p] = bp]
  IN [h2 EXCEPT !.freep = p]

\* morecore: sbrk, and the new block is freed; freep is -2 when sbrk fails.
Morecore(h, nunits) ==
  LET nu == IF nunits < MinCore THEN MinCore ELSE nunits IN
  IF h.brk + nu > HEAP + 1 THEN [h EXCEPT !.freep = -2]
  ELSE Free([h EXCEPT !.size[h.brk] = nu, !.brk = @ + nu], h.brk)

\* Mutant: the block that is cut off starts one unit too low.
TailTooLow(size, nunits) == size - nunits - 1

TailStart(size, nunits) == size - nunits

\* malloc's loop at p, the block after prevp: the first that is large enough,
\* its tail if it is larger.  [h, at], with at = -1 for no memory.
RECURSIVE Search(_, _, _, _)
Search(h, prevp, p, nunits) ==
  IF h.size[p] = nunits
    THEN [h |-> [h EXCEPT !.ptr[prevp] = h.ptr[p], !.freep = prevp], at |-> p]
  ELSE IF h.size[p] > nunits
    THEN LET rest == h.size[p] - nunits  q == p + TailStart(h.size[p], nunits) IN
         [h |-> [h EXCEPT !.size[p] = rest, !.size[q] = nunits, !.freep = prevp], at |-> q]
  ELSE IF p # h.freep THEN Search(h, p, h.ptr[p], nunits)
  ELSE LET m == Morecore(h, nunits) IN
       IF m.freep = -2 THEN [h |-> h, at |-> -1] ELSE Search(m, m.freep, m.ptr[m.freep], nunits)

Units(nbytes) == (nbytes + HeaderSize - 1) \div HeaderSize + 1

\* The allocator's first call makes base a list of its own.
Started(h) == IF h.freep = -1 THEN [h EXCEPT !.ptr[base] = base, !.freep = base] ELSE h

Malloc(nbytes) ==
  LET h == Started(heap)  r == Search(h, h.freep, h.ptr[h.freep], Units(nbytes)) IN
  /\ heap' = r.h
  /\ taken' = IF r.at = -1 THEN taken ELSE taken \cup {<<r.at, Units(nbytes)>>}

FreeBlock(b) ==
  /\ b \in taken
  /\ heap' = Free(heap, b[1])
  /\ taken' = taken \ {b}

\* The program calls sbrk itself, so the heap has holes.
Sbrk ==
  /\ heap.freep # -1 /\ heap.brk < HEAP
  /\ heap' = [heap EXCEPT !.brk = @ + 1]
  /\ taken' = taken \cup {<<heap.brk, -1>>}

Next ==
  \/ \E n \in 0 .. MaxBytes : Malloc(n)
  \/ \E b \in taken : b[2] > 0 /\ FreeBlock(b)
  \/ Sbrk

Spec == Init /\ [][Next]_vars

-----------------------------------------------------------------------------
\* The blocks on the free list, from base round to base.
FreeList ==
  LET RECURSIVE From(_)
      From(p) == IF p = base THEN {} ELSE {p} \cup From(heap.ptr[p])
  IN From(heap.ptr[base])

Span(a, n) == a .. a + n - 1

\* Every unit below brk is in exactly one place - a free block, a block of the
\* program, or memory the program got from sbrk itself - so blocks never overlap
\* and none is lost; and no two free blocks are neighbours, that is, free merges
\* whatever it can.
HeapSound ==
  heap.freep # -1 =>
    LET InFree(u) == {a \in FreeList : u \in Span(a, heap.size[a])}
        InTaken(u) == {b \in taken : u \in Span(b[1], IF b[2] = -1 THEN 1 ELSE b[2])}
    IN /\ \A u \in 1 .. heap.brk - 1 : Cardinality(InFree(u)) + Cardinality(InTaken(u)) = 1
       /\ \A a \in FreeList : a + heap.size[a] \notin FreeList
       /\ \A b \in taken : b[2] > 0 => heap.size[b[1]] = b[2]
       /\ heap.freep \in FreeList \cup {base}
=============================================================================
