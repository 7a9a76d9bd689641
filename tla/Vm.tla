--------------------------------- MODULE Vm ---------------------------------
(***************************************************************************)
(* kernel/vm.c, kernel/exec.c and the part of kernel/proc.c that builds and *)
(* frees address spaces: fork, exec, sbrk and exit on a memory that runs    *)
(* out at any moment.                                                       *)
(*                                                                          *)
(* A page table is private to its process, so that a system call is one     *)
(* step; other users of memory (Others) change the number of free pages     *)
(* between the steps.  Pages are counted, not named: a page that is lost or *)
(* freed twice breaks the count.  The operators thread a record s through   *)
(* the code: s.free, the table s.t they work on, s.panic and the result     *)
(* s.ret.  A table has the directory pages that walk allocated, at levels   *)
(* 1 and 0, besides its root.                                               *)
(***************************************************************************)
EXTENDS Integers, Sequences, FiniteSets

CONSTANTS PGSIZE,    \* bytes of a page
          FAN,       \* 512 in the code: entries of a page-table page
          UINT,      \* 2^32: growproc computes with uint
          NPAGES,    \* pages that kalloc has at first
          Slot,      \* the process table
          Delta,     \* the arguments of sbrk
          Program    \* program headers: sequences of Segment records

MAXPAGE == FAN * FAN * FAN
TRAMPOLINE == MAXPAGE - 1
TRAPFRAME == MAXPAGE - 2

NoTable == [root |-> FALSE, dir |-> {}, pte |-> <<>>]

VARIABLES
  vfree,   \* pages on the free lists
  others,  \* pages in other hands
  ptab,    \* ptab[p]: trapframe, pagetable and sz of slot p; used
  vpanic   \* the kernel panicked

vars == <<vfree, others, ptab, vpanic>>

Unused == [used |-> FALSE, trapframe |-> FALSE, t |-> NoTable, sz |-> 0]

-----------------------------------------------------------------------------
RoundUp(a) == (a + PGSIZE - 1) \div PGSIZE   \* PGROUNDUP(a)/PGSIZE

Panic(s) == [s EXCEPT !.panic = TRUE, !.ret = FALSE]

Kalloc(s) == IF s.free = 0 THEN [s EXCEPT !.ret = FALSE] ELSE [s EXCEPT !.free = @ - 1, !.ret = TRUE]

Kfree(s, n) == [s EXCEPT !.free = @ + n]

\* One level of walk: the directory page d, allocated if it is missing.
WalkLevel(s, d) ==
  LET WithPage(a) == IF a.ret THEN [a EXCEPT !.t.dir = @ \cup {d}] ELSE a
  IN IF d \in s.t.dir THEN [s EXCEPT !.ret = TRUE] ELSE WithPage(Kalloc(s))

\* walk(pagetable, va, 1) for page v: both levels of directories.
WalkAlloc(s, v) ==
  LET Second(w) == IF w.ret THEN WalkLevel(w, <<0, v \div FAN>>) ELSE w
  IN IF v >= MAXPAGE THEN Panic(s) ELSE Second(WalkLevel(s, <<1, v \div (FAN * FAN)>>))

Mapped(t, v) == v \in DOMAIN t.pte

\* mappages of one page (a process's memory is always mapped page by page).
Mappages(s, v, e) ==
  LET Enter(w) ==
        IF ~ w.ret THEN w ELSE IF Mapped(w.t, v) THEN Panic(w)
        ELSE [w EXCEPT !.t.pte = [x \in DOMAIN @ \cup {v} |-> IF x = v THEN e ELSE @[x]]]
  IN Enter(WalkAlloc(s, v))

\* uvmunmap(pagetable, v, n, do_free)
Uvmunmap(s, v, n, do_free) ==
  IF \E x \in v .. v + n - 1 : ~ Mapped(s.t, x) THEN Panic(s)
  ELSE Kfree([s EXCEPT !.t.pte = [x \in DOMAIN @ \ (v .. v + n - 1) |-> @[x]]], IF do_free THEN n ELSE 0)

\* uvmdealloc
Uvmdealloc(s, oldsz, newsz) ==
  IF newsz >= oldsz \/ RoundUp(newsz) >= RoundUp(oldsz) THEN s
  ELSE Uvmunmap(s, RoundUp(newsz), RoundUp(oldsz) - RoundUp(newsz), TRUE)

UserPage == [u |-> TRUE]
KernelPage == [u |-> FALSE]

\* Mutant: the page that could not be mapped is not freed.
UndoMapLeaks(s) == s

\* kfree(mem), when mappages failed.
UndoMap(s) == Kfree(s, 1)

\* uvmalloc's loop, from page a on; first is PGROUNDUP(oldsz).
RECURSIVE Grow(_, _, _, _)
Grow(s, first, a, last) ==
  LET Fail(x) == [Uvmdealloc(x, a * PGSIZE, first * PGSIZE) EXCEPT !.ret = FALSE]
      Mapping(m) == IF m.ret THEN Grow(m, first, a + 1, last) ELSE IF m.panic THEN m ELSE Fail(UndoMap(m))
      WithPage(k) == IF k.ret THEN Mapping(Mappages(k, a, UserPage)) ELSE Fail(k)
  IN IF a >= last THEN [s EXCEPT !.ret = TRUE] ELSE WithPage(Kalloc(s))

\* uvmalloc: s.ret tells failure; the size is Max(oldsz, newsz) otherwise.
Uvmalloc(s, oldsz, newsz) ==
  IF newsz < oldsz THEN [s EXCEPT !.ret = oldsz # 0]
  ELSE LET g == Grow(s, RoundUp(oldsz), RoundUp(oldsz), RoundUp(newsz))
       IN [g EXCEPT !.ret = @ /\ newsz # 0]

Max2(a, b) == IF a > b THEN a ELSE b

\* freewalk and kfree of the root: panics over a leaf that is left.
Freewalk(s) ==
  IF DOMAIN s.t.pte # {} THEN Panic(s)
  ELSE [Kfree(s, Cardinality(s.t.dir) + 1) EXCEPT !.t = NoTable]

Uvmfree(s, sz) == Freewalk(IF sz > 0 THEN Uvmunmap(s, 0, RoundUp(sz), TRUE) ELSE s)

\* uvmcopy's loop: page i of old, with its flags; undone on failure.
RECURSIVE Uvmcopy(_, _, _, _)
Uvmcopy(s, old, i, sz) ==
  LET Fail(x) == [Uvmunmap(x, 0, i, TRUE) EXCEPT !.ret = FALSE]
      Mapping(m) == IF m.ret THEN Uvmcopy(m, old, i + 1, sz) ELSE IF m.panic THEN m ELSE Fail(UndoMap(m))
      WithPage(k) == IF k.ret THEN Mapping(Mappages(k, i, old.pte[i])) ELSE Fail(k)
  IN IF i >= RoundUp(sz) THEN [s EXCEPT !.ret = TRUE]
     ELSE IF ~ Mapped(old, i) THEN Panic(s) ELSE WithPage(Kalloc(s))

-----------------------------------------------------------------------------
UnmapTrampoline(s) == Uvmunmap(s, TRAMPOLINE, 1, FALSE)

\* uvmcreate: an empty root page.
Uvmcreate(s) ==
  LET WithPage(k) == IF k.ret THEN [k EXCEPT !.t = [root |-> TRUE, dir |-> {}, pte |-> <<>>]] ELSE k
  IN WithPage(Kalloc(s))

\* uvminit: the page of initcode.
Uvminit(s) == Mappages(Kalloc(s), 0, UserPage)

\* proc_pagetable: uvmcreate and the two pages at the top.
ProcPagetable(s) ==
  LET Undo(x) == [Uvmfree(x, 0) EXCEPT !.ret = FALSE]
      Both(m) == IF m.ret THEN m ELSE Undo(UnmapTrampoline(m))
      One(m) == IF m.ret THEN Both(Mappages(m, TRAPFRAME, KernelPage)) ELSE Undo(m)
      WithRoot(c) == IF c.ret THEN One(Mappages(c, TRAMPOLINE, KernelPage)) ELSE c
  IN WithRoot(Uvmcreate(s))

ProcFreepagetable(s, sz) ==
  Uvmfree(Uvmunmap(UnmapTrampoline(s), TRAPFRAME, 1, FALSE), sz)

\* freeproc, for whatever p has; s.t is its table.
Freeproc(s, trapframe, sz) ==
  LET s1 == Kfree(s, IF trapframe THEN 1 ELSE 0)
  IN IF s.t.root THEN ProcFreepagetable(s1, sz) ELSE s1

\* allocproc: the trapframe and the page table, or freeproc.
Allocproc(s) ==
  LET Fail(x, trapframe) == [Freeproc(x, trapframe, 0) EXCEPT !.ret = FALSE]
      WithTable(t) == IF t.ret THEN t ELSE Fail(t, TRUE)
      WithFrame(k) == IF k.ret THEN WithTable(ProcPagetable(k)) ELSE Fail(k, FALSE)
  IN WithFrame(Kalloc(s))

\* loadseg finds an address of the segment that is not mapped for the user.
LoadsegMisses(t, seg) ==
  \E v \in seg.vaddr \div PGSIZE .. RoundUp(seg.vaddr + seg.memsz) - 1 : ~ Mapped(t, v) \/ ~ t.pte[v].u

\* exec's loop over the program headers: size and table so far.  A segment may
\* have a bad header, an unaligned address, or content that cannot be read;
\* loadseg panics over a page that is not mapped for the user.
RECURSIVE Load(_, _, _)
Load(s, prog, sz) ==
  LET seg == Head(prog)
      end == seg.vaddr + seg.memsz
      Result(x, size) == [s |-> x, sz |-> size]
      Fail(x) == [x EXCEPT !.ret = FALSE]
      Loadseg(u) ==
        IF ~ u.ret THEN Result(u, sz)
        ELSE IF seg.vaddr % PGSIZE # 0 THEN Result(Fail(u), Max2(sz, end))
        ELSE IF LoadsegMisses(u.t, seg) THEN Result(Panic(u), Max2(sz, end))
        ELSE IF ~ seg.content THEN Result(Fail(u), Max2(sz, end))
        ELSE Load(u, Tail(prog), Max2(sz, end))
  IN IF prog = <<>> THEN Result(s, sz)
     ELSE IF ~ seg.header THEN Result(Fail(s), sz)
     ELSE Loadseg(Uvmalloc(s, sz, end))

\* uvmclear: no PTE_U.
Uvmclear(s, v) == [s EXCEPT !.t.pte[v].u = FALSE]

\* The new image: program, guard page without PTE_U, stack; argsfit tells
\* whether the arguments fit on the stack.
Image(s, prog, argsfit) ==
  LET Bad(x, sz) == [s |-> [ProcFreepagetable(x, sz) EXCEPT !.ret = FALSE], sz |-> 0]
      WithStack(x, page) ==
        IF ~ x.ret THEN Bad(x, page * PGSIZE)
        ELSE IF ~ argsfit THEN Bad(x, (page + 2) * PGSIZE)
        ELSE [s |-> Uvmclear(x, page), sz |-> (page + 2) * PGSIZE]
      WithProgram(l) ==
        IF ~ l.s.ret THEN Bad(l.s, l.sz)
        ELSE WithStack(Uvmalloc(l.s, RoundUp(l.sz) * PGSIZE, (RoundUp(l.sz) + 2) * PGSIZE), RoundUp(l.sz))
      WithTable(p) == IF p.ret THEN WithProgram(Load(p, prog, 0)) ELSE [s |-> p, sz |-> 0]
  IN WithTable(ProcPagetable(s))

-----------------------------------------------------------------------------
Start(t) == [free |-> vfree, t |-> t, panic |-> FALSE, ret |-> TRUE]

Finish(s) == vfree' = s.free /\ vpanic' = (vpanic \/ s.panic) /\ UNCHANGED others

\* userinit: the first process, with one page of initcode.
Init ==
  LET init == CHOOSE p \in Slot : TRUE IN
  \E a \in {Allocproc([free |-> NPAGES, t |-> NoTable, panic |-> FALSE, ret |-> TRUE])} :
  \E m \in {Uvminit(a)} :
    /\ vfree = m.free /\ others = 0 /\ vpanic = m.panic
    /\ ptab = [p \in Slot |-> IF p = init
                 THEN [used |-> TRUE, trapframe |-> TRUE, t |-> m.t, sz |-> PGSIZE] ELSE Unused]

\* The value of uvmdealloc.
Shrunk(oldsz, newsz) == IF newsz >= oldsz THEN oldsz ELSE newsz

\* growproc(n), for sbrk.
Growproc(p, n) ==
  LET sz == ptab[p].sz  new == (sz + n) % UINT IN
  /\ ptab[p].used
  /\ \E s \in {IF n > 0 THEN Uvmalloc(Start(ptab[p].t), sz, new) ELSE Uvmdealloc(Start(ptab[p].t), sz, new)} :
       /\ ptab' = [ptab EXCEPT ![p].t = s.t,
                               ![p].sz = IF n < 0 THEN Shrunk(sz, new) ELSE IF s.ret THEN Max2(sz, new) ELSE sz]
       /\ Finish(s)

\* fork into slot q.
Fork(p, q) ==
  /\ ptab[p].used /\ ~ ptab[q].used
  /\ \E a \in {Allocproc(Start(NoTable))} :
     \E c \in {IF a.ret THEN Uvmcopy(a, ptab[p].t, 0, ptab[p].sz) ELSE a} :
       \/ c.ret /\ Finish(c)
          /\ ptab' = [ptab EXCEPT ![q] = [used |-> TRUE, trapframe |-> TRUE, t |-> c.t, sz |-> ptab[p].sz]]
       \/ ~ c.ret /\ Finish(IF a.ret THEN Freeproc(c, TRUE, 0) ELSE a) /\ UNCHANGED ptab

\* exec: the old image is freed once the new one stands.
Exec(p, prog, argsfit) ==
  /\ ptab[p].used
  /\ \E i \in {Image(Start(NoTable), prog, argsfit)} :
       \/ i.s.ret /\ ptab' = [ptab EXCEPT ![p].t = i.s.t, ![p].sz = i.sz]
          /\ Finish(ProcFreepagetable([i.s EXCEPT !.t = ptab[p].t], ptab[p].sz))
       \/ ~ i.s.ret /\ Finish(i.s) /\ UNCHANGED ptab

\* freeproc by the parent's wait; init stays.
Reap(p) ==
  /\ ptab[p].used /\ \E q \in Slot \ {p} : ptab[q].used
  /\ ptab' = [ptab EXCEPT ![p] = Unused]
  /\ Finish(Freeproc(Start(ptab[p].t), ptab[p].trapframe, ptab[p].sz))

\* External: other users of kalloc and kfree take or give back n pages.
OthersTake(n) == n <= vfree /\ vfree' = vfree - n /\ others' = others + n /\ UNCHANGED <<ptab, vpanic>>

OthersGive == vfree' = vfree + others /\ others' = 0 /\ UNCHANGED <<ptab, vpanic>>

Next ==
  \/ \E p \in Slot : \/ \E n \in Delta : Growproc(p, n)
                     \/ \E q \in Slot : Fork(p, q)
                     \/ \E prog \in Program, argsfit \in BOOLEAN : Exec(p, prog, argsfit)
                     \/ Reap(p)
  \/ \E n \in 1 .. vfree : OthersTake(n)
  \/ OthersGive

Spec == Init /\ [][Next]_vars

-----------------------------------------------------------------------------
Owned(p) ==
  IF ~ ptab[p].used THEN 0
  ELSE 2 + Cardinality(ptab[p].t.dir) + Cardinality(DOMAIN ptab[p].t.pte \ {TRAMPOLINE, TRAPFRAME})

RECURSIVE SumOwned(_)
SumOwned(S) == IF S = {} THEN 0 ELSE LET p == CHOOSE p \in S : TRUE IN Owned(p) + SumOwned(S \ {p})

\* Every page is free, in other hands or in one place of one address space:
\* none is lost or freed twice when fork, exec or sbrk fails at whatever page
\* (vm.c:232-241, 325-327; exec.c:121-128; proc.c:124-136, 285-289).
PagesAccounted == vfree + others + SumOwned(Slot) = NPAGES

\* Exactly the pages below sz are mapped, with the trapframe and the trampoline,
\* whatever the rounding of the sizes; the unmapping code relies on it and
\* panics otherwise (vm.c:173-178, 275-277).
AddressSpacesWhole ==
  /\ ~ vpanic
  /\ \A p \in Slot : ptab[p].used =>
       DOMAIN ptab[p].t.pte = 0 .. RoundUp(ptab[p].sz) - 1 \cup {TRAMPOLINE, TRAPFRAME}
=============================================================================
