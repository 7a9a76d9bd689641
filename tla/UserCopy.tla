------------------------------ MODULE UserCopy ------------------------------
(***************************************************************************)
(* Moving bytes between the kernel and a process, page by page: copyout,   *)
(* copyin and copyinstr of kernel/vm.c with walkaddr, and the fetchaddr    *)
(* and fetchstr of kernel/syscall.c that system calls take their arguments *)
(* with.                                                                   *)
(*                                                                         *)
(* A page table maps page numbers to frames, in any order, with a flag for *)
(* PTE_U (the guard page below a stack has none).  Byte 0 is NUL.          *)
(***************************************************************************)
EXTENDS Integers, Sequences, FiniteSetsExt

CONSTANTS PGSIZE,
          MAXVA,   \* the first address that walk refuses
          WORD,    \* 2^64: addresses wrap around
          Byte,    \* what a byte holds; 0 is NUL
          Frame,   \* the frames of the process
          MaxLen,  \* bound: the longest copy
          PTRSIZE  \* sizeof(uint64)

VARIABLE cp   \* the last copy: its arguments, memory before and after, its result

Page == 0 .. (MAXVA \div PGSIZE) - 1
PGROUNDDOWN(a) == a - (a % PGSIZE)
NoPte == [pa |-> 0, u |-> FALSE]

\* No frame is mapped twice.
PageTables ==
  {pt \in [Page -> {NoPte} \cup [pa : Frame, u : BOOLEAN]] :
     \A p, q \in Page : pt[p].pa = pt[q].pa => p = q \/ pt[p] = NoPte}
Memories == [Frame -> [0 .. PGSIZE - 1 -> Byte]]

\* The frame of address va, 0 when it is not mapped for the process.
Walkaddr(pt, va) ==
  IF va >= MAXVA THEN 0
  ELSE LET pte == pt[va \div PGSIZE] IN IF pte.u THEN pte.pa ELSE 0

\* Mutant: a copy within a page starts at the page.
BytesOfWholePage(va, len) == Min({PGSIZE, len})

\* The bytes of the copy that lie in the page of va.
BytesHere(va, len) == Min({PGSIZE - (va - PGROUNDDOWN(va)), len})

NextPage(va) == (PGROUNDDOWN(va) + PGSIZE) % WORD

Store(frame, at, s) == [i \in DOMAIN frame |-> IF i \in at .. at + Len(s) - 1 THEN s[i - at + 1] ELSE frame[i]]
Load(frame, at, n) == [i \in 1 .. n |-> frame[at + i - 1]]

RECURSIVE Copyout(_, _, _, _), Copyin(_, _, _, _, _), Copyinstr(_, _, _, _, _)

Copyout(pt, mem, va, src) ==
  IF src = <<>> THEN [mem |-> mem, ret |-> 0]
  ELSE LET pa == Walkaddr(pt, va)  n == BytesHere(va, Len(src)) IN
       IF pa = 0 THEN [mem |-> mem, ret |-> -1]
       ELSE Copyout(pt, [mem EXCEPT ![pa] = Store(@, va % PGSIZE, SubSeq(src, 1, n))], NextPage(va),
                    SubSeq(src, n + 1, Len(src)))

Copyin(pt, mem, dst, va, len) ==
  IF len = 0 THEN [dst |-> dst, ret |-> 0]
  ELSE LET pa == Walkaddr(pt, va)  n == BytesHere(va, len) IN
       IF pa = 0 THEN [dst |-> dst, ret |-> -1]
       ELSE Copyin(pt, mem, dst \o Load(mem[pa], va % PGSIZE, n), NextPage(va), len - n)

Copyinstr(pt, mem, dst, va, max) ==
  IF max = 0 THEN [dst |-> dst, ret |-> -1]
  ELSE LET pa == Walkaddr(pt, va) IN
       IF pa = 0 THEN [dst |-> dst, ret |-> -1]
       ELSE LET n == BytesHere(va, max)
                s == Load(mem[pa], va % PGSIZE, n)
                nul == {i \in 1 .. n : s[i] = 0} IN
            IF nul # {} THEN [dst |-> dst \o SubSeq(s, 1, Min(nul)), ret |-> 0]
            ELSE Copyinstr(pt, mem, dst \o s, NextPage(va), max - n)

Strlen(s) == Min({i \in DOMAIN s : s[i] = 0}) - 1

\* The length, not including NUL.
Fetchstr(pt, mem, va, max) ==
  LET r == Copyinstr(pt, mem, <<>>, va, max) IN IF r.ret < 0 THEN r ELSE [r EXCEPT !.ret = Strlen(r.dst)]

Fits(va, sz) == va < sz /\ (va + PTRSIZE) % WORD <= sz

Fetchaddr(pt, mem, va, sz) ==
  IF Fits(va, sz) THEN Copyin(pt, mem, <<>>, va, PTRSIZE) ELSE [dst |-> <<>>, ret |-> -1]

-----------------------------------------------------------------------------
Idle == [op |-> "idle"]

Init == cp = Idle

DoCopyout ==
  cp = Idle /\ \E pt \in PageTables, va \in 0 .. WORD - 1, len \in 0 .. MaxLen :
    LET mem == [f \in Frame |-> [i \in 0 .. PGSIZE - 1 |-> 0]]
        src == [i \in 1 .. len |-> i]
        r == Copyout(pt, mem, va, src) IN
    cp' = [op |-> "out", pt |-> pt, va |-> va, src |-> src, mem |-> mem, after |-> r.mem, ret |-> r.ret]

DoCopyin(op, Copy(_, _, _, _)) ==
  cp = Idle /\ \E pt \in PageTables, mem \in Memories, va \in 0 .. WORD - 1, len \in 0 .. MaxLen :
    LET r == Copy(pt, mem, va, len) IN
    cp' = [op |-> op, pt |-> pt, va |-> va, len |-> len, mem |-> mem, dst |-> r.dst, ret |-> r.ret]

Done == cp # Idle /\ cp' = Idle

Next ==
  \/ DoCopyout
  \/ DoCopyin("in", LAMBDA pt, mem, va, len : Copyin(pt, mem, <<>>, va, len))
  \/ DoCopyin("str", Fetchstr)
  \/ DoCopyin("addr", Fetchaddr)
  \/ Done

Spec == Init /\ [][Next]_cp

-----------------------------------------------------------------------------
\* Byte by byte: the address of byte i of a copy, whether the process has it, and
\* what it holds.
At(i) == (cp.va + i) % WORD
Has(i) == Walkaddr(cp.pt, At(i)) # 0
Holds(mem, i) == mem[Walkaddr(cp.pt, At(i))][At(i) % PGSIZE]

\* A copy succeeds exactly when the process has every byte of it, and then moves
\* every byte to its place and touches nothing else (vm.c:346, vm.c:371).
OutExact ==
  cp.op = "out" =>
    LET n == Len(cp.src) IN
    /\ (cp.ret = 0) = (\A i \in 0 .. n - 1 : Has(i))
    /\ \A f \in Frame, o \in 0 .. PGSIZE - 1 :
         cp.after[f][o] # 0 =>
           \E i \in 0 .. n - 1 : Has(i) /\ Walkaddr(cp.pt, At(i)) = f /\ At(i) % PGSIZE = o /\ cp.after[f][o] = i + 1
    /\ cp.ret = 0 => \A i \in 0 .. n - 1 : Holds(cp.after, i) = i + 1

InExact ==
  cp.op = "in" =>
    /\ (cp.ret = 0) = (\A i \in 0 .. cp.len - 1 : Has(i))
    /\ Len(cp.dst) <= cp.len /\ (cp.ret = 0 => Len(cp.dst) = cp.len)
    /\ \A i \in DOMAIN cp.dst : cp.dst[i] = Holds(cp.mem, i - 1)

\* fetchstr finds the string exactly when its NUL comes within max bytes that the
\* process has, returns its length, and never writes more than max bytes (vm.c:397).
StrExact ==
  cp.op = "str" =>
    /\ Len(cp.dst) <= cp.len
    /\ \A k \in 0 .. cp.len - 1 :
         (cp.ret = k) = (/\ \A i \in 0 .. k : Has(i)
                         /\ Holds(cp.mem, k) = 0 /\ \A i \in 0 .. k - 1 : Holds(cp.mem, i) # 0)
    /\ cp.ret \in -1 .. cp.len - 1
    /\ cp.ret >= 0 => Len(cp.dst) = cp.ret + 1 /\ \A i \in DOMAIN cp.dst : cp.dst[i] = Holds(cp.mem, i - 1)

\* An argument pointer is fetched only from below the size of the process.
AddrExact ==
  cp.op = "addr" =>
    (cp.ret = 0) = (cp.va + PTRSIZE <= cp.len /\ \A i \in 0 .. PTRSIZE - 1 : Has(i))

\* The kernel's page-by-page copies are the byte-by-byte ones: they cross page
\* boundaries, unmapped pages, guard pages and the end of the address space
\* without losing, misplacing or inventing a byte (vm.c:346).
CopiesExact == OutExact /\ InExact /\ StrExact /\ AddrExact
=============================================================================
