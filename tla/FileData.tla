------------------------------ MODULE FileData ------------------------------
(***************************************************************************)
(* The contents of files: the block bitmap, the block map of an inode and  *)
(* reading, writing and truncating of kernel/fs.c, and fileread and        *)
(* filewrite of kernel/file.c, which writes a large buffer a few blocks at *)
(* a time, each part in a transaction of its own.                          *)
(*                                                                         *)
(* readi, writei and itrunc run under the inode's lock, so each is a step; *)
(* processes interleave between the parts of their writes.  Byte j of a    *)
(* caller's buffer is the number j + 1.                                    *)
(***************************************************************************)
EXTENDS Integers, FiniteSetsExt, SequencesExt

CONSTANTS Inode, File, Writer,
          IpOf,         \* IpOf[f]: the inode that open file f refers to
          BSIZE,        \* bytes in a block; also block numbers in an indirect one
          NDIRECT,
          NBLOCKS,      \* data blocks of the disk; room for every file, so balloc never panics
          BPB,          \* bits of a bitmap block that are used
          MAXOPBLOCKS,
          UINT,         \* 2^32
          Count         \* the counts that callers pass; readers also pass UINT - 1, that is -1

NINDIRECT == BSIZE
MAXFILE == NDIRECT + NINDIRECT
Block == 1 .. NBLOCKS
Offset == 0 .. BSIZE - 1

\* filewrite writes at most this much in one transaction.
Most == ((MAXOPBLOCKS - 1 - 1 - 2) \div 2) * BSIZE

VARIABLES
  disk,   \* addrs and size of inodes, blocks, bitmap, what a step logged
  off,    \* off[f]: the offset of open file f
  wr,     \* wr[w]: the write call w is in: file, i, n, how much of its buffer is mapped
  bytes   \* history: what each file holds, by the calls that returned

vars == <<disk, off, wr, bytes>>

Idle == [f |-> 0, i |-> 0, n |-> 0, avail |-> 0]

Init ==
  /\ disk = [addrs |-> [i \in Inode |-> [k \in 0 .. NDIRECT |-> 0]], size |-> [i \in Inode |-> 0],
             data |-> [b \in Block |-> [k \in Offset |-> 0]], used |-> {}, logged |-> {}]
  /\ off = [f \in File |-> 0]
  /\ wr = [w \in Writer |-> Idle]
  /\ bytes = [i \in Inode |-> <<>>]

-----------------------------------------------------------------------------
\* Names for the blocks log_write is called on, besides data blocks.
BitmapBlock(b) == <<"bitmap", b \div BPB>>
InodeBlock == <<"inode", 0>>
DataBlock(b) == <<"data", b>>

\* balloc: the first free block, marked and zeroed.
NextFree(d) == Min(Block \ d.used)

Balloc(d) ==
  LET b == NextFree(d) IN
  [d EXCEPT !.used = @ \cup {b}, !.data[b] = [k \in Offset |-> 0],
            !.logged = @ \cup {BitmapBlock(b), DataBlock(b)}]

\* The address that bmap finds for block bn of inode i, 0 if there is none yet.
Addr(d, i, bn) ==
  IF bn < NDIRECT THEN d.addrs[i][bn]
  ELSE IF d.addrs[i][NDIRECT] = 0 THEN 0
  ELSE d.data[d.addrs[i][NDIRECT]][bn - NDIRECT]

\* The disk once bmap has allocated what block bn needs.
Bmap(d, i, bn) ==
  LET d1 == IF bn < NDIRECT \/ d.addrs[i][NDIRECT] # 0 THEN d
            ELSE [Balloc(d) EXCEPT !.addrs[i][NDIRECT] = NextFree(d)]
      a == d1.addrs[i][NDIRECT]
  IN IF Addr(d, i, bn) # 0 THEN d
     ELSE IF bn < NDIRECT THEN [Balloc(d1) EXCEPT !.addrs[i][bn] = NextFree(d1)]
     ELSE [Balloc(d1) EXCEPT !.data[a][bn - NDIRECT] = NextFree(d1), !.logged = @ \cup {DataBlock(a)}]

\* Mutant: the blocks listed in the indirect block are not freed.
FreedWithoutIndirect(d, i) == {d.addrs[i][k] : k \in 0 .. NDIRECT}

\* The blocks itrunc frees.
Freed(d, i) ==
  {d.addrs[i][k] : k \in 0 .. NDIRECT}
    \cup IF d.addrs[i][NDIRECT] = 0 THEN {} ELSE {d.data[d.addrs[i][NDIRECT]][k] : k \in 0 .. NINDIRECT - 1}

\* bfree of each of them.
Bfree(d, bs) == [d EXCEPT !.used = @ \ bs]

Itrunc(d, i) ==
  [Bfree(d, Freed(d, i)) EXCEPT !.addrs[i] = [k \in 0 .. NDIRECT |-> 0], !.size[i] = 0]

-----------------------------------------------------------------------------
Smaller(a, b) == IF a < b THEN a ELSE b
Larger(a, b) == IF a > b THEN a ELSE b

\* How much of the remaining n - tot bytes at offset o is in o's block.
Piece(o, n, tot) == Smaller(n - tot, BSIZE - (o % BSIZE))

LogWrite(d, b) == [d EXCEPT !.logged = @ \cup {DataBlock(b)}]

\* One round of writei's loop on inode i: copying stops where the caller's
\* buffer ends, and what was copied of that block counts as not written, although
\* it is in the cached block (which is taken to stay in the cache).
WritePiece(w, i, o, n, base, avail) ==
  LET at == o + w.tot
      m == Piece(at, n, w.tot)
      d == Bmap(w.d, i, at \div BSIZE)
      b == Addr(d, i, at \div BSIZE)
      k0 == at % BSIZE
      copied == Smaller(m, Larger(0, avail - w.tot))
      d1 == [d EXCEPT !.data[b] = [k \in Offset |->
               IF k >= k0 /\ k < k0 + copied THEN base + w.tot + (k - k0) + 1 ELSE @[k]]]
  IN IF w.stop \/ w.tot >= n THEN w
     ELSE IF copied < m THEN [w EXCEPT !.d = d1, !.stop = TRUE]
     ELSE [w EXCEPT !.d = LogWrite(d1, b), !.tot = @ + m]

\* writei(ip, off, n): the bytes written, -1 for a refused call, and the disk.
Writei(d, i, o, n, base, avail) ==
  LET w == FoldLeft(LAMBDA x, k : WritePiece(x, i, o, n, base, avail),
                    [d |-> [d EXCEPT !.logged = {}], tot |-> 0, stop |-> FALSE], [k \in 1 .. n + 1 |-> k])
  IN IF o > d.size[i] \/ (o + n) % UINT < o \/ o + n > MAXFILE * BSIZE
     THEN [d |-> [d EXCEPT !.logged = {}], tot |-> -1]
     ELSE [d |-> [w.d EXCEPT !.size[i] = Larger(@, o + w.tot), !.logged = @ \cup {InodeBlock}], tot |-> w.tot]

\* How many bytes readi returns.
ReadCount(d, i, o, n) ==
  IF o > d.size[i] \/ (o + n) % UINT < o THEN 0
  ELSE IF (o + n) % UINT > d.size[i] THEN d.size[i] - o ELSE n

-----------------------------------------------------------------------------
\* fileread: readi, then off += r.
Fileread(f, n) ==
  /\ off' = [off EXCEPT ![f] = @ + ReadCount(disk, IpOf[f], @, n)]
  /\ UNCHANGED <<disk, wr, bytes>>

\* filewrite is called with n bytes, all or (bound) all but one of them mapped.
Filewrite(w, f, n, avail) ==
  /\ wr[w] = Idle
  /\ wr' = [wr EXCEPT ![w] = [f |-> f, i |-> 0, n |-> n, avail |-> avail]]
  /\ UNCHANGED <<disk, off, bytes>>

\* What a file holds once the bytes base + 1 .. base + k are put at o, when its
\* size becomes size.
Overwritten(s, o, k, base, size) ==
  [j \in 1 .. size |-> IF j > o /\ j <= o + k THEN base + (j - o) ELSE s[j]]

\* One round of filewrite's loop: begin_op, ilock, writei, off += r, iunlock,
\* end_op; a short write ends the call.
WriteSome(w) ==
  LET c == wr[w]  i == IpOf[c.f]  o == off[c.f]
      n1 == Smaller(c.n - c.i, Most)
      avail == Smaller(n1, Larger(0, c.avail - c.i))
      r == Writei(disk, i, o, n1, c.i, avail)
  IN
  /\ wr[w] # Idle
  /\ disk' = r.d
  /\ off' = [off EXCEPT ![c.f] = IF r.tot > 0 THEN @ + r.tot ELSE @]
  /\ wr' = [wr EXCEPT ![w] = IF r.tot # n1 \/ c.i + r.tot = c.n THEN Idle ELSE [@ EXCEPT !.i = @ + r.tot]]
  /\ bytes' = IF r.tot = -1 THEN bytes
              ELSE [bytes EXCEPT ![i] = Overwritten(@, o, avail, c.i, Larger(Len(@), o + r.tot))]

\* itrunc, by open with O_TRUNC.
Trunc(i) ==
  /\ disk' = [Itrunc(disk, i) EXCEPT !.logged = {}]
  /\ bytes' = [bytes EXCEPT ![i] = <<>>]
  /\ UNCHANGED <<off, wr>>

Next ==
  \/ \E f \in File, n \in Count \cup {UINT - 1} : Fileread(f, n)
  \/ \E w \in Writer, f \in File, n \in Count : \E avail \in {n - 1, n} : Filewrite(w, f, n, avail)
  \/ \E w \in Writer : WriteSome(w)
  \/ \E i \in Inode : Trunc(i)

Spec == Init /\ [][Next]_vars

-----------------------------------------------------------------------------
\* A file read from its beginning gives what was written to it, for every mix of
\* writes, of failures in the middle of one, and of truncations.
ReadsBack ==
  \A i \in Inode :
    /\ disk.size[i] = Len(bytes[i])
    /\ \A k \in 0 .. disk.size[i] - 1 :
         disk.data[Addr(disk, i, k \div BSIZE)][k % BSIZE] = bytes[i][k + 1]

\* The bitmap is exact: a block is in use if and only if one place of one
\* inode's block map, or that map's indirect block, has its number.
BitmapExact ==
  LET Places(b) == {<<i, bn>> \in Inode \X (0 .. MAXFILE - 1) : Addr(disk, i, bn) = b}
                     \cup {<<i, MAXFILE>> : i \in {j \in Inode : disk.addrs[j][NDIRECT] = b}}
  IN \A b \in Block : Cardinality(Places(b)) = IF b \in disk.used THEN 1 ELSE 0

\* file.c:149: "write a few blocks at a time to avoid exceeding the maximum log
\* transaction size": no part of a write logs more than MAXOPBLOCKS blocks.
WriteFitsLog == Cardinality(disk.logged) <= MAXOPBLOCKS
=============================================================================
