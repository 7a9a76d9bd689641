-------------------------------- MODULE Mkfs --------------------------------
(***************************************************************************)
(* mkfs/mkfs.c: the image that the kernel boots from.  Blocks are handed   *)
(* out in order by freeblock and never given back.  The content of a byte  *)
(* is where it came from: inode and offset.  Zero is a byte never written. *)
(***************************************************************************)
EXTENDS Integers, Sequences, FiniteSetsExt

CONSTANTS BSIZE, NDIRECT, NINDIRECT,
          IPB,       \* inodes of a block
          DIRENT,    \* sizeof(struct dirent)
          FSSIZE, NINODES, LOGSIZE,
          FileSize   \* the sizes of the files put on the image

VARIABLE img   \* phase, freeblock, freeinode, the inodes, the blocks and the bitmap

ROOTINO == 1
MAXFILE == NDIRECT + NINDIRECT
Zero == <<0, 0>>
ZeroBlock == [i \in 0 .. BSIZE - 1 |-> Zero]

\* The layout of the disk (fs.h:6): boot, super, log, inodes, bitmap, data.
Nbitmap == FSSIZE \div (BSIZE * 8) + 1
Ninodeblocks == NINODES \div IPB + 1
Inodestart == 2 + LOGSIZE
Bmapstart == 2 + LOGSIZE + Ninodeblocks
Nmeta == 2 + LOGSIZE + Ninodeblocks + Nbitmap
IBLOCK(inum) == inum \div IPB + Inodestart

NewInode == [type |-> "file", size |-> 0, addrs |-> [i \in 0 .. NDIRECT |-> 0]]
ZeroPtrs == [i \in 0 .. NINDIRECT - 1 |-> 0]

\* main: the layout, an empty image, ialloc(T_DIR) for the root.
Ialloc(s, type) ==
  [s EXCEPT !.freeinode = @ + 1, !.inode[s.freeinode] = [NewInode EXCEPT !.type = type]]

\* The block of pointers is allocated.
NewPtrs(s, inum) == [s EXCEPT !.inode[inum].addrs[NDIRECT] = s.freeblock, !.freeblock = @ + 1]

\* The block for fbn: allocated when the inode has none.
Mapped(s, inum, fbn) ==
  LET ip == s.inode[inum] IN
  IF fbn < NDIRECT
  THEN IF ip.addrs[fbn] # 0 THEN s
       ELSE [s EXCEPT !.inode[inum].addrs[fbn] = s.freeblock, !.freeblock = @ + 1]
  ELSE LET t == IF ip.addrs[NDIRECT] # 0 THEN s ELSE NewPtrs(s, inum)
           x == t.inode[inum].addrs[NDIRECT] IN
       IF t.ptrs[x][fbn - NDIRECT] # 0 THEN t
       ELSE [t EXCEPT !.ptrs[x][fbn - NDIRECT] = t.freeblock, !.freeblock = @ + 1]

Bmap(s, inum, fbn) ==
  LET a == s.inode[inum].addrs IN IF fbn < NDIRECT THEN a[fbn] ELSE s.ptrs[a[NDIRECT]][fbn - NDIRECT]

\* iappend: n bytes at the end of the inode, a block at a time.  Too large a file
\* fails the assertion.
RECURSIVE Iappend(_, _, _)
Iappend(s, inum, n) ==
  LET off == s.inode[inum].size  fbn == off \div BSIZE IN
  IF n = 0 \/ s.phase = "failed" THEN s
  ELSE IF fbn >= MAXFILE THEN [s EXCEPT !.phase = "failed"]
  ELSE LET n1 == Min({n, (fbn + 1) * BSIZE - off})
           t == Mapped(s, inum, fbn)
           x == Bmap(t, inum, fbn)
           at == off - fbn * BSIZE IN
       Iappend([t EXCEPT !.block[x] = [i \in DOMAIN @ |-> IF i \in at .. at + n1 - 1 THEN <<inum, fbn * BSIZE + i>> ELSE @[i]],
                         !.inode[inum].size = off + n1],
               inum, n - n1)

\* The file is read a buffer of BSIZE at a time.
RECURSIVE Copyfile(_, _, _)
Copyfile(s, inum, n) ==
  IF n = 0 THEN s ELSE LET cc == Min({n, BSIZE}) IN Copyfile(Iappend(s, inum, cc), inum, n - cc)

\* Mutant: the size of the root is rounded down.
RoundDown(off) == (off \div BSIZE) * BSIZE

\* The size of the root directory at the end.
RoundRoot(off) == (off \div BSIZE + 1) * BSIZE

\* balloc: one bitmap block.
Balloc(used) == 0 .. used - 1

-----------------------------------------------------------------------------
Empty ==
  [phase |-> "files", freeblock |-> Nmeta, freeinode |-> 1, bitmap |-> {}, entries |-> 0,
   inode |-> [i \in 1 .. NINODES - 1 |-> NewInode],
   block |-> [b \in 0 .. FSSIZE - 1 |-> ZeroBlock],
   ptrs |-> [b \in 0 .. FSSIZE - 1 |-> ZeroPtrs]]

\* The root with "." and "..".
Fresh == [Iappend(Iappend(Ialloc(Empty, "dir"), ROOTINO, DIRENT), ROOTINO, DIRENT) EXCEPT !.entries = 2]

Init == img = Fresh

\* One file of the command line.  Bounds: the inodes and the blocks of the image
\* suffice, which mkfs does not check.
AddFile(n) ==
  /\ img.phase = "files" /\ img.freeinode < NINODES
  /\ LET inum == img.freeinode
         s == Copyfile(Iappend(Ialloc(img, "file"), ROOTINO, DIRENT), inum, n) IN
     /\ img.freeblock + n \div BSIZE + 4 < FSSIZE
     /\ img' = [s EXCEPT !.entries = @ + 1]

Finish ==
  /\ img.phase = "files" /\ img.freeblock < BSIZE * 8
  /\ img' = [img EXCEPT !.phase = "done", !.inode[ROOTINO].size = RoundRoot(@), !.bitmap = Balloc(img.freeblock)]

\* mkfs is run again.
Again == img.phase # "files" /\ img' = Fresh

Next == (\E n \in FileSize : AddFile(n)) \/ Finish \/ Again

Spec == Init /\ [][Next]_img

-----------------------------------------------------------------------------
\* The blocks an inode refers to, as the kernel's bmap and itrunc find them.
Refs(inum) ==
  LET a == img.inode[inum].addrs IN
  {a[i] : i \in 0 .. NDIRECT} \cup (IF a[NDIRECT] = 0 THEN {} ELSE {img.ptrs[a[NDIRECT]][i] : i \in 0 .. NINDIRECT - 1})

\* What readi returns for a byte: the kernel's bmap puts a zero block in a hole.
Reads(inum, pos) ==
  LET fbn == pos \div BSIZE
      b == IF fbn < NDIRECT \/ img.inode[inum].addrs[NDIRECT] # 0 THEN Bmap(img, inum, fbn) ELSE 0 IN
  IF b = 0 THEN Zero ELSE img.block[b][pos % BSIZE]

\* The image is one the kernel can use: every byte of a file reads back, the root
\* is its entries followed by free ones, no block has two owners or lies outside
\* the data blocks, the bitmap marks what is used and nothing else, and the inodes
\* lie in the inode blocks (mkfs.c:164).
ImageSound ==
  img.phase = "done" =>
    LET used == 1 .. img.freeinode - 1 IN
    /\ \A i \in used : \A pos \in 0 .. img.inode[i].size - 1 :
         Reads(i, pos) = IF i = ROOTINO /\ pos >= img.entries * DIRENT THEN Zero ELSE <<i, pos>>
    /\ img.inode[ROOTINO].size >= img.entries * DIRENT
    /\ \A i, j \in used : i # j => Refs(i) \cap Refs(j) \subseteq {0}
    /\ img.bitmap = 0 .. Nmeta - 1 \cup (UNION {Refs(i) : i \in used} \ {0})
    /\ UNION {Refs(i) : i \in used} \ {0} \subseteq Nmeta .. FSSIZE - 1
    /\ \A i \in used : IBLOCK(i) \in Inodestart .. Bmapstart - 1
=============================================================================
