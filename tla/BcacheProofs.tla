---------------------------- MODULE BcacheProofs ----------------------------
(***************************************************************************)
(* The buffer cache is correct for any number of buckets, buffers, blocks  *)
(* and processes: a block has one buffer, which is where bget looks for    *)
(* it, reference counts are exact, a buffer in use keeps its block, and a  *)
(* process that has a buffer sees what was last stored in the block.       *)
(***************************************************************************)
EXTENDS Bcache, FiniteSetTheorems, TLAPS

\* x is in the sequence s.
Has(s, x) == \E j \in 1 .. Len(s) : s[j] = x

\* No element of s is there twice.
Once(s) == \A i, j \in 1 .. Len(s) : s[i] = s[j] => i = j

\* A process in the miss part of bget, which keeps the lock of its bucket.
Misses(p) == pc[p] \in {"search", "insert", "panic"}

\* A process between the call of bread and its return.
Reads(p) == Misses(p) \/ pc[p] \in {"bget", "sleeplock", "fill"}

\* A bucket is locked by the process that misses there, and by no other.
LocksOK ==
  /\ \A p \in Proc : Misses(p) => lock[getIndex(want[p])] = p
  /\ \A k \in Bucket : \A p \in Proc : lock[k] = p => Misses(p) /\ getIndex(want[p]) = k

\* A buffer is in one place: on one chain, or with the process that moves it.
ChainsOK ==
  /\ \A k \in Bucket : Once(chain[k])
  /\ \A b \in Buf : \A k, l \in Bucket : Has(chain[k], b) /\ Has(chain[l], b) => k = l
  /\ \A p \in Proc : pc[p] = "insert" => \A k \in Bucket : ~ Has(chain[k], buf[p])
  /\ \A p, q \in Proc : pc[p] = "insert" /\ pc[q] = "insert" /\ buf[p] = buf[q] => p = q
  /\ \A b \in Buf : \/ \E k \in Bucket : Has(chain[k], b)
                    \/ \E p \in Proc : pc[p] = "insert" /\ buf[p] = b
  /\ \A b \in Buf : \A k \in Bucket : Has(chain[k], b) /\ blockno[b] # NoBlock => k = getIndex(blockno[b])

\* The buffer a process works on: none, or one of the block it wants.
PlaceOK ==
  \A p \in Proc :
    /\ Reads(p) => want[p] \in Block /\ \A b \in held[p] : blockno[b] < want[p]
    /\ pc[p] \in {"insert", "sleeplock", "fill"} => buf[p] \in Buf /\ blockno[buf[p]] = want[p]
    /\ pc[p] \in {"user", "bget", "search", "panic"} => buf[p] = NoBuf
    /\ pc[p] = "unref" => buf[p] \in Buf \ held[p]

\* No block has two buffers, none while its bucket is searched for it, and a
\* buffer in use has a block.
BlocksOK ==
  /\ OneBufPerBlock
  /\ \A p \in Proc : pc[p] = "search" => \A b \in Buf : blockno[b] # want[p]
  /\ \A b \in Buf : Users(b) # {} \/ b \in pinned => blockno[b] # NoBlock

CountsOK == RefcntExact /\ \A b \in Buf : IsFiniteSet(Users(b))

SleepOK ==
  \A b \in Buf : \A p \in Proc :
    sleep[b] = p <=> b \in held[p] \/ (pc[p] = "fill" /\ buf[p] = b)

\* A valid buffer has the block's contents; they are on the disk too unless it is
\* pinned or a process has it.
DataOK ==
  /\ \A p \in Proc : \A b \in held[p] : valid[b] = TRUE
  /\ \A b \in Buf : valid[b] = TRUE /\ blockno[b] # NoBlock => data[b] = truth[blockno[b]]
  /\ \A n \in Block :
       truth[n] # disk[n] =>
         \E b \in Buf : /\ blockno[b] = n /\ valid[b] = TRUE
                        /\ b \in pinned \/ \E p \in Proc : b \in held[p]

IInv == TypeOK /\ LocksOK /\ ChainsOK /\ PlaceOK /\ BlocksOK /\ CountsOK /\ SleepOK /\ DataOK

-----------------------------------------------------------------------------
\* A block number has a bucket.
LEMMA IndexType == \A n \in Nat : getIndex(n) \in Bucket
BY BcacheAssumption DEF getIndex, Bucket

\* What a block number is not, and where the search for a buffer begins.
LEMMA BlockType ==
  \A n \in Block : n \in Nat /\ n # NoBlock /\ getIndex(n) \in Bucket /\ getIndex(n + 1) \in Bucket
<1> TAKE n \in Block
<1>1. n \in Nat /\ n + 1 \in Nat /\ n # NoBlock
  BY BcacheAssumption DEF NoBlock
<1> QED BY <1>1, IndexType, Zenon

\* NoBuf is no buffer.
LEMMA NoBufType == NoBuf \notin Buf
BY DEF NoBuf, Buf

\* Unlinking a buffer leaves the others, each once.
LEMMA Unlinked ==
  ASSUME NEW s \in Seq(Buf), NEW j \in 1 .. Len(s), Once(s)
  PROVE  /\ Unlink(s, j) \in Seq(Buf) /\ Once(Unlink(s, j))
         /\ \A x : Has(Unlink(s, j), x) <=> Has(s, x) /\ x # s[j]
<1> USE DEF Has, Once
<1> DEFINE r == Unlink(s, j)
<1>1. r \in Seq(Buf) /\ Len(r) = Len(s) - 1
  BY DEF Unlink
<1>2. /\ \A i \in 1 .. j - 1 : r[i] = s[i]
      /\ \A i \in j .. Len(s) - 1 : r[i] = s[i + 1]
  BY DEF Unlink
<1> HIDE DEF r
<1>3. ASSUME NEW x PROVE (\E i \in 1 .. Len(r) : r[i] = x) <=> x # s[j] /\ \E i \in 1 .. Len(s) : s[i] = x
  <2>1. ASSUME NEW i \in 1 .. Len(r), r[i] = x PROVE x # s[j] /\ \E k \in 1 .. Len(s) : s[k] = x
    <3>1. CASE i < j
      BY <1>1, <1>2, <2>1, <3>1
    <3>2. CASE ~ (i < j)
      BY <1>1, <1>2, <2>1, <3>2
    <3> QED BY <3>1, <3>2, Zenon
  <2>2. ASSUME x # s[j], NEW k \in 1 .. Len(s), s[k] = x PROVE \E i \in 1 .. Len(r) : r[i] = x
    <3>1. CASE k < j
      <4>1. k \in 1 .. Len(r) /\ r[k] = x
        BY <1>1, <1>2, <2>2, <3>1
      <4> QED BY <4>1, Zenon
    <3>2. CASE k > j
      <4>1. k - 1 \in 1 .. Len(r) /\ r[k - 1] = x
        BY <1>1, <1>2, <2>2, <3>2
      <4> QED BY <4>1, Zenon
    <3> QED BY <2>2, <3>1, <3>2
  <2> QED BY <2>1, <2>2, Zenon
<1>4. ASSUME NEW i \in 1 .. Len(r), NEW k \in 1 .. Len(r), r[i] = r[k] PROVE i = k
  <2> DEFINE Old(x) == IF x < j THEN x ELSE x + 1
  <2>1. \A x \in 1 .. Len(r) : Old(x) \in 1 .. Len(s) /\ r[x] = s[Old(x)]
    BY <1>1, <1>2
  <2>2. Old(i) = Old(k)
    BY <1>4, <2>1, Zenon
  <2> QED BY <1>1, <2>2
<1> QED BY <1>1, <1>3, <1>4, Zenon DEF r

\* Linking a buffer at the head adds it to the others.
LEMMA Linked ==
  ASSUME NEW s \in Seq(Buf), NEW b \in Buf, Once(s), ~ Has(s, b)
  PROVE  /\ <<b>> \o s \in Seq(Buf) /\ Once(<<b>> \o s)
         /\ \A x : Has(<<b>> \o s, x) <=> Has(s, x) \/ x = b
<1> USE DEF Has, Once
<1> DEFINE r == <<b>> \o s
<1>1. r \in Seq(Buf) /\ Len(r) = Len(s) + 1 /\ r[1] = b /\ \A i \in 1 .. Len(s) : r[i + 1] = s[i]
  OBVIOUS
<1> HIDE DEF r
<1>2. \A i \in 2 .. Len(r) : i - 1 \in 1 .. Len(s) /\ r[i] = s[i - 1]
  <2> TAKE i \in 2 .. Len(r)
  <2>1. i - 1 \in 1 .. Len(s) /\ (i - 1) + 1 = i
    BY <1>1
  <2> QED BY <1>1, <2>1, Zenon
<1>3. ASSUME NEW x PROVE (\E i \in 1 .. Len(r) : r[i] = x) <=> x = b \/ \E i \in 1 .. Len(s) : s[i] = x
  <2>1. ASSUME NEW i \in 1 .. Len(r), r[i] = x PROVE x = b \/ \E k \in 1 .. Len(s) : s[k] = x
    BY <1>1, <1>2, <2>1
  <2>2. ASSUME x = b PROVE \E i \in 1 .. Len(r) : r[i] = x
    <3>1. 1 \in 1 .. Len(r)
      BY <1>1
    <3> QED BY <1>1, <2>2, <3>1, Zenon
  <2>3. ASSUME NEW k \in 1 .. Len(s), s[k] = x PROVE \E i \in 1 .. Len(r) : r[i] = x
    <3>1. k + 1 \in 1 .. Len(r) /\ r[k + 1] = x
      BY <1>1, <2>3
    <3> QED BY <3>1, Zenon
  <2> QED BY <2>1, <2>2, <2>3, Zenon
<1>4. ASSUME NEW i \in 1 .. Len(r), NEW k \in 1 .. Len(r), r[i] = r[k] PROVE i = k
  <2>1. i = 1 \/ i \in 2 .. Len(r)
    OBVIOUS
  <2>2. k = 1 \/ k \in 2 .. Len(r)
    OBVIOUS
  <2>3. CASE i = 1 /\ k = 1
    BY <2>3, Zenon
  <2>4. CASE i = 1 /\ k \in 2 .. Len(r)
    BY <1>1, <1>2, <1>4, <2>4
  <2>5. CASE k = 1 /\ i \in 2 .. Len(r)
    BY <1>1, <1>2, <1>4, <2>5
  <2>6. CASE i \in 2 .. Len(r) /\ k \in 2 .. Len(r)
    <3>1. i - 1 = k - 1
      BY <1>2, <1>4, <2>6, Zenon
    <3> QED BY <2>6, <3>1
  <2> QED BY <2>1, <2>2, <2>3, <2>4, <2>5, <2>6, Zenon
<1> QED BY <1>1, <1>3, <1>4, Zenon DEF r

\* An unused buffer moves to the head of its chain.
LEMMA MovedToFront ==
  ASSUME NEW s \in Seq(Buf), NEW b \in Buf, Has(s, b), Once(s)
  PROVE  /\ ToFront(s, b) \in Seq(Buf) /\ Once(ToFront(s, b))
         /\ \A x : Has(ToFront(s, b), x) <=> Has(s, x)
<1> DEFINE j == CHOOSE i \in DOMAIN s : s[i] = b
           r == Unlink(s, j)
<1>1. j \in 1 .. Len(s) /\ s[j] = b
  BY DEF Has
<1>2. ToFront(s, b) = <<b>> \o r
  BY Zenon DEF ToFront
<1> HIDE DEF j
<1>3. r \in Seq(Buf) /\ Once(r) /\ \A x : Has(r, x) <=> Has(s, x) /\ x # b
  BY <1>1, Unlinked, Zenon
<1> HIDE DEF r
<1>4. ~ Has(r, b)
  BY <1>3, Zenon
<1>5. <<b>> \o r \in Seq(Buf) /\ Once(<<b>> \o r) /\ \A x : Has(<<b>> \o r, x) <=> Has(r, x) \/ x = b
  BY <1>3, <1>4, Linked, Zenon
<1> QED BY <1>2, <1>3, <1>5, Zenon

-----------------------------------------------------------------------------
\* binit puts every buffer on the chain of bucket 0.
LEMMA InitIInv == Init => IInv
<1> SUFFICES ASSUME Init PROVE IInv
  OBVIOUS
<1> USE BcacheAssumption
<1>1. 0 \in Bucket
  BY DEF Bucket
<1>2. /\ chain[0] \in Seq(Buf) /\ Len(chain[0]) = NBUF
      /\ \A j \in 1 .. NBUF : chain[0][j] = NBUF + 1 - j
  BY <1>1 DEF Init, Buf
<1>3. \A k \in Bucket : k # 0 => chain[k] = <<>> /\ Len(chain[k]) = 0
  BY Zenon DEF Init
<1>4. TypeOK
  <2>1. lock \in [Bucket -> Proc \cup {NoProc}]
    BY Zenon DEF Init
  <2>2. chain \in [Bucket -> Seq(Buf)]
    <3>1. \A k \in Bucket : chain[k] \in Seq(Buf)
      <4>1. <<>> \in Seq(Buf)
        OBVIOUS
      <4> QED BY <1>2, <1>3, <4>1, Zenon
    <3> QED BY <3>1, Zenon DEF Init
  <2>3. blockno \in [Buf -> Block \cup {NoBlock}] /\ refcnt \in [Buf -> Nat]
    BY Zenon DEF Init
  <2>4. data \in [Buf -> Value] /\ sleep \in [Buf -> Proc \cup {NoProc}] /\ disk \in [Block -> Value]
        /\ truth \in [Block -> Value]
    BY Zenon DEF Init
  <2>5. pc \in [Proc -> {"user", "bget", "search", "insert", "sleeplock", "fill", "unref", "panic"}]
        /\ want \in [Proc -> Block \cup {NoBlock}] /\ nextIdx \in [Proc -> Bucket]
    BY <1>1, Zenon DEF Init
  <2>6. buf \in [Proc -> Buf \cup {NoBuf}] /\ held \in [Proc -> SUBSET Buf] /\ pinned \subseteq Buf
    BY Zenon DEF Init
  <2>7. valid \in [Buf -> BOOLEAN]
    BY Zenon DEF Init
  <2> QED BY <2>1, <2>2, <2>3, <2>4, <2>5, <2>6, <2>7, Zenon DEF TypeOK
<1>5. LocksOK
  BY Zenon DEF Init, LocksOK, Misses
<1>6. ChainsOK
  <2>1. \A b \in Buf : Has(chain[0], b)
    <3> TAKE b \in Buf
    <3>1. NBUF + 1 - b \in 1 .. NBUF /\ NBUF + 1 - (NBUF + 1 - b) = b
      BY DEF Buf
    <3> QED BY <1>2, <3>1, Zenon DEF Has
  <2>2. \A k \in Bucket : Once(chain[k])
    BY <1>2, <1>3 DEF Once
  <2>3. \A b \in Buf : \A k \in Bucket : Has(chain[k], b) => k = 0
    BY <1>3 DEF Has
  <2>4. \A p \in Proc : pc[p] # "insert"
    BY Zenon DEF Init
  <2>5. \A b \in Buf : blockno[b] = NoBlock
    BY Zenon DEF Init
  <2> QED BY <1>1, <2>1, <2>2, <2>3, <2>4, <2>5, Zenon DEF ChainsOK
<1>7. \A b \in Buf : Users(b) = {}
  BY DEF Init, Users, Buf, NoBuf
<1>8. PlaceOK
  BY Zenon DEF Init, PlaceOK, Reads, Misses
<1>9. BlocksOK
  BY <1>7, Zenon DEF Init, BlocksOK, OneBufPerBlock
<1>10. CountsOK
  <2>1. IsFiniteSet({}) /\ Cardinality({}) = 0
    BY FS_EmptySet, Zenon
  <2>2. \A b \in Buf : refcnt[b] = 0 /\ b \notin pinned
    BY Zenon DEF Init
  <2>3. \A b \in Buf : IsFiniteSet(Users(b)) /\ Cardinality(Users(b)) = 0
    BY <1>7, <2>1, Zenon
  <2> QED BY <2>2, <2>3 DEF CountsOK, RefcntExact
<1>11. SleepOK
  BY Zenon DEF Init, SleepOK
<1>12. DataOK
  BY Zenon DEF Init, DataOK
<1> QED BY <1>4, <1>5, <1>6, <1>8, <1>9, <1>10, <1>11, <1>12, Zenon DEF IInv

\* The bucket locks when no process begins or ends a miss.
LEMMA LocksFrame ==
  ASSUME TypeOK, LocksOK, lock' = lock,
         \A q \in Proc : Misses(q)' = Misses(q) /\ (Misses(q) => want'[q] = want[q])
  PROVE  LocksOK'
BY Zenon DEF TypeOK, LocksOK

\* Chains when no buffer moves to another chain.
LEMMA ChainsKept ==
  ASSUME ChainsOK, blockno' = blockno,
         \A k \in Bucket : Once(chain'[k]) /\ \A x : Has(chain'[k], x) <=> Has(chain[k], x),
         \A q \in Proc : /\ pc'[q] = "insert" <=> pc[q] = "insert"
                         /\ pc[q] = "insert" => buf'[q] = buf[q]
  PROVE  ChainsOK'
<1>1. \A b \in Buf : \A k, l \in Bucket : Has(chain'[k], b) /\ Has(chain'[l], b) => k = l
  BY Zenon DEF ChainsOK
<1>2. \A p \in Proc : pc'[p] = "insert" => \A k \in Bucket : ~ Has(chain'[k], buf'[p])
  BY Zenon DEF ChainsOK
<1>3. \A p, q \in Proc : pc'[p] = "insert" /\ pc'[q] = "insert" /\ buf'[p] = buf'[q] => p = q
  BY Zenon DEF ChainsOK
<1>4. \A b \in Buf : \/ \E k \in Bucket : Has(chain'[k], b)
                    \/ \E p \in Proc : pc'[p] = "insert" /\ buf'[p] = b
  BY Zenon DEF ChainsOK
<1>5. \A b \in Buf : \A k \in Bucket :
        Has(chain'[k], b) /\ blockno'[b] # NoBlock => k = getIndex(blockno'[b])
  BY Zenon DEF ChainsOK
<1> QED BY <1>1, <1>2, <1>3, <1>4, <1>5, Zenon DEF ChainsOK

\* Chains when no buffer moves.
LEMMA ChainsFrame ==
  ASSUME ChainsOK, UNCHANGED <<chain, blockno>>,
         \A q \in Proc : /\ (pc'[q] = "insert") = (pc[q] = "insert")
                         /\ pc[q] = "insert" => buf'[q] = buf[q]
  PROVE  ChainsOK'
<1>1. \A k \in Bucket : Once(chain'[k]) /\ \A x : Has(chain'[k], x) <=> Has(chain[k], x)
  BY Zenon DEF ChainsOK
<1> QED BY <1>1, ChainsKept, Zenon

\* Counts when nobody starts or stops using a buffer.
LEMMA CountsFrame ==
  ASSUME CountsOK, UNCHANGED <<refcnt, pinned>>, \A b \in Buf : Users(b)' = Users(b)
  PROVE  CountsOK'
BY Zenon DEF CountsOK, RefcntExact

\* The data when buffers, disk and contents stay and nobody gives a buffer up.
LEMMA DataFrame ==
  ASSUME TypeOK, DataOK, UNCHANGED <<blockno, valid, data, disk, pinned, truth, held>>
  PROVE  DataOK'
BY Zenon DEF TypeOK, DataOK

-----------------------------------------------------------------------------
\* bread is called.
LEMMA BreadCallIInv ==
  ASSUME IInv, NEW p \in Proc, NEW n \in Block, BreadCall(p, n)
  PROVE  IInv'
<1> USE DEF IInv, bufvars
<1>1. /\ pc[p] = "user" /\ (\A b \in held[p] : blockno[b] < n)
      /\ UNCHANGED <<lock, chain, blockno, refcnt, valid, data, sleep, disk, pinned, nextIdx, buf, held, truth>>
  BY Zenon DEF BreadCall
<1>2. \A q \in Proc : /\ pc'[q] = IF q = p THEN "bget" ELSE pc[q]
                      /\ want'[q] = IF q = p THEN n ELSE want[q]
  BY Zenon DEF BreadCall, Goto, TypeOK
<1>3. TypeOK'
  BY <1>1, Zenon DEF BreadCall, Goto, TypeOK
<1>4. LocksOK'
  BY <1>1, <1>2, LocksFrame DEF Misses
<1>5. ChainsOK'
  BY <1>1, <1>2, ChainsFrame, Zenon
<1>6. PlaceOK'
  BY <1>1, <1>2 DEF PlaceOK, Reads, Misses
<1>7. \A b \in Buf : Users(b)' = Users(b)
  BY <1>1, Zenon DEF Users
<1>8. BlocksOK'
  BY <1>1, <1>2, <1>7, Zenon DEF BlocksOK, OneBufPerBlock
<1>9. CountsOK'
  BY <1>1, <1>7, CountsFrame, Zenon
<1>10. SleepOK'
  BY <1>1, <1>2 DEF SleepOK
<1>11. DataOK'
  BY <1>1, DataFrame, Zenon
<1> QED BY <1>3, <1>4, <1>5, <1>6, <1>8, <1>9, <1>10, <1>11, Zenon

\* bget finds the block in its bucket: one more user.
LEMMA BgetHitIInv ==
  ASSUME IInv, NEW p \in Proc, BgetHit(p)
  PROVE  IInv'
<1> USE DEF IInv
<1>1. PICK b \in Cached(want[p]) :
        /\ refcnt' = [refcnt EXCEPT ![b] = @ + 1]
        /\ buf' = [buf EXCEPT ![p] = b]
  BY Zenon DEF BgetHit
<1>2. /\ pc[p] = "bget" /\ want[p] \in Block /\ buf[p] = NoBuf
      /\ UNCHANGED <<lock, chain, blockno, valid, data, sleep, disk, pinned, want, nextIdx, held, truth>>
  BY Zenon DEF BgetHit, PlaceOK, Reads, Misses
<1>3. getIndex(want[p]) \in Bucket /\ want[p] \in Nat
  BY <1>2, BlockType, Zenon
<1>4. b \in Buf /\ blockno[b] = want[p]
  <2>1. chain[getIndex(want[p])] \in Seq(Buf)
    BY <1>3, Zenon DEF TypeOK
  <2> QED BY <2>1 DEF Cached, Range
<1>5. \A q \in Proc : /\ pc'[q] = IF q = p THEN "sleeplock" ELSE pc[q]
                      /\ buf'[q] = IF q = p THEN b ELSE buf[q]
  BY <1>1, Zenon DEF BgetHit, Goto, TypeOK
<1>6. TypeOK'
  BY <1>1, <1>2, <1>4 DEF BgetHit, Goto, TypeOK
<1>7. LocksOK'
  BY <1>2, <1>5, LocksFrame DEF Misses
<1>8. ChainsOK'
  BY <1>2, <1>5, ChainsFrame, Zenon
<1>9. PlaceOK'
  BY <1>2, <1>4, <1>5 DEF PlaceOK, Reads, Misses
<1>10. p \notin Users(b)
  <2>1. \A c \in held[p] : blockno[c] < want[p]
    BY <1>2, Zenon DEF PlaceOK, Reads, Misses
  <2>2. b \notin held[p]
    BY <1>3, <1>4, <2>1
  <2> QED BY <1>2, <1>4, <2>2, NoBufType, Zenon DEF Users
<1>11. Users(b)' = Users(b) \cup {p} /\ \A c \in Buf : c # b => Users(c)' = Users(c)
  BY <1>2, <1>4, <1>5, NoBufType, Zenon DEF Users
<1>12. BlocksOK'
  BY <1>2, <1>3, <1>4, <1>5, <1>11 DEF BlocksOK, OneBufPerBlock, NoBlock
<1>13. CountsOK'
  <2>1. IsFiniteSet(Users(b)') /\ Cardinality(Users(b)') = Cardinality(Users(b)) + 1
    BY <1>4, <1>10, <1>11, FS_AddElement DEF CountsOK
  <2>2. \A c \in Buf : refcnt'[c] = IF c = b THEN refcnt[b] + 1 ELSE refcnt[c]
    BY <1>1, <1>4, Zenon DEF TypeOK
  <2>3. Cardinality(Users(b)) \in Nat
    BY <1>4, FS_CardinalityType, Zenon DEF CountsOK
  <2>4. ASSUME NEW c \in Buf, c # b
        PROVE  IsFiniteSet(Users(c)') /\ refcnt'[c] = Cardinality(Users(c)') + IF c \in pinned' THEN 1 ELSE 0
    BY <1>2, <1>11, <2>2, <2>4, Zenon DEF CountsOK, RefcntExact
  <2>5. refcnt'[b] = Cardinality(Users(b)') + IF b \in pinned' THEN 1 ELSE 0
    BY <1>2, <1>4, <2>1, <2>2, <2>3 DEF CountsOK, RefcntExact
  <2> QED BY <2>1, <2>4, <2>5, Zenon DEF CountsOK, RefcntExact
<1>14. SleepOK'
  BY <1>2, <1>4, <1>5 DEF SleepOK
<1>15. DataOK'
  BY <1>2, DataFrame, Zenon
<1> QED BY <1>6, <1>7, <1>8, <1>9, <1>12, <1>13, <1>14, <1>15, Zenon

\* bget does not find it: no buffer has the block, and none will while the bucket
\* is locked.
LEMMA BgetMissIInv ==
  ASSUME IInv, NEW p \in Proc, BgetMiss(p)
  PROVE  IInv'
<1> USE DEF IInv, bufvars
<1> DEFINE n == want[p]
<1>1. /\ pc[p] = "bget" /\ want[p] \in Block /\ buf[p] = NoBuf /\ lock[getIndex(n)] = NoProc
      /\ lock' = [lock EXCEPT ![getIndex(n)] = p] /\ Cached(n) = {}
      /\ UNCHANGED <<chain, blockno, refcnt, valid, data, sleep, disk, pinned, want, buf, held, truth>>
  BY Zenon DEF BgetMiss, KeepLock, PlaceOK, Reads, Misses
<1>2. getIndex(n) \in Bucket /\ n \in Nat /\ getIndex(n + 1) \in Bucket
  BY <1>1, BlockType, Zenon
<1>3. \A q \in Proc : pc'[q] = IF q = p THEN "search" ELSE pc[q]
  BY Zenon DEF BgetMiss, Goto, TypeOK
<1>4. TypeOK'
  BY <1>1, <1>2, Zenon DEF BgetMiss, Goto, TypeOK
<1>5. \A k \in Bucket : lock'[k] = IF k = getIndex(n) THEN p ELSE lock[k]
  BY <1>1, Zenon DEF TypeOK
<1>6. \A q \in Proc : Misses(q)' = (q = p \/ Misses(q))
  BY <1>3 DEF Misses
<1>7. LocksOK'
  <2>1. ASSUME NEW q \in Proc, Misses(q)' PROVE lock'[getIndex(want'[q])] = q
    <3>1. CASE q = p
      BY <1>1, <1>2, <1>5, <3>1, Zenon
    <3>2. CASE q # p
      <4>1. Misses(q) /\ lock[getIndex(want[q])] = q
        BY <1>6, <2>1, <3>2, Zenon DEF LocksOK
      <4>2. want[q] \in Block /\ getIndex(want[q]) \in Bucket
        BY <4>1, IndexType, BcacheAssumption, Zenon DEF PlaceOK, Reads
      <4> QED BY <1>1, <1>5, <4>1, <4>2, BcacheAssumption, Zenon
    <3> QED BY <3>1, <3>2, Zenon
  <2>2. ASSUME NEW k \in Bucket, NEW q \in Proc, lock'[k] = q PROVE Misses(q)' /\ getIndex(want'[q]) = k
    <3>1. CASE k = getIndex(n)
      BY <1>1, <1>5, <1>6, <2>2, <3>1, Zenon
    <3>2. CASE k # getIndex(n)
      <4>1. lock[k] = q
        BY <1>5, <2>2, <3>2, Zenon
      <4>2. Misses(q) /\ getIndex(want[q]) = k
        BY <4>1, Zenon DEF LocksOK
      <4> QED BY <1>1, <1>6, <4>2, Zenon
    <3> QED BY <3>1, <3>2, Zenon
  <2> QED BY <2>1, <2>2, Zenon DEF LocksOK
<1>8. ChainsOK'
  BY <1>1, <1>3, ChainsFrame, Zenon
<1>9. PlaceOK'
  BY <1>1, <1>3, Zenon DEF PlaceOK, Reads, Misses
<1>10. \A b \in Buf : Users(b)' = Users(b)
  BY <1>1, Zenon DEF Users
<1>11. ASSUME NEW b \in Buf, blockno[b] = n PROVE FALSE
  <2>1. CASE \E k \in Bucket : Has(chain[k], b)
    <3>1. Has(chain[getIndex(n)], b)
      BY <1>2, <1>11, <2>1 DEF ChainsOK, NoBlock
    <3>2. b \in Cached(n)
      BY <1>2, <1>11, <3>1 DEF Has, Cached, Range, TypeOK
    <3> QED BY <1>1, <3>2, Zenon
  <2>2. CASE \E q \in Proc : pc[q] = "insert" /\ buf[q] = b
    <3>1. PICK q \in Proc : pc[q] = "insert" /\ buf[q] = b
      BY <2>2, Zenon
    <3>2. want[q] = n /\ lock[getIndex(want[q])] = q
      BY <1>11, <3>1, Zenon DEF PlaceOK, LocksOK, Misses
    <3> QED BY <1>1, <3>2, BcacheAssumption, Zenon
  <2> QED BY <2>1, <2>2, Zenon DEF ChainsOK
<1>12. BlocksOK'
  BY <1>1, <1>3, <1>10, <1>11, Zenon DEF BlocksOK, OneBufPerBlock
<1>13. CountsOK'
  BY <1>1, <1>10, CountsFrame, Zenon
<1>14. SleepOK'
  BY <1>1, <1>3 DEF SleepOK
<1>15. DataOK'
  BY <1>1, DataFrame, Zenon
<1> QED BY <1>4, <1>7, <1>8, <1>9, <1>12, <1>13, <1>14, <1>15, Zenon

\* The next bucket, or none left: the lock is kept.
LEMMA SearchIInv ==
  ASSUME IInv, NEW p \in Proc, SearchNext(p) \/ SearchPanic(p)
  PROVE  IInv'
<1> USE DEF IInv, bufvars
<1>1. /\ pc[p] = "search"
      /\ UNCHANGED <<lock, chain, blockno, refcnt, valid, data, sleep, disk, pinned, want, buf, held, truth>>
  BY Zenon DEF SearchNext, SearchPanic
<1>2. \A q \in Proc : pc'[q] = pc[q] \/ (q = p /\ pc'[q] = "panic")
  BY Zenon DEF SearchNext, SearchPanic, Goto, TypeOK
<1>3. TypeOK'
  <2>1. \A k \in Bucket : getIndex(k + 1) \in Bucket
    BY IndexType DEF Bucket
  <2>2. CASE SearchNext(p)
    BY <1>1, <2>1, <2>2, Zenon DEF SearchNext, TypeOK
  <2>3. CASE SearchPanic(p)
    BY <1>1, <2>3, Zenon DEF SearchPanic, Goto, TypeOK
  <2> QED BY <2>2, <2>3, Zenon
<1>4. LocksOK'
  BY <1>1, <1>2, LocksFrame DEF Misses
<1>5. ChainsOK'
  BY <1>1, <1>2, ChainsFrame, Zenon
<1>6. PlaceOK'
  BY <1>1, <1>2, Zenon DEF PlaceOK, Reads, Misses
<1>7. \A b \in Buf : Users(b)' = Users(b)
  BY <1>1, Zenon DEF Users
<1>8. BlocksOK'
  BY <1>1, <1>2, <1>7, Zenon DEF BlocksOK, OneBufPerBlock
<1>9. CountsOK'
  BY <1>1, <1>7, CountsFrame, Zenon
<1>10. SleepOK'
  BY <1>1, <1>2 DEF SleepOK
<1>11. DataOK'
  BY <1>1, DataFrame, Zenon
<1> QED BY <1>3, <1>4, <1>5, <1>6, <1>8, <1>9, <1>10, <1>11, Zenon

\* An unused buffer of another bucket is taken over: nobody uses it, nothing is
\* lost with it, and no other buffer has the block.
LEMMA RecycleIInv ==
  ASSUME IInv, NEW p \in Proc, Recycle(p)
  PROVE  IInv'
<1> USE DEF IInv
<1> DEFINE k == nextIdx[p]
           n == want[p]
<1>1. /\ pc[p] = "search" /\ k # getIndex(n) /\ lock[k] = NoProc /\ buf[p] = NoBuf
      /\ n = want[p] /\ n \in Block /\ k \in Bucket
      /\ UNCHANGED <<lock, data, sleep, disk, pinned, want, nextIdx, held, truth>>
  BY Zenon DEF Recycle, PlaceOK, Reads, Misses, TypeOK
<1>2. PICK j \in DOMAIN chain[k] :
        /\ Unused(chain[k][j])
        /\ blockno' = [blockno EXCEPT ![chain[k][j]] = n]
        /\ StaleData(chain[k][j])
        /\ refcnt' = [refcnt EXCEPT ![chain[k][j]] = 1]
        /\ chain' = [chain EXCEPT ![k] = Unlink(@, j)]
        /\ buf' = [buf EXCEPT ![p] = chain[k][j]]
  BY Zenon DEF Recycle
<1>3. chain[k] \in Seq(Buf) /\ j \in 1 .. Len(chain[k])
  BY <1>1, <1>2 DEF TypeOK
<1>4. PICK b \in Buf : b = chain[k][j] /\ Has(chain[k], b)
  BY <1>3 DEF Has
<1>5. \A q \in Proc : /\ pc'[q] = IF q = p THEN "insert" ELSE pc[q]
                      /\ buf'[q] = IF q = p THEN b ELSE buf[q]
  BY <1>2, <1>4 DEF Recycle, Goto, TypeOK
<1>6. /\ refcnt[b] = 0
      /\ blockno'[b] = n /\ valid'[b] = FALSE /\ refcnt'[b] = 1
      /\ \A c \in Buf : c # b => blockno'[c] = blockno[c] /\ valid'[c] = valid[c] /\ refcnt'[c] = refcnt[c]
  BY <1>2, <1>4, Zenon DEF TypeOK, Unused, StaleData
<1>7. /\ Unlink(chain[k], j) \in Seq(Buf) /\ Once(Unlink(chain[k], j))
      /\ \A x : Has(Unlink(chain[k], j), x) <=> Has(chain[k], x) /\ x # b
  <2>1. Once(chain[k])
    BY <1>1, Zenon DEF ChainsOK
  <2> QED BY ONLY <1>3, <1>4, <2>1, Unlinked, Zenon
<1>8. \A l \in Bucket : chain'[l] = IF l = k THEN Unlink(chain[k], j) ELSE chain[l]
  BY <1>1, <1>2, Zenon DEF TypeOK
<1>9. TypeOK'
  <2>1. chain' \in [Bucket -> Seq(Buf)]
    BY <1>1, <1>2, <1>7, Zenon DEF TypeOK
  <2>2. valid' \in [Buf -> BOOLEAN]
    BY <1>2, Zenon DEF TypeOK, StaleData
  <2>3. blockno' \in [Buf -> Block \cup {NoBlock}] /\ refcnt' \in [Buf -> Nat] /\ buf' \in [Proc -> Buf \cup {NoBuf}]
    BY <1>1, <1>2, <1>4, Zenon DEF TypeOK
  <2>4. pc' \in [Proc -> {"user", "bget", "search", "insert", "sleeplock", "fill", "unref", "panic"}]
    BY Zenon DEF Recycle, Goto, TypeOK
  <2> QED BY <1>1, <2>1, <2>2, <2>3, <2>4, Zenon DEF TypeOK
<1> HIDE DEF k, n
<1>10. \A x : \A l \in Bucket : Has(chain'[l], x) <=> Has(chain[l], x) /\ ~ (l = k /\ x = b)
  <2> TAKE x
  <2> TAKE l \in Bucket
  <2>1. CASE l = k
    BY <1>7, <1>8, <2>1, Zenon
  <2>2. CASE l # k
    BY <1>8, <2>2, Zenon
  <2> QED BY <2>1, <2>2, Zenon
<1>11. Users(b) = {} /\ b \notin pinned
  <2>1. IsFiniteSet(Users(b)) /\ Cardinality(Users(b)) \in Nat
    BY <1>4, FS_CardinalityType, Zenon DEF CountsOK
  <2>2. Cardinality(Users(b)) = 0 /\ b \notin pinned
    BY <1>4, <1>6, <2>1 DEF CountsOK, RefcntExact
  <2> QED BY <2>1, <2>2, FS_EmptySet, Zenon
<1>12. Users(b)' = {p} /\ \A c \in Buf : c # b => Users(c)' = Users(c)
  <2>1. \A q \in Proc : b \notin held[q] /\ buf[q] # b
    BY <1>11, Zenon DEF Users
  <2>2. Users(b)' = {p}
    BY <1>1, <1>5, <2>1, Zenon DEF Users
  <2>3. ASSUME NEW c \in Buf, c # b PROVE Users(c)' = Users(c)
    <3>1. \A q \in Proc : c \in held'[q] \cup {buf'[q]} <=> c \in held[q] \cup {buf[q]}
      BY <1>1, <1>5, <2>3, NoBufType, Zenon
    <3> QED BY <3>1, Zenon DEF Users
  <2> QED BY <2>2, <2>3, Zenon
<1>13. LocksOK'
  BY <1>1, <1>5, LocksFrame DEF Misses
<1>14. ChainsOK'
  <2>1. \A l \in Bucket : ~ Has(chain'[l], b)
    BY <1>1, <1>4, <1>10, Zenon DEF ChainsOK
  <2>2. \A l \in Bucket : Once(chain'[l])
    BY <1>7, <1>8, Zenon DEF ChainsOK
  <2>3. \A q \in Proc : pc[q] = "insert" => buf[q] # b
    BY <1>1, <1>4, Zenon DEF ChainsOK
  <2>4. \A c \in Buf : \A l, m \in Bucket : Has(chain'[l], c) /\ Has(chain'[m], c) => l = m
    BY <1>10, Zenon DEF ChainsOK
  <2>5. \A q \in Proc : pc'[q] = "insert" => \A l \in Bucket : ~ Has(chain'[l], buf'[q])
    BY <1>5, <1>10, <2>1 DEF ChainsOK
  <2>6. \A q, r \in Proc : pc'[q] = "insert" /\ pc'[r] = "insert" /\ buf'[q] = buf'[r] => q = r
    BY <1>1, <1>5, <2>3 DEF ChainsOK
  <2>7. \A c \in Buf : (\E l \in Bucket : Has(chain'[l], c)) \/ \E q \in Proc : pc'[q] = "insert" /\ buf'[q] = c
    BY <1>1, <1>5, <1>10 DEF ChainsOK
  <2>8. \A c \in Buf : \A l \in Bucket : Has(chain'[l], c) /\ blockno'[c] # NoBlock => l = getIndex(blockno'[c])
    <3> SUFFICES ASSUME NEW c \in Buf, NEW l \in Bucket, Has(chain'[l], c), blockno'[c] # NoBlock
                 PROVE  l = getIndex(blockno'[c])
      OBVIOUS
    <3>1. c # b /\ Has(chain[l], c)
      BY <1>10, <2>1, Zenon
    <3> QED BY <1>6, <3>1 DEF ChainsOK
  <2> QED BY <2>2, <2>4, <2>5, <2>6, <2>7, <2>8, Zenon DEF ChainsOK
<1>15. PlaceOK'
  <2> SUFFICES ASSUME NEW q \in Proc
               PROVE  /\ Reads(q)' => want'[q] \in Block /\ \A c \in held'[q] : blockno'[c] < want'[q]
                      /\ pc'[q] \in {"insert", "sleeplock", "fill"} => buf'[q] \in Buf /\ blockno'[buf'[q]] = want'[q]
                      /\ pc'[q] \in {"user", "bget", "search", "panic"} => buf'[q] = NoBuf
                      /\ pc'[q] = "unref" => buf'[q] \in Buf \ held'[q]
    BY Zenon DEF PlaceOK
  <2>1. b \notin held[q] /\ buf[q] # b /\ held[q] \subseteq Buf
    BY <1>11, Zenon DEF Users, TypeOK
  <2>2. Reads(q)' => want'[q] \in Block /\ \A c \in held'[q] : blockno'[c] < want'[q]
    BY <1>1, <1>5, <1>6, <2>1, Zenon DEF PlaceOK, Reads, Misses
  <2>3. CASE q = p
    BY <1>1, <1>4, <1>5, <1>6, <2>2, <2>3, Zenon
  <2>4. CASE q # p
    <3>1. pc'[q] = pc[q] /\ buf'[q] = buf[q] /\ want'[q] = want[q] /\ held'[q] = held[q]
      BY <1>1, <1>5, <2>4, Zenon
    <3>2. buf[q] \in Buf => blockno'[buf[q]] = blockno[buf[q]]
      BY <1>6, <2>1, Zenon
    <3> QED BY <2>2, <3>1, <3>2, Zenon DEF PlaceOK
  <2> QED BY <2>3, <2>4, Zenon
<1>16. \A c \in Buf : blockno[c] # n
  BY <1>1, Zenon DEF BlocksOK
<1>17. BlocksOK'
  <2>1. OneBufPerBlock'
    <3> SUFFICES ASSUME NEW c \in Buf, NEW d \in Buf, c # d, blockno'[c] = blockno'[d]
                 PROVE  blockno'[c] = NoBlock
      BY Zenon DEF OneBufPerBlock
    <3>1. c # b /\ d # b
      BY <1>4, <1>6, <1>16, Zenon
    <3> QED BY <1>6, <3>1 DEF BlocksOK, OneBufPerBlock
  <2>2. ASSUME NEW q \in Proc, pc'[q] = "search", NEW c \in Buf PROVE blockno'[c] # want'[q]
    <3>1. q # p /\ pc[q] = "search" /\ want'[q] = want[q]
      BY <1>1, <1>5, <2>2, Zenon
    <3>2. want[q] # n
      BY <1>1, <3>1 DEF LocksOK, Misses
    <3> QED BY <1>6, <3>1, <3>2 DEF BlocksOK
  <2>3. \A c \in Buf : Users(c)' # {} \/ c \in pinned' => blockno'[c] # NoBlock
    BY <1>1, <1>6, <1>12, BlockType DEF BlocksOK
  <2> QED BY <2>1, <2>2, <2>3, Zenon DEF BlocksOK
<1>18. CountsOK'
  <2>1. IsFiniteSet({p}) /\ Cardinality({p}) = 1
    BY FS_Singleton, Zenon
  <2>2. ASSUME NEW c \in Buf
        PROVE  IsFiniteSet(Users(c)') /\ refcnt'[c] = Cardinality(Users(c)') + IF c \in pinned' THEN 1 ELSE 0
    <3>1. CASE c = b
      <4>1. b \notin pinned' /\ Users(c)' = {p} /\ refcnt'[c] = 1
        BY <1>1, <1>6, <1>11, <1>12, <3>1, Zenon
      <4> QED BY <2>1, <3>1, <4>1
    <3>2. CASE c # b
      BY <1>1, <1>6, <1>12, <3>2, Zenon DEF CountsOK, RefcntExact
    <3> QED BY <3>1, <3>2, Zenon
  <2> QED BY <2>2, Zenon DEF CountsOK, RefcntExact
<1>19. SleepOK'
  BY <1>1, <1>5, <1>11 DEF SleepOK
<1>20. DataOK'
  <2>1. \A q \in Proc : \A c \in held'[q] : c # b /\ c \in Buf
    BY <1>1, <1>11 DEF Users, TypeOK
  <2>2. \A q \in Proc : \A c \in held'[q] : valid'[c] = TRUE
    BY <1>1, <1>6, <2>1 DEF DataOK
  <2>3. \A c \in Buf : valid'[c] = TRUE /\ blockno'[c] # NoBlock => data'[c] = truth'[blockno'[c]]
    BY <1>1, <1>6 DEF DataOK
  <2>4. ASSUME NEW m \in Block, truth'[m] # disk'[m]
        PROVE  \E c \in Buf : /\ blockno'[c] = m /\ valid'[c] = TRUE
                              /\ c \in pinned' \/ \E q \in Proc : c \in held'[q]
    <3>1. PICK c \in Buf : /\ blockno[c] = m /\ valid[c] = TRUE
                           /\ c \in pinned \/ \E q \in Proc : c \in held[q]
      BY <1>1, <2>4, Zenon DEF DataOK
    <3>2. c # b
      BY <1>11, <3>1, Zenon DEF Users
    <3> QED BY <1>1, <1>6, <3>1, <3>2, Zenon
  <2> QED BY <2>2, <2>3, <2>4, Zenon DEF DataOK
<1> QED BY <1>9, <1>13, <1>14, <1>15, <1>17, <1>18, <1>19, <1>20, Zenon

\* The recycled buffer goes on the chain of its block, and the lock is released.
LEMMA InsertIInv ==
  ASSUME IInv, NEW p \in Proc, Insert(p)
  PROVE  IInv'
<1> USE DEF IInv, bufvars
<1>1. PICK b \in Buf, k \in Bucket : /\ b = buf[p] /\ k = getIndex(want[p])
                                     /\ blockno[b] = want[p] /\ want[p] \in Block
  BY BlockType, Zenon DEF Insert, PlaceOK, Reads, Misses
<1>2. /\ pc[p] = "insert" /\ lock[k] = p
      /\ chain' = [chain EXCEPT ![k] = <<b>> \o @]
      /\ lock' = [lock EXCEPT ![k] = NoProc]
      /\ UNCHANGED <<blockno, refcnt, valid, data, sleep, disk, pinned, want, nextIdx, buf, held, truth>>
  BY <1>1, Zenon DEF Insert, LocksOK, Misses
<1>3. \A q \in Proc : pc'[q] = IF q = p THEN "sleeplock" ELSE pc[q]
  BY Zenon DEF Insert, Goto, TypeOK
<1>4. chain[k] \in Seq(Buf) /\ Once(chain[k]) /\ \A l \in Bucket : ~ Has(chain[l], b)
  BY <1>1, <1>2, Zenon DEF TypeOK, ChainsOK
<1>5. /\ <<b>> \o chain[k] \in Seq(Buf) /\ Once(<<b>> \o chain[k])
      /\ \A x : Has(<<b>> \o chain[k], x) <=> Has(chain[k], x) \/ x = b
  BY ONLY <1>4, Linked, Zenon
<1>6. \A l \in Bucket : /\ chain'[l] = IF l = k THEN <<b>> \o chain[k] ELSE chain[l]
                        /\ lock'[l] = IF l = k THEN NoProc ELSE lock[l]
  BY <1>2, Zenon DEF TypeOK
<1>7. TypeOK'
  <2>1. chain' \in [Bucket -> Seq(Buf)]
    BY <1>2, <1>5, Zenon DEF TypeOK
  <2>2. lock' \in [Bucket -> Proc \cup {NoProc}]
    BY <1>2, Zenon DEF TypeOK
  <2>3. pc' \in [Proc -> {"user", "bget", "search", "insert", "sleeplock", "fill", "unref", "panic"}]
    BY Zenon DEF Insert, Goto, TypeOK
  <2> QED BY <1>2, <2>1, <2>2, <2>3, Zenon DEF TypeOK
<1>8. \A l \in Bucket : \A x : Has(chain'[l], x) <=> Has(chain[l], x) \/ (l = k /\ x = b)
  BY <1>5, <1>6, Zenon
<1>9. \A q \in Proc : Misses(q)' <=> Misses(q) /\ q # p
  BY <1>2, <1>3, Zenon DEF Misses
<1>10. LocksOK'
  <2>1. ASSUME NEW q \in Proc, Misses(q)' PROVE lock'[getIndex(want'[q])] = q
    <3>1. Misses(q) /\ q # p
      BY <1>9, <2>1, Zenon
    <3>2. lock[getIndex(want[q])] = q /\ want[q] \in Block
      BY <3>1, Zenon DEF LocksOK, PlaceOK, Reads
    <3>3. getIndex(want[q]) \in Bucket /\ getIndex(want[q]) # k
      BY <1>2, <3>1, <3>2, BlockType, Zenon
    <3> QED BY <1>2, <1>6, <3>2, <3>3, Zenon
  <2>2. ASSUME NEW l \in Bucket, NEW q \in Proc, lock'[l] = q PROVE Misses(q)' /\ getIndex(want'[q]) = l
    <3>1. l # k /\ lock[l] = q
      BY <1>6, <2>2, BcacheAssumption, Zenon
    <3>2. Misses(q) /\ getIndex(want[q]) = l
      BY <3>1, Zenon DEF LocksOK
    <3> QED BY <1>1, <1>2, <1>9, <3>1, <3>2, Zenon
  <2> QED BY <2>1, <2>2, Zenon DEF LocksOK
<1>11. ChainsOK'
  <2>1. \A l \in Bucket : Once(chain'[l])
    BY <1>5, <1>6, Zenon DEF ChainsOK
  <2>2. \A c \in Buf : \A l, m \in Bucket : Has(chain'[l], c) /\ Has(chain'[m], c) => l = m
    <3> TAKE c \in Buf
    <3> TAKE l, m \in Bucket
    <3>1. CASE c = b
      BY <1>4, <1>8, <3>1, Zenon
    <3>2. CASE c # b
      BY <1>8, <3>2, Zenon DEF ChainsOK
    <3> QED BY <3>1, <3>2, Zenon
  <2>3. ASSUME NEW q \in Proc, pc'[q] = "insert" PROVE pc[q] = "insert" /\ q # p /\ buf[q] # b
    BY <1>1, <1>2, <1>3, <2>3 DEF ChainsOK
  <2>4. \A q \in Proc : pc'[q] = "insert" => \A l \in Bucket : ~ Has(chain'[l], buf'[q])
    <3> SUFFICES ASSUME NEW q \in Proc, pc'[q] = "insert", NEW l \in Bucket
                 PROVE  ~ Has(chain'[l], buf'[q])
      OBVIOUS
    <3>1. pc[q] = "insert" /\ buf[q] # b /\ buf'[q] = buf[q]
      BY <1>2, <2>3, Zenon
    <3>2. ~ Has(chain[l], buf[q])
      BY <3>1, Zenon DEF ChainsOK
    <3> QED BY <1>8, <3>1, <3>2, Zenon
  <2>5. \A q, r \in Proc : pc'[q] = "insert" /\ pc'[r] = "insert" /\ buf'[q] = buf'[r] => q = r
    BY <1>2, <2>3, Zenon DEF ChainsOK
  <2>6. ASSUME NEW c \in Buf
        PROVE  (\E l \in Bucket : Has(chain'[l], c)) \/ \E q \in Proc : pc'[q] = "insert" /\ buf'[q] = c
    <3>1. CASE \E l \in Bucket : Has(chain[l], c)
      BY <1>8, <3>1, Zenon
    <3>2. CASE \E q \in Proc : pc[q] = "insert" /\ buf[q] = c
      <4>1. PICK q \in Proc : pc[q] = "insert" /\ buf[q] = c
        BY <3>2, Zenon
      <4>2. CASE q = p
        BY <1>1, <1>8, <4>1, <4>2, Zenon
      <4>3. CASE q # p
        BY <1>2, <1>3, <4>1, <4>3, Zenon
      <4> QED BY <4>2, <4>3, Zenon
    <3> QED BY <3>1, <3>2, Zenon DEF ChainsOK
  <2>7. \A c \in Buf : \A l \in Bucket : Has(chain'[l], c) /\ blockno'[c] # NoBlock => l = getIndex(blockno'[c])
    <3> TAKE c \in Buf
    <3> TAKE l \in Bucket
    <3>1. CASE c = b
      BY <1>1, <1>2, <1>4, <1>8, <3>1
    <3>2. CASE c # b
      BY <1>2, <1>8, <3>2, Zenon DEF ChainsOK
    <3> QED BY <3>1, <3>2, Zenon
  <2> QED BY <2>1, <2>2, <2>4, <2>5, <2>6, <2>7, Zenon DEF ChainsOK
<1>12. PlaceOK'
  BY <1>2, <1>3 DEF PlaceOK, Reads, Misses
<1>13. \A c \in Buf : Users(c)' = Users(c)
  BY <1>2, Zenon DEF Users
<1>14. BlocksOK'
  BY <1>2, <1>3, <1>13 DEF BlocksOK, OneBufPerBlock
<1>15. CountsOK'
  BY <1>2, <1>13, CountsFrame, Zenon
<1>16. SleepOK'
  BY <1>2, <1>3 DEF SleepOK
<1>17. DataOK'
  BY <1>2, DataFrame, Zenon
<1> QED BY <1>7, <1>10, <1>11, <1>12, <1>14, <1>15, <1>16, <1>17, Zenon

-----------------------------------------------------------------------------
\* acquiresleep: the buffer has one owner.
LEMMA AcquireSleepIInv ==
  ASSUME IInv, NEW p \in Proc, AcquireSleep(p)
  PROVE  IInv'
<1> USE DEF IInv, bufvars
<1>1. PICK b \in Buf : b = buf[p] /\ blockno[b] = want[p]
  BY Zenon DEF AcquireSleep, PlaceOK
<1>2. /\ pc[p] = "sleeplock" /\ sleep[b] = NoProc /\ sleep' = [sleep EXCEPT ![b] = p]
      /\ UNCHANGED <<lock, chain, blockno, refcnt, valid, data, disk, pinned, want, nextIdx, buf, held, truth>>
  BY <1>1, Zenon DEF AcquireSleep, SleepFree
<1>3. \A q \in Proc : pc'[q] = IF q = p THEN "fill" ELSE pc[q]
  BY Zenon DEF AcquireSleep, Goto, TypeOK
<1>4. TypeOK'
  <2>1. sleep' \in [Buf -> Proc \cup {NoProc}]
    BY <1>2, Zenon DEF TypeOK
  <2>2. pc' \in [Proc -> {"user", "bget", "search", "insert", "sleeplock", "fill", "unref", "panic"}]
    BY Zenon DEF AcquireSleep, Goto, TypeOK
  <2> QED BY <1>2, <2>1, <2>2, Zenon DEF TypeOK
<1>5. LocksOK'
  BY <1>2, <1>3, LocksFrame DEF Misses
<1>6. ChainsOK'
  BY <1>2, <1>3, ChainsFrame, Zenon
<1>7. PlaceOK'
  BY <1>2, <1>3 DEF PlaceOK, Reads, Misses
<1>8. \A c \in Buf : Users(c)' = Users(c)
  BY <1>2, Zenon DEF Users
<1>9. BlocksOK'
  BY <1>2, <1>3, <1>8, Zenon DEF BlocksOK, OneBufPerBlock
<1>10. CountsOK'
  BY <1>2, <1>8, CountsFrame, Zenon
<1>11. SleepOK'
  <2> SUFFICES ASSUME NEW c \in Buf, NEW q \in Proc
               PROVE  sleep'[c] = q <=> c \in held'[q] \/ (pc'[q] = "fill" /\ buf'[q] = c)
    BY Zenon DEF SleepOK
  <2>1. CASE c = b
    <3>1. sleep'[c] = p /\ (\A r \in Proc : b \notin held[r] /\ ~ (pc[r] = "fill" /\ buf[r] = b))
      <4>1. sleep'[c] = p
        BY <1>2, <2>1, Zenon DEF TypeOK
      <4>2. \A r \in Proc : sleep[b] # r
        BY <1>2, BcacheAssumption, Zenon
      <4> QED BY <4>1, <4>2, Zenon DEF SleepOK
    <3> QED BY <1>1, <1>2, <1>3, <2>1, <3>1, Zenon
  <2>2. CASE c # b
    <3>1. sleep'[c] = sleep[c]
      BY <1>2, <2>2, Zenon DEF TypeOK
    <3> QED BY <1>1, <1>2, <1>3, <2>2, <3>1 DEF SleepOK
  <2> QED BY <2>1, <2>2, Zenon
<1>12. DataOK'
  BY <1>2, DataFrame, Zenon
<1> QED BY <1>4, <1>5, <1>6, <1>7, <1>9, <1>10, <1>11, <1>12, Zenon

\* bread returns the buffer with what the disk or the buffer has, which is the same.
LEMMA BreadFillIInv ==
  ASSUME IInv, NEW p \in Proc, BreadFill(p)
  PROVE  IInv'
<1> USE DEF IInv
<1>1. PICK b \in Buf : b = buf[p] /\ blockno[b] = want[p] /\ want[p] \in Block
  BY Zenon DEF BreadFill, PlaceOK, Reads
<1>2. /\ pc[p] = "fill" /\ held' = [held EXCEPT ![p] = @ \cup {b}]
      /\ UNCHANGED <<lock, chain, blockno, refcnt, sleep, disk, pinned, truth>>
  BY <1>1, Zenon DEF BreadFill
<1>3. \A q \in Proc : /\ pc'[q] = IF q = p THEN "user" ELSE pc[q]
                      /\ buf'[q] = IF q = p THEN NoBuf ELSE buf[q]
                      /\ want'[q] = IF q = p THEN NoBlock ELSE want[q]
                      /\ held'[q] = IF q = p THEN held[p] \cup {b} ELSE held[q]
  BY <1>2, Zenon DEF BreadFill, Goto, TypeOK
<1>4. /\ valid'[b] = TRUE
      /\ \A c \in Buf : c # b => valid'[c] = valid[c]
  BY <1>1, Zenon DEF BreadFill, TypeOK
<1>5. /\ \A c \in Buf : c # b => data'[c] = data[c]
      /\ valid[b] = TRUE => data'[b] = data[b]
      /\ valid[b] = FALSE => data'[b] = disk[want[p]]
  BY <1>1, Zenon DEF BreadFill, TypeOK
<1>6. TypeOK'
  <2>1. valid' \in [Buf -> BOOLEAN]
    BY Zenon DEF BreadFill, TypeOK
  <2>2. data' \in [Buf -> Value]
    BY <1>1, Zenon DEF BreadFill, TypeOK
  <2>3. held' \in [Proc -> SUBSET Buf]
    BY <1>2, Zenon DEF TypeOK
  <2>4. 0 \in Bucket
    BY BcacheAssumption DEF Bucket
  <2>5. /\ pc' \in [Proc -> {"user", "bget", "search", "insert", "sleeplock", "fill", "unref", "panic"}]
        /\ buf' \in [Proc -> Buf \cup {NoBuf}] /\ want' \in [Proc -> Block \cup {NoBlock}]
        /\ nextIdx' \in [Proc -> Bucket]
    BY <2>4, Zenon DEF BreadFill, Goto, TypeOK
  <2> QED BY <1>2, <2>1, <2>2, <2>3, <2>5, Zenon DEF TypeOK
<1>7. LocksOK'
  BY <1>2, <1>3, LocksFrame DEF Misses
<1>8. ChainsOK'
  BY <1>2, <1>3, ChainsFrame, Zenon
<1>9. PlaceOK'
  BY <1>2, <1>3 DEF PlaceOK, Reads, Misses
<1>10. \A c \in Buf : Users(c)' = Users(c)
  <2> TAKE c \in Buf
  <2>1. \A q \in Proc : c \in held'[q] \cup {buf'[q]} <=> c \in held[q] \cup {buf[q]}
    BY <1>1, <1>3, NoBufType, Zenon
  <2> QED BY <2>1, Zenon DEF Users
<1>11. BlocksOK'
  BY <1>2, <1>3, <1>10 DEF BlocksOK, OneBufPerBlock
<1>12. CountsOK'
  BY <1>2, <1>10, CountsFrame, Zenon
<1>13. SleepOK'
  BY <1>1, <1>2, <1>3 DEF SleepOK
<1>14. DataOK'
  <2>1. ASSUME NEW q \in Proc, NEW c \in held'[q] PROVE valid'[c] = TRUE
    <3>1. c = b \/ (c # b /\ c \in held[q] /\ c \in Buf)
      BY <1>3, Zenon DEF TypeOK
    <3> QED BY <1>4, <3>1, Zenon DEF DataOK
  <2>2. valid[b] = FALSE => truth[want[p]] = disk[want[p]]
    BY <1>1, BlockType DEF DataOK, BlocksOK, OneBufPerBlock
  <2>3. valid[b] = TRUE \/ valid[b] = FALSE
    BY Zenon DEF TypeOK
  <2>4. data'[b] = truth'[blockno'[b]]
    BY <1>1, <1>2, <1>5, <2>2, <2>3, BlockType, Zenon DEF DataOK
  <2>5. \A c \in Buf : valid'[c] = TRUE /\ blockno'[c] # NoBlock => data'[c] = truth'[blockno'[c]]
    BY <1>2, <1>4, <1>5, <2>4 DEF DataOK
  <2>6. ASSUME NEW m \in Block, truth'[m] # disk'[m]
        PROVE  \E c \in Buf : /\ blockno'[c] = m /\ valid'[c] = TRUE
                              /\ c \in pinned' \/ \E q \in Proc : c \in held'[q]
    <3>1. PICK c \in Buf : /\ blockno[c] = m /\ valid[c] = TRUE
                           /\ c \in pinned \/ \E q \in Proc : c \in held[q]
      BY <1>2, <2>6, Zenon DEF DataOK
    <3>2. valid'[c] = TRUE
      BY <1>4, <3>1, Zenon
    <3>3. c \in pinned' \/ \E q \in Proc : c \in held'[q]
      BY <1>2, <1>3, <3>1
    <3> QED BY <1>2, <3>1, <3>2, <3>3, Zenon
  <2> QED BY <2>1, <2>5, <2>6, Zenon DEF DataOK
<1> QED BY <1>6, <1>7, <1>8, <1>9, <1>11, <1>12, <1>13, <1>14, Zenon

-----------------------------------------------------------------------------
\* The buffer a process has is the only one of its block.
LEMMA HeldFacts ==
  ASSUME IInv, NEW p \in Proc, NEW b \in held[p]
  PROVE  /\ b \in Buf /\ p \in Users(b) /\ blockno[b] \in Block /\ valid[b] = TRUE
         /\ data[b] = truth[blockno[b]]
         /\ \A c \in Buf : c # b => blockno[c] # blockno[b]
<1> USE DEF IInv
<1>1. b \in Buf /\ p \in Users(b)
  BY Zenon DEF TypeOK, Users
<1>2. blockno[b] \in Block /\ blockno[b] # NoBlock
  BY <1>1, BlockType, Zenon DEF BlocksOK, TypeOK
<1> QED BY <1>1, <1>2, Zenon DEF DataOK, BlocksOK, OneBufPerBlock

\* The owner stores something else in the block.
LEMMA ModifyIInv ==
  ASSUME IInv, NEW p \in Proc, NEW b \in Buf, NEW v \in Value, Modify(p, b, v)
  PROVE  IInv'
<1> USE DEF IInv, procvars
<1>1. /\ b \in held[p] /\ data' = [data EXCEPT ![b] = v] /\ truth' = [truth EXCEPT ![blockno[b]] = v]
      /\ UNCHANGED <<lock, chain, blockno, refcnt, valid, sleep, disk, pinned, pc, want, nextIdx, buf, held>>
  BY Zenon DEF Modify
<1>2. TypeOK'
  BY <1>1, Zenon DEF TypeOK
<1>3. LocksOK'
  BY <1>1, LocksFrame, Zenon DEF Misses
<1>4. ChainsOK'
  BY <1>1, ChainsFrame, Zenon
<1>5. PlaceOK'
  BY <1>1, Zenon DEF PlaceOK, Reads, Misses
<1>6. \A c \in Buf : Users(c)' = Users(c)
  BY <1>1, Zenon DEF Users
<1>7. BlocksOK'
  BY <1>1, <1>6, Zenon DEF BlocksOK, OneBufPerBlock
<1>8. CountsOK'
  BY <1>1, <1>6, CountsFrame, Zenon
<1>9. SleepOK'
  BY <1>1 DEF SleepOK
<1>10. DataOK'
  <2>1. /\ blockno[b] \in Block /\ valid[b] = TRUE
        /\ \A c \in Buf : c # b => blockno[c] # blockno[b]
    BY <1>1, HeldFacts, Zenon
  <2>2. \A q \in Proc : \A c \in held'[q] : valid'[c] = TRUE
    BY <1>1, Zenon DEF DataOK
  <2>3. ASSUME NEW c \in Buf, valid'[c] = TRUE, blockno'[c] # NoBlock PROVE data'[c] = truth'[blockno'[c]]
    <3>1. CASE c = b
      BY <1>1, <2>1, <3>1, Zenon DEF TypeOK
    <3>2. CASE c # b
      <4>1. data'[c] = data[c] /\ blockno[c] \in Block /\ truth'[blockno[c]] = truth[blockno[c]]
        BY <1>1, <2>1, <2>3, <3>2, Zenon DEF TypeOK
      <4> QED BY <1>1, <2>3, <4>1, Zenon DEF DataOK
    <3> QED BY <3>1, <3>2, Zenon
  <2>4. ASSUME NEW m \in Block, truth'[m] # disk'[m]
        PROVE  \E c \in Buf : /\ blockno'[c] = m /\ valid'[c] = TRUE
                              /\ c \in pinned' \/ \E q \in Proc : c \in held'[q]
    <3>1. CASE m = blockno[b]
      BY <1>1, <2>1, <3>1, Zenon
    <3>2. CASE m # blockno[b]
      <4>1. truth[m] # disk[m]
        BY <1>1, <2>4, <3>2, Zenon DEF TypeOK
      <4> QED BY <1>1, <4>1, Zenon DEF DataOK
    <3> QED BY <3>1, <3>2, Zenon
  <2> QED BY <2>2, <2>3, <2>4, Zenon DEF DataOK
<1> QED BY <1>2, <1>3, <1>4, <1>5, <1>7, <1>8, <1>9, <1>10, Zenon

\* bwrite: the block on the disk is the one in memory.
LEMMA BwriteIInv ==
  ASSUME IInv, NEW p \in Proc, NEW b \in Buf, Bwrite(p, b)
  PROVE  IInv'
<1> USE DEF IInv, procvars, bufvars
<1>1. /\ b \in held[p] /\ disk' = [disk EXCEPT ![blockno[b]] = data[b]]
      /\ UNCHANGED <<lock, chain, blockno, refcnt, valid, data, sleep, pinned, pc, want, nextIdx, buf, held, truth>>
  BY Zenon DEF Bwrite
<1>2. TypeOK'
  BY <1>1, Zenon DEF TypeOK
<1>3. LocksOK'
  BY <1>1, LocksFrame, Zenon DEF Misses
<1>4. ChainsOK'
  BY <1>1, ChainsFrame, Zenon
<1>5. PlaceOK'
  BY <1>1, Zenon DEF PlaceOK, Reads, Misses
<1>6. \A c \in Buf : Users(c)' = Users(c)
  BY <1>1, Zenon DEF Users
<1>7. BlocksOK'
  BY <1>1, <1>6, Zenon DEF BlocksOK, OneBufPerBlock
<1>8. CountsOK'
  BY <1>1, <1>6, CountsFrame, Zenon
<1>9. SleepOK'
  BY <1>1 DEF SleepOK
<1>10. DataOK'
  <2>1. ASSUME NEW m \in Block, truth'[m] # disk'[m] PROVE truth[m] # disk[m]
    BY <1>1, <2>1, HeldFacts, Zenon DEF TypeOK
  <2> QED BY <1>1, <2>1, Zenon DEF DataOK
<1> QED BY <1>2, <1>3, <1>4, <1>5, <1>7, <1>8, <1>9, <1>10, Zenon

\* bpin and bunpin: the log's pin is counted, and a buffer loses it with the disk
\* up to date.
LEMMA BpinIInv ==
  ASSUME IInv, NEW p \in Proc, NEW b \in Buf, Bpin(p, b) \/ Bunpin(p, b)
  PROVE  IInv'
<1> USE DEF IInv, procvars
<1>1. /\ b \in held[p]
      /\ UNCHANGED <<lock, chain, blockno, valid, data, sleep, disk, pc, want, nextIdx, buf, held, truth>>
  BY Zenon DEF Bpin, Bunpin
<1>2. \/ b \notin pinned /\ pinned' = pinned \cup {b} /\ refcnt' = [refcnt EXCEPT ![b] = @ + 1]
      \/ b \in pinned /\ pinned' = pinned \ {b} /\ refcnt' = [refcnt EXCEPT ![b] = @ - 1]
  BY Zenon DEF Bpin, Bunpin, Pin
<1>3. \A c \in Buf : Users(c)' = Users(c)
  BY <1>1, Zenon DEF Users
<1>4. CountsOK' /\ refcnt' \in [Buf -> Nat]
  <2>1. \A c \in Buf : IsFiniteSet(Users(c)) /\ Cardinality(Users(c)) \in Nat
    BY FS_CardinalityType, Zenon DEF CountsOK
  <2>2. ASSUME NEW c \in Buf PROVE refcnt'[c] = Cardinality(Users(c)) + IF c \in pinned' THEN 1 ELSE 0
    <3>1. CASE c = b
      BY <1>2, <2>1, <3>1 DEF CountsOK, RefcntExact, TypeOK
    <3>2. CASE c # b
      BY <1>2, <3>2, Zenon DEF CountsOK, RefcntExact, TypeOK
    <3> QED BY <3>1, <3>2, Zenon
  <2>3. CountsOK'
    BY <1>3, <2>1, <2>2, Zenon DEF CountsOK, RefcntExact
  <2>4. \A c \in Buf : refcnt'[c] \in Nat
    BY <2>1, <2>2
  <2> QED BY <1>2, <2>3, <2>4, Zenon DEF TypeOK
<1>5. TypeOK'
  BY <1>1, <1>2, <1>4, Zenon DEF TypeOK
<1>6. LocksOK'
  BY <1>1, LocksFrame, Zenon DEF Misses
<1>7. ChainsOK'
  BY <1>1, ChainsFrame, Zenon
<1>8. PlaceOK'
  BY <1>1, Zenon DEF PlaceOK, Reads, Misses
<1>9. BlocksOK'
  <2>1. blockno[b] # NoBlock
    BY <1>1, HeldFacts, BlockType, Zenon
  <2> QED BY <1>1, <1>2, <1>3, <2>1, Zenon DEF BlocksOK, OneBufPerBlock
<1>10. SleepOK'
  BY <1>1 DEF SleepOK
<1>11. DataOK'
  <2>1. ASSUME NEW m \in Block, truth'[m] # disk'[m]
        PROVE  \E c \in Buf : /\ blockno'[c] = m /\ valid'[c] = TRUE
                              /\ c \in pinned' \/ \E q \in Proc : c \in held'[q]
    <3>1. PICK c \in Buf : /\ blockno[c] = m /\ valid[c] = TRUE
                           /\ c \in pinned \/ \E q \in Proc : c \in held[q]
      BY <1>1, <2>1, Zenon DEF DataOK
    <3>2. c \in pinned' \/ \E q \in Proc : c \in held'[q]
      BY <1>1, <1>2, <3>1, Zenon
    <3> QED BY <1>1, <3>1, <3>2, Zenon
  <2> QED BY <1>1, <2>1, Zenon DEF DataOK
<1> QED BY <1>4, <1>5, <1>6, <1>7, <1>8, <1>9, <1>10, <1>11, Zenon

\* brelse up to releasesleep: the buffer has no owner, its block is on the disk or
\* in a pinned buffer.
LEMMA BrelseIInv ==
  ASSUME IInv, NEW p \in Proc, NEW b \in Buf, Brelse(p, b)
  PROVE  IInv'
<1> USE DEF IInv, bufvars
<1>1. /\ pc[p] = "user" /\ b \in held[p] /\ buf[p] = NoBuf
      /\ data[b] = disk[blockno[b]] \/ b \in pinned
      /\ sleep' = [sleep EXCEPT ![b] = NoProc]
      /\ UNCHANGED <<lock, chain, blockno, refcnt, valid, data, disk, pinned, want, nextIdx, truth>>
  BY Zenon DEF Brelse, PlaceOK
<1>2. \A q \in Proc : /\ pc'[q] = IF q = p THEN "unref" ELSE pc[q]
                      /\ buf'[q] = IF q = p THEN b ELSE buf[q]
                      /\ held'[q] = IF q = p THEN held[p] \ {b} ELSE held[q]
  BY Zenon DEF Brelse, Goto, TypeOK
<1>3. TypeOK'
  <2>1. sleep' \in [Buf -> Proc \cup {NoProc}] /\ held' \in [Proc -> SUBSET Buf] /\ buf' \in [Proc -> Buf \cup {NoBuf}]
    BY Zenon DEF Brelse, TypeOK
  <2>2. pc' \in [Proc -> {"user", "bget", "search", "insert", "sleeplock", "fill", "unref", "panic"}]
    BY Zenon DEF Brelse, Goto, TypeOK
  <2> QED BY <1>1, <2>1, <2>2, Zenon DEF TypeOK
<1>4. LocksOK'
  BY <1>1, <1>2, LocksFrame DEF Misses
<1>5. ChainsOK'
  BY <1>1, <1>2, ChainsFrame, Zenon
<1>6. PlaceOK'
  BY <1>1, <1>2 DEF PlaceOK, Reads, Misses
<1>7. \A c \in Buf : Users(c)' = Users(c)
  <2> TAKE c \in Buf
  <2>1. \A q \in Proc : c \in held'[q] \cup {buf'[q]} <=> c \in held[q] \cup {buf[q]}
    BY <1>1, <1>2, NoBufType, Zenon
  <2> QED BY <2>1, Zenon DEF Users
<1>8. BlocksOK'
  BY <1>1, <1>2, <1>7, Zenon DEF BlocksOK, OneBufPerBlock
<1>9. CountsOK'
  BY <1>1, <1>7, CountsFrame, Zenon
<1>10. SleepOK'
  <2> SUFFICES ASSUME NEW c \in Buf, NEW q \in Proc
               PROVE  sleep'[c] = q <=> c \in held'[q] \/ (pc'[q] = "fill" /\ buf'[q] = c)
    BY Zenon DEF SleepOK
  <2>1. CASE c = b
    <3>1. sleep'[c] # q
      BY <1>1, <2>1, BcacheAssumption, Zenon DEF TypeOK
    <3>2. q # p => b \notin held[q] /\ ~ (pc[q] = "fill" /\ buf[q] = b)
      BY <1>1 DEF SleepOK
    <3> QED BY <1>2, <2>1, <3>1, <3>2, Zenon
  <2>2. CASE c # b
    <3>1. sleep'[c] = sleep[c]
      BY <1>1, <2>2, Zenon DEF TypeOK
    <3> QED BY <1>1, <1>2, <2>2, <3>1 DEF SleepOK
  <2> QED BY <2>1, <2>2, Zenon
<1>11. DataOK'
  <2>1. \A q \in Proc : \A c \in held'[q] : valid'[c] = TRUE
    BY <1>1, <1>2 DEF DataOK
  <2>2. ASSUME NEW m \in Block, truth'[m] # disk'[m]
        PROVE  \E c \in Buf : /\ blockno'[c] = m /\ valid'[c] = TRUE
                              /\ c \in pinned' \/ \E q \in Proc : c \in held'[q]
    <3>1. PICK c \in Buf : /\ blockno[c] = m /\ valid[c] = TRUE
                           /\ c \in pinned \/ \E q \in Proc : c \in held[q]
      BY <1>1, <2>2, Zenon DEF DataOK
    <3>2. CASE c = b
      <4>1. b \in pinned
        BY <1>1, <2>2, <3>1, <3>2, HeldFacts, Zenon
      <4> QED BY <1>1, <3>1, <3>2, <4>1, Zenon
    <3>3. CASE c # b
      <4>1. c \in pinned' \/ \E q \in Proc : c \in held'[q]
        BY <1>1, <1>2, <3>1, <3>3, Zenon
      <4> QED BY <1>1, <3>1, <4>1, Zenon
    <3> QED BY <3>2, <3>3, Zenon
  <2> QED BY <1>1, <2>1, <2>2, Zenon DEF DataOK
<1> QED BY <1>3, <1>4, <1>5, <1>6, <1>8, <1>9, <1>10, <1>11, Zenon

\* The rest of brelse: one user less, and an unused buffer stays on its chain.
LEMMA BrelseUnrefIInv ==
  ASSUME IInv, NEW p \in Proc, BrelseUnref(p)
  PROVE  IInv'
<1> USE DEF IInv
<1>1. PICK b \in Buf : b = buf[p] /\ b \notin held[p]
  BY Zenon DEF BrelseUnref, PlaceOK
<1>2. p \in Users(b) /\ blockno[b] \in Block /\ blockno[b] # NoBlock
  BY <1>1, Zenon DEF Users, BlocksOK, TypeOK
<1>3. PICK k \in Bucket : k = getIndex(blockno[b])
  BY <1>2, BlockType, Zenon
<1>4. /\ pc[p] = "unref" /\ lock[k] = NoProc /\ refcnt' = [refcnt EXCEPT ![b] = @ - 1]
      /\ chain' = IF refcnt[b] = 1 THEN [chain EXCEPT ![k] = ToFront(@, b)] ELSE chain
      /\ UNCHANGED <<lock, blockno, valid, data, sleep, disk, pinned, want, nextIdx, held, truth>>
  BY <1>1, <1>3, Zenon DEF BrelseUnref
<1>5. \A q \in Proc : /\ pc'[q] = IF q = p THEN "user" ELSE pc[q]
                      /\ buf'[q] = IF q = p THEN NoBuf ELSE buf[q]
  BY Zenon DEF BrelseUnref, Goto, TypeOK
<1>6. Has(chain[k], b)
  <2>1. ASSUME NEW q \in Proc, pc[q] = "insert", buf[q] = b PROVE FALSE
    <3>1. want[q] = blockno[b] /\ lock[getIndex(want[q])] = q
      BY <2>1, Zenon DEF PlaceOK, LocksOK, Misses
    <3> QED BY <1>3, <1>4, <3>1, BcacheAssumption, Zenon
  <2>2. PICK l \in Bucket : Has(chain[l], b)
    BY <2>1, Zenon DEF ChainsOK
  <2> QED BY <1>2, <1>3, <2>2, Zenon DEF ChainsOK
<1>7. /\ ToFront(chain[k], b) \in Seq(Buf) /\ Once(ToFront(chain[k], b))
      /\ \A x : Has(ToFront(chain[k], b), x) <=> Has(chain[k], x)
  <2>1. chain[k] \in Seq(Buf) /\ Once(chain[k])
    BY Zenon DEF TypeOK, ChainsOK
  <2> QED BY ONLY <1>6, <2>1, MovedToFront, Zenon
<1>8. \A l \in Bucket : Once(chain'[l]) /\ \A x : Has(chain'[l], x) <=> Has(chain[l], x)
  <2>1. \A l \in Bucket : chain'[l] = chain[l] \/ (l = k /\ chain'[l] = ToFront(chain[k], b))
    BY <1>4, Zenon DEF TypeOK
  <2> QED BY <1>7, <2>1, Zenon DEF ChainsOK
<1>9. Users(b)' = Users(b) \ {p} /\ \A c \in Buf : c # b => Users(c)' = Users(c)
  <2>1. Users(b)' = Users(b) \ {p}
    BY <1>1, <1>4, <1>5, NoBufType, Zenon DEF Users
  <2>2. ASSUME NEW c \in Buf, c # b PROVE Users(c)' = Users(c)
    <3>1. \A q \in Proc : c \in held'[q] \cup {buf'[q]} <=> c \in held[q] \cup {buf[q]}
      BY <1>1, <1>4, <1>5, <2>2, NoBufType, Zenon
    <3> QED BY <3>1, Zenon DEF Users
  <2> QED BY <2>1, <2>2, Zenon
<1>10. CountsOK' /\ refcnt' \in [Buf -> Nat]
  <2>1. IsFiniteSet(Users(b)) /\ Cardinality(Users(b)) \in Nat
    BY FS_CardinalityType, Zenon DEF CountsOK
  <2>2. IsFiniteSet(Users(b)') /\ Cardinality(Users(b)') = Cardinality(Users(b)) - 1
    BY <1>2, <1>9, <2>1, FS_RemoveElement
  <2>3. Cardinality(Users(b)') \in Nat
    BY <2>2, FS_CardinalityType, Zenon
  <2>4. refcnt'[b] = Cardinality(Users(b)') + IF b \in pinned' THEN 1 ELSE 0
    BY <1>4, <2>1, <2>2 DEF CountsOK, RefcntExact, TypeOK
  <2>5. ASSUME NEW c \in Buf, c # b
        PROVE  IsFiniteSet(Users(c)') /\ refcnt'[c] = Cardinality(Users(c)') + IF c \in pinned' THEN 1 ELSE 0
    BY <1>4, <1>9, <2>5, Zenon DEF CountsOK, RefcntExact, TypeOK
  <2>6. CountsOK'
    BY <2>2, <2>4, <2>5, Zenon DEF CountsOK, RefcntExact
  <2>7. refcnt'[b] \in Nat
    BY <2>3, <2>4
  <2> QED BY <1>4, <2>6, <2>7, Zenon DEF TypeOK
<1>11. TypeOK'
  <2>1. chain' \in [Bucket -> Seq(Buf)]
    BY <1>4, <1>7, Zenon DEF TypeOK
  <2>2. buf' \in [Proc -> Buf \cup {NoBuf}]
    BY Zenon DEF BrelseUnref, TypeOK
  <2>3. pc' \in [Proc -> {"user", "bget", "search", "insert", "sleeplock", "fill", "unref", "panic"}]
    BY Zenon DEF BrelseUnref, Goto, TypeOK
  <2> QED BY <1>4, <1>10, <2>1, <2>2, <2>3, Zenon DEF TypeOK
<1>12. LocksOK'
  <2>1. \A q \in Proc : Misses(q)' = Misses(q)
    BY ONLY <1>4, <1>5 DEF Misses
  <2> QED BY <1>4, <2>1, LocksFrame, Zenon
<1>13. ChainsOK'
  <2>1. \A q \in Proc : (pc'[q] = "insert" <=> pc[q] = "insert") /\ (pc[q] = "insert" => buf'[q] = buf[q])
    BY <1>4, <1>5, Zenon
  <2> QED BY <1>4, <1>8, <2>1, ChainsKept, Zenon
<1>14. PlaceOK'
  BY <1>4, <1>5, Zenon DEF PlaceOK, Reads, Misses
<1>15. BlocksOK'
  BY <1>2, <1>4, <1>5, <1>9, Zenon DEF BlocksOK, OneBufPerBlock
<1>16. SleepOK'
  <2>1. \A q \in Proc : \A c \in Buf : (pc'[q] = "fill" /\ buf'[q] = c) <=> (pc[q] = "fill" /\ buf[q] = c)
    BY <1>4, <1>5, Zenon
  <2>2. sleep' = sleep /\ held' = held
    BY <1>4, Zenon
  <2>3. ASSUME NEW c \in Buf, NEW q \in Proc
        PROVE  sleep'[c] = q <=> c \in held'[q] \/ (pc'[q] = "fill" /\ buf'[q] = c)
    <3>1. sleep[c] = q <=> c \in held[q] \/ (pc[q] = "fill" /\ buf[q] = c)
      BY Zenon DEF SleepOK
    <3> QED BY ONLY <2>1, <2>2, <3>1
  <2> QED BY ONLY <2>3, Zenon DEF SleepOK
<1>17. DataOK'
  BY <1>4, DataFrame, Zenon
<1> QED BY <1>10, <1>11, <1>12, <1>13, <1>14, <1>15, <1>16, <1>17, Zenon

-----------------------------------------------------------------------------
\* Every step of bio.c and of its users keeps the invariant.
LEMMA StepIInv == IInv /\ [Next]_vars => IInv'
<1> SUFFICES ASSUME IInv, [Next]_vars PROVE IInv'
  OBVIOUS
<1>1. CASE UNCHANGED vars
  <2> USE DEF IInv
  <2>1. UNCHANGED <<lock, chain, blockno, refcnt, valid, data, sleep, disk, pinned, pc, want, nextIdx, buf, held, truth>>
    BY <1>1, Zenon DEF vars, bufvars, procvars
  <2>2. \A c \in Buf : Users(c)' = Users(c)
    BY <2>1, Zenon DEF Users
  <2>3. TypeOK' /\ SleepOK'
    BY <2>1, Zenon DEF TypeOK, SleepOK
  <2>4. LocksOK'
    BY <2>1, LocksFrame, Zenon DEF Misses
  <2>5. ChainsOK' /\ CountsOK' /\ DataOK'
    BY <2>1, <2>2, ChainsFrame, CountsFrame, DataFrame, Zenon
  <2>6. PlaceOK' /\ BlocksOK'
    BY <2>1, <2>2, Zenon DEF PlaceOK, Reads, Misses, BlocksOK, OneBufPerBlock
  <2> QED BY <2>3, <2>4, <2>5, <2>6, Zenon
<1>2. ASSUME NEW p \in Proc, Bread(p) PROVE IInv'
  BY <1>2, BgetHitIInv, BgetMissIInv, RecycleIInv, SearchIInv, InsertIInv, AcquireSleepIInv, BreadFillIInv, Zenon
  DEF Bread
<1>3. ASSUME NEW p \in Proc, Use(p) PROVE IInv'
  BY <1>3, ModifyIInv, BwriteIInv, BpinIInv, Zenon DEF Use
<1> QED BY <1>1, <1>2, <1>3, BreadCallIInv, BrelseIInv, BrelseUnrefIInv, Zenon DEF Next

\* The inductive invariant: bucket locks, chains, reference counts, sleep locks and
\* contents agree at every step of bread, brelse, bpin and bunpin (bio.c:66-185).
THEOREM BcacheInvariant == Spec => []IInv
BY InitIInv, StepIInv, PTL DEF Spec

\* Every block has its one buffer where bget looks for it, refcnt counts the
\* buffer's users, and one of them at a time has it (bio.c:5-13, 66-120, 145-185).
THEOREM BuffersAreSound == Spec => []BuffersSound
<1>1. IInv => BuffersSound
  <2> SUFFICES ASSUME IInv PROVE BuffersSound
    OBVIOUS
  <2> USE DEF IInv
  <2>1. \A k \in Bucket : IsInjective(chain[k]) /\ \A x : x \in Range(chain[k]) <=> Has(chain[k], x)
    <3> TAKE k \in Bucket
    <3>1. Once(chain[k]) /\ chain[k] \in Seq(Buf)
      BY Zenon DEF ChainsOK, TypeOK
    <3>2. DOMAIN chain[k] = 1 .. Len(chain[k])
      BY ONLY <3>1
    <3>3. IsInjective(chain[k])
      BY ONLY <3>1, <3>2, Zenon DEF Once, IsInjective
    <3>4. \A x : x \in Range(chain[k]) <=> Has(chain[k], x)
      BY ONLY <3>2, Zenon DEF Range, Has
    <3> QED BY <3>3, <3>4, Zenon
  <2>2. ASSUME NEW b \in Buf
        PROVE  LET On == {k \in Bucket : b \in Range(chain[k])}
                   Moving == {p \in Proc : pc[p] = "insert" /\ buf[p] = b}
               IN /\ \/ (\E k \in Bucket : On = {k}) /\ Moving = {}
                     \/ On = {} /\ (\E p \in Proc : Moving = {p})
                  /\ blockno[b] # NoBlock => \A k \in On : k = getIndex(blockno[b])
    <3> DEFINE On == {k \in Bucket : b \in Range(chain[k])}
               Moving == {p \in Proc : pc[p] = "insert" /\ buf[p] = b}
    <3>1. \A k \in Bucket : k \in On <=> Has(chain[k], b)
      BY <2>1, Zenon
    <3>2. blockno[b] # NoBlock => \A k \in On : k = getIndex(blockno[b])
      BY <3>1, Zenon DEF ChainsOK
    <3>3. CASE \E k \in Bucket : Has(chain[k], b)
      <4>1. PICK k \in Bucket : Has(chain[k], b)
        BY <3>3, Zenon
      <4>2. \A l \in Bucket : l \in On <=> l = k
        BY <3>1, <4>1, Zenon DEF ChainsOK
      <4>3. On = {k}
        BY <4>2, Zenon
      <4>4. Moving = {}
        BY <4>1 DEF ChainsOK
      <4> QED BY <3>2, <4>3, <4>4, Zenon
    <3>4. CASE \A k \in Bucket : ~ Has(chain[k], b)
      <4>1. On = {}
        BY <3>1, <3>4, Zenon
      <4>2. PICK p \in Proc : pc[p] = "insert" /\ buf[p] = b
        BY <3>4, Zenon DEF ChainsOK
      <4>3. Moving = {p}
        BY <4>2, Zenon DEF ChainsOK
      <4> QED BY <3>2, <4>1, <4>3, Zenon
    <3> QED BY <3>3, <3>4, Zenon
  <2>3. OnItsChain
    BY <2>1, <2>2, Zenon DEF OnItsChain
  <2>4. ExclusiveUse
    BY DEF ExclusiveUse, SleepOK, TypeOK
  <2> QED BY <2>3, <2>4, Zenon DEF BuffersSound, BlocksOK, CountsOK
<1> QED BY <1>1, BcacheInvariant, PTL

\* A process that has a buffer sees what was last stored in its block, by whichever
\* process, through recycling, reloading and pinning (bio.c:122-158).
THEOREM ReadsAreLatest == Spec => []ReadsLatest
<1>1. IInv => ReadsLatest
  <2> SUFFICES ASSUME IInv, NEW p \in Proc, NEW b \in held[p]
               PROVE  valid[b] /\ data[b] = truth[blockno[b]]
    BY Zenon DEF ReadsLatest
  <2> QED BY HeldFacts, Zenon
<1> QED BY <1>1, BcacheInvariant, PTL

\* A buffer in use or pinned by the log is never recycled for another block
\* (bio.c:87-110).
THEOREM BlocksAreKept == Spec => KeepsBlock
<1> DEFINE Keeps == \A b \in Buf : Users(b) # {} \/ b \in pinned => blockno'[b] = blockno[b]
<1>1. IInv /\ [Next]_vars => [Keeps]_vars
  <2> SUFFICES ASSUME IInv, Next, NEW b \in Buf, Users(b) # {} \/ b \in pinned
               PROVE  blockno'[b] = blockno[b]
    OBVIOUS
  <2> USE DEF IInv
  <2>1. refcnt[b] # 0
    <3>1. IsFiniteSet(Users(b)) /\ Cardinality(Users(b)) \in Nat
      BY FS_CardinalityType, Zenon DEF CountsOK
    <3>2. Cardinality(Users(b)) = 0 => Users(b) = {}
      BY <3>1, FS_EmptySet, Zenon
    <3> QED BY <3>1, <3>2 DEF CountsOK, RefcntExact
  <2>2. ASSUME NEW p \in Proc, Recycle(p) PROVE blockno'[b] = blockno[b]
    <3>1. PICK j \in DOMAIN chain[nextIdx[p]] :
            /\ refcnt[chain[nextIdx[p]][j]] = 0
            /\ blockno' = [blockno EXCEPT ![chain[nextIdx[p]][j]] = want[p]]
      BY <2>2, Zenon DEF Recycle, Unused
    <3> QED BY <2>1, <3>1, Zenon DEF TypeOK
  <2>3. ASSUME NEW p \in Proc, Bread(p) PROVE blockno'[b] = blockno[b]
    BY <2>2, <2>3, Zenon DEF Bread, BgetHit, BgetMiss, SearchNext, SearchPanic, Insert, AcquireSleep, BreadFill, bufvars
  <2>4. ASSUME NEW p \in Proc, Use(p) PROVE blockno'[b] = blockno[b]
    BY <2>4, Zenon DEF Use, Modify, Bwrite, Bpin, Bunpin, bufvars
  <2> QED BY <2>3, <2>4, Zenon DEF Next, BreadCall, Brelse, BrelseUnref, bufvars
<1> QED BY <1>1, BcacheInvariant, PTL DEF Spec, KeepsBlock
=============================================================================
