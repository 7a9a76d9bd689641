----------------------------- MODULE LogProofs -----------------------------
(***************************************************************************)
(* The log is a correct redo log for any number of processes and blocks,   *)
(* any MAXOPBLOCKS and LOGSIZE, and any log.size that has room for the     *)
(* header: transactions are committed whole and alone, the reservation of  *)
(* begin_op holds, and log.c implements the atomic store.                  *)
(***************************************************************************)
EXTENDS Log, FiniteSetTheorems, TLAPS

InLog(b) == \E k \in 1 .. Len(lh) : lh[k] = b

\* The header in memory and the header on the disk name each block once and fit.
HeadersOK ==
  /\ \A j, k \in 1 .. Len(lh) : lh[j] = lh[k] => j = k
  /\ \A j, k \in 1 .. Len(head) : head[j] = head[k] => j = k
  /\ Len(lh) =< NLog - 1 /\ Len(head) =< NLog - 1 /\ Len(head) =< LOGSIZE

\* Recovery has the machine for itself, and has installed the blocks before tail.
RecoveryOK ==
  boot # "up" =>
    /\ \A p \in Proc : pc[p] = "out"
    /\ committing = FALSE
    /\ cache = home
    /\ \A b \in Block : pin[b] = 0
    /\ boot = "read_head" => lh = <<>> /\ tail = 0
    /\ boot = "install" =>
         /\ lh = head /\ tail =< Len(lh)
         /\ \A k \in 1 .. tail : home[lh[k]] = logblk[k]

\* The process that commits is the only one that has begun; without one there is
\* nothing on the disk, and without an operation nothing in memory.
CommitterOK ==
  /\ committing => /\ Active = {}
                   /\ \E p \in Proc : {q \in Proc : pc[q] \in CommitPC} = {p}
  /\ ~ committing => \A p \in Proc : pc[p] \notin CommitPC
  /\ boot = "up" /\ ~ committing => head = <<>> /\ tail = 0
  /\ boot = "up" /\ ~ committing /\ Active = {} => lh = <<>>

\* What the disk has at each place of commit.
PhaseOK ==
  \A p \in Proc :
    /\ pc[p] = "write_log" =>
         /\ head = <<>> /\ tail =< Len(lh)
         /\ \A k \in 1 .. tail : logblk[k] = cache[lh[k]]
    /\ pc[p] = "install" =>
         /\ head = lh /\ tail =< Len(lh)
         /\ \A k \in 1 .. Len(lh) : logblk[k] = cache[lh[k]]
         /\ \A k \in 1 .. tail : home[lh[k]] = logblk[k]
    /\ pc[p] = "finish" => lh = <<>> /\ head = <<>> /\ tail = 0

\* Only a block of the transaction differs from its home.
CacheOK == Running => \A b \in Block : ~ InLog(b) => cache[b] = home[b]

\* A pin for each block of the transaction that is not installed yet.
PinsOK ==
  boot = "up" =>
    \A b \in Block :
      pin[b] = IF \E k \in 1 .. Len(lh) : /\ lh[k] = b
                                          /\ (\E p \in Proc : pc[p] = "install") => k > tail
                 THEN 1 ELSE 0

\* outstanding counts the operations, whose writes are counted and in the log.
CountsOK ==
  /\ IsFiniteSet(Active) /\ outstanding = Cardinality(Active)
  /\ \A p \in Proc : IsFiniteSet(wrote[p]) /\ Cardinality(wrote[p]) =< MAXOPBLOCKS
  /\ \A p \in Proc : pc[p] = "op" => \A b \in wrote[p] : InLog(b)
  /\ IsFiniteSet(Written)
  /\ RoomReserved

IInv == TypeOK /\ HeadersOK /\ RecoveryOK /\ CommitterOK /\ PhaseOK /\ CacheOK /\ PinsOK /\ CountsOK

-----------------------------------------------------------------------------
\* Nothing is under way before initlog, and mkfs wrote an empty log.
LEMMA InitIInv == Init => IInv
<1> SUFFICES ASSUME Init PROVE IInv
  OBVIOUS
<1> USE LogAssumption
<1>1. TypeOK
  <2>1. home \in [Block -> Value] /\ logblk \in [1 .. LOGSIZE -> Value] /\ pin \in [Block -> Nat]
    BY Zenon DEF Init
  <2>2. lh \in Seq(Block) /\ head \in Seq(Block) /\ Len(lh) = 0
    BY DEF Init
  <2>3. tail \in 0 .. LOGSIZE /\ outstanding \in Nat /\ boot \in {"read_head", "install", "up"}
    BY DEF Init
  <2>4. pc \in [Proc -> {"out", "begin", "asleep", "op", "panic"} \cup CommitPC]
    BY Zenon DEF Init
  <2>5. wrote \in [Proc -> SUBSET Block]
    BY Zenon DEF Init
  <2>6. cache \in [Block -> Value] /\ Len(lh) =< LOGSIZE
    BY <2>1, <2>2 DEF Init
  <2>7. committing \in BOOLEAN
    BY Zenon DEF Init
  <2> QED BY <2>1, <2>2, <2>3, <2>4, <2>5, <2>6, <2>7, Zenon DEF TypeOK
<1>2. Active = {} /\ Written = {}
  BY Zenon DEF Init, Active, Written
<1>3. HeadersOK /\ RecoveryOK /\ CommitterOK /\ PhaseOK /\ CacheOK /\ PinsOK
  BY <1>2 DEF Init, HeadersOK, RecoveryOK, CommitterOK, PhaseOK, CacheOK, PinsOK, Running, CommitPC
<1>4. CountsOK
  <2>1. IsFiniteSet({}) /\ Cardinality({}) = 0
    BY FS_EmptySet, Zenon
  <2> QED BY <1>2, <2>1 DEF Init, CountsOK, RoomReserved
<1> QED BY <1>1, <1>3, <1>4, Zenon DEF IInv

\* A call of begin_op, and its sleep, change nothing but the process's place.
LEMMA WaitingIInv ==
  ASSUME IInv, NEW p \in Proc, boot = "up", pc[p] \in {"out", "begin"},
         NEW l \in {"begin", "asleep"}, Goto(p, l),
         UNCHANGED <<diskvars, cache, pin, logvars, boot, tail, wrote>>
  PROVE  IInv'
<1> USE DEF IInv, diskvars, logvars
<1>1. TypeOK'
  BY Zenon DEF TypeOK, Goto, CommitPC
<1>2. \A q \in Proc : pc'[q] = IF q = p THEN l ELSE pc[q]
  BY Zenon DEF TypeOK, Goto
<1>3. Active' = Active /\ Written' = Written
  <2>1. Active' = Active
    BY <1>2, Zenon DEF Active
  <2> QED BY <2>1, Zenon DEF Written
<1>4. \A q \in Proc : \A m \in CommitPC \cup {"op", "panic"} : (pc'[q] = m) = (pc[q] = m)
  BY <1>2, Zenon DEF CommitPC
<1>5. {q \in Proc : pc'[q] \in CommitPC} = {q \in Proc : pc[q] \in CommitPC}
  BY <1>4, Zenon
<1>6. HeadersOK' /\ RecoveryOK'
  BY DEF HeadersOK, RecoveryOK
<1>7. CommitterOK'
  BY <1>3, <1>4, <1>5, Zenon DEF CommitterOK
<1>8. PhaseOK'
  BY <1>4 DEF PhaseOK, CommitPC
<1>9. CacheOK' /\ PinsOK'
  BY <1>4 DEF CacheOK, PinsOK, Running, InLog, CommitPC
<1>10. CountsOK'
  <2>1. lh' = lh /\ outstanding' = outstanding /\ wrote' = wrote /\ CountsOK
    BY Zenon
  <2>2. RoomReserved'
    BY ONLY <1>3, <2>1 DEF CountsOK, RoomReserved
  <2>3. \A q \in Proc : pc'[q] = "op" => \A b \in wrote'[q] : InLog(b)'
    BY ONLY <1>4, <2>1, Zenon DEF CountsOK, InLog
  <2> QED BY ONLY <1>3, <2>1, <2>2, <2>3, Zenon DEF CountsOK
<1> QED BY <1>1, <1>6, <1>7, <1>8, <1>9, <1>10, Zenon

\* begin_op lets an operation in, for which there is room.
LEMMA BeginOpIInv ==
  ASSUME IInv, NEW p \in Proc, BeginOp(p)
  PROVE  IInv'
<1> USE LogAssumption DEF IInv
<1>1. /\ boot = "up" /\ pc[p] = "begin" /\ committing = FALSE
      /\ outstanding' = outstanding + 1
      /\ UNCHANGED <<home, logblk, head, cache, pin, lh, committing, boot, tail>>
      /\ Running
  BY Zenon DEF BeginOp, At, Running, MustWait, diskvars, TypeOK
<1>2. \A q \in Proc : pc'[q] = IF q = p THEN "op" ELSE pc[q]
  BY Zenon DEF TypeOK, BeginOp, Goto
<1>3. \A q \in Proc : wrote'[q] = IF q = p THEN {} ELSE wrote[q]
  BY Zenon DEF TypeOK, BeginOp
<1>4. TypeOK'
  BY <1>1 DEF TypeOK, BeginOp, Goto, CommitPC
<1>5. Active' = Active \cup {p} /\ p \notin Active
  BY <1>1, <1>2, Zenon DEF Active
<1>6. Written' = Written
  <2>1. \A q \in Active' : \A b \in Block : b \in wrote'[q] => q \in Active /\ b \in wrote[q]
    BY <1>3, <1>5, Zenon DEF Active
  <2>2. \A q \in Active : q \in Active' /\ wrote'[q] = wrote[q]
    BY <1>3, <1>5, Zenon DEF Active
  <2>3. ASSUME NEW x \in Written' PROVE x \in Written
    <3>1. x \in Active' \X Block /\ x[2] \in wrote'[x[1]]
      BY <2>3, Zenon DEF Written
    <3>2. x[1] \in Active' /\ x[2] \in Block /\ x = <<x[1], x[2]>>
      BY <3>1
    <3>3. x[1] \in Active /\ x[2] \in wrote[x[1]]
      BY <2>1, <3>1, <3>2, Zenon
    <3>4. x \in Active \X Block
      BY <3>2, <3>3, Zenon
    <3> QED BY <3>3, <3>4, Zenon DEF Written
  <2>4. ASSUME NEW x \in Written PROVE x \in Written'
    <3>1. x \in Active \X Block /\ x[2] \in wrote[x[1]]
      BY <2>4, Zenon DEF Written
    <3>2. x[1] \in Active /\ x[2] \in Block /\ x = <<x[1], x[2]>>
      BY <3>1
    <3>3. x[1] \in Active' /\ x[2] \in wrote'[x[1]]
      BY <2>2, <3>1, <3>2, Zenon
    <3>4. x \in Active' \X Block
      BY <3>2, <3>3, Zenon
    <3> QED BY <3>3, <3>4, Zenon DEF Written
  <2> QED BY <2>3, <2>4, Zenon
<1>7. \A q \in Proc : \A m \in CommitPC \cup {"panic"} : (pc'[q] = m) = (pc[q] = m)
  BY <1>1, <1>2, Zenon DEF CommitPC
<1>8. HeadersOK' /\ RecoveryOK'
  BY <1>1 DEF HeadersOK, RecoveryOK
<1>9. CommitterOK'
  BY <1>1, <1>5, <1>7, Zenon DEF CommitterOK
<1>10. PhaseOK'
  BY <1>1, <1>7 DEF PhaseOK, CommitPC
<1>11. CacheOK' /\ PinsOK'
  BY <1>1, <1>7 DEF CacheOK, PinsOK, Running, InLog, CommitPC
<1>12. CountsOK'
  <2>1. IsFiniteSet(Active') /\ Cardinality(Active') = outstanding'
    BY <1>1, <1>5, FS_AddElement, Zenon DEF CountsOK
  <2>2. \A q \in Proc : IsFiniteSet(wrote'[q]) /\ Cardinality(wrote'[q]) =< MAXOPBLOCKS
    BY <1>3, FS_EmptySet DEF CountsOK
  <2>3. \A q \in Proc : pc'[q] = "op" => \A b \in wrote'[q] : InLog(b)'
    BY <1>1, <1>2, <1>3, Zenon DEF CountsOK, InLog
  <2>4. RoomReserved'
    <3>1. Len(lh) + (outstanding + 1) * MAXOPBLOCKS =< LOGSIZE
      BY DEF BeginOp, MustWait, TypeOK
    <3>2. Cardinality(Written) \in Nat
      BY FS_CardinalityType, Zenon DEF CountsOK
    <3>3. (outstanding + 1) * MAXOPBLOCKS = MAXOPBLOCKS * Cardinality(Active')
      BY <1>1, <2>1 DEF TypeOK
    <3>4. MAXOPBLOCKS * Cardinality(Active') \in Nat /\ Len(lh) \in Nat
      BY <1>1, <2>1 DEF TypeOK
    <3> QED BY <1>1, <1>6, <3>1, <3>2, <3>3, <3>4 DEF RoomReserved
  <2> QED BY <1>6, <2>1, <2>2, <2>3, <2>4, Zenon DEF CountsOK
<1> QED BY <1>4, <1>8, <1>9, <1>10, <1>11, <1>12, Zenon

\* A log_write adds one write to those of the operations under way.
LEMMA WrittenGrows ==
  ASSUME NEW p \in Proc, p \in Active, NEW b \in Block, wrote \in [Proc -> SUBSET Block],
         Active' = Active, wrote' = [wrote EXCEPT ![p] = @ \cup {b}]
  PROVE  Written' = Written \cup {<<p, b>>} /\ (<<p, b>> \in Written => b \in wrote[p])
<1>1. \A q \in Active : wrote'[q] = IF q = p THEN wrote[p] \cup {b} ELSE wrote[q]
  BY Zenon DEF Active
<1>2. ASSUME NEW x \in Written' PROVE x \in Written \cup {<<p, b>>}
  <2>1. x[1] \in Active /\ x[2] \in Block /\ x = <<x[1], x[2]>> /\ x[2] \in wrote'[x[1]]
    BY <1>2 DEF Written
  <2>2. CASE x[2] \in wrote[x[1]]
    BY <2>1, <2>2, Zenon DEF Written
  <2>3. CASE x[2] \notin wrote[x[1]]
    <3>1. x[1] = p /\ x[2] = b
      BY <1>1, <2>1, <2>3, Zenon
    <3> QED BY <2>1, <3>1, Zenon
  <2> QED BY <2>2, <2>3, Zenon
<1>3. ASSUME NEW x \in Written PROVE x \in Written'
  <2>1. x[1] \in Active /\ x[2] \in Block /\ x = <<x[1], x[2]>> /\ x[2] \in wrote[x[1]]
    BY <1>3 DEF Written
  <2>2. x[2] \in wrote'[x[1]]
    BY <1>1, <2>1
  <2> QED BY <2>1, <2>2, Zenon DEF Written
<1>4. <<p, b>> \in Written'
  BY <1>1, Zenon DEF Written
<1>5. <<p, b>> \in Written => b \in wrote[p]
  BY Zenon DEF Written
<1> QED BY <1>2, <1>3, <1>4, <1>5, Zenon

\* end_op takes the writes of its operation away.
LEMMA WrittenShrinks ==
  ASSUME NEW p \in Proc, p \in Active, wrote \in [Proc -> SUBSET Block],
         Active' = Active \ {p}, wrote' = wrote
  PROVE  Written' = Written \ ({p} \X wrote[p]) /\ {p} \X wrote[p] \subseteq Written
<1>1. ASSUME NEW x \in Written' PROVE x \in Written \ ({p} \X wrote[p])
  <2>1. x[1] \in Active /\ x[1] # p /\ x[2] \in Block /\ x = <<x[1], x[2]>> /\ x[2] \in wrote[x[1]]
    BY <1>1 DEF Written
  <2> QED BY <2>1, Zenon DEF Written
<1>2. ASSUME NEW x \in Written, x \notin {p} \X wrote[p] PROVE x \in Written'
  <2>1. x[1] \in Active /\ x[2] \in Block /\ x = <<x[1], x[2]>> /\ x[2] \in wrote[x[1]]
    BY <1>2 DEF Written
  <2>2. x[1] # p
    BY <1>2, <2>1, Zenon
  <2> QED BY <2>1, <2>2, Zenon DEF Written
<1>3. ASSUME NEW x \in {p} \X wrote[p] PROVE x \in Written
  <2>1. x[1] = p /\ x[2] \in wrote[p] /\ x = <<x[1], x[2]>> /\ x[2] \in Block
    BY <1>3
  <2> QED BY <2>1, Zenon DEF Written
<1> QED BY <1>1, <1>2, <1>3, Zenon

\* log_write: the block is in the log, with its pin, and in the operation's count.
LEMMA LogWriteIInv ==
  ASSUME IInv, NEW p \in Proc, NEW b \in Block, NEW v \in Value, LogWrite(p, b, v)
  PROVE  IInv'
<1> USE LogAssumption DEF IInv
<1>1. /\ boot = "up" /\ pc[p] = "op" /\ Running
      /\ UNCHANGED <<home, logblk, head, outstanding, committing, boot, tail>>
  BY Zenon DEF LogWrite, At, Running, diskvars
<1>2. p \in Active
  BY <1>1, Zenon DEF Active
<1>3. committing = FALSE /\ head = <<>> /\ tail = 0 /\ \A q \in Proc : pc[q] \notin CommitPC
  <2>1. ~ committing
    BY <1>2, Zenon DEF CommitterOK
  <2> QED BY <1>1, <2>1, Zenon DEF CommitterOK, TypeOK
<1>4. \A q \in Proc : wrote'[q] = IF q = p THEN wrote[p] \cup {b} ELSE wrote[q]
  BY Zenon DEF LogWrite, TypeOK
<1>5. \A c \in Block : cache'[c] = IF c = b THEN v ELSE cache[c]
  BY Zenon DEF LogWrite, TypeOK
<1>6. IsFiniteSet(wrote'[p]) /\ Cardinality(wrote'[p]) =< MAXOPBLOCKS
  <2>1. IsFiniteSet(wrote[p])
    BY Zenon DEF CountsOK
  <2>2. IsFiniteSet(wrote[p] \cup {b})
    BY <2>1, FS_AddElement, Zenon
  <2>3. wrote'[p] = wrote[p] \cup {b}
    BY <1>4, Zenon
  <2> QED BY <2>2, <2>3, Zenon DEF LogWrite
<1>7. CASE LogFull \/ outstanding < 1
  <2>1. pc' = [pc EXCEPT ![p] = "panic"] /\ UNCHANGED <<lh, pin>>
    BY <1>7, Zenon DEF LogWrite, Goto
  <2>2. \A q \in Proc : pc'[q] = IF q = p THEN "panic" ELSE pc[q]
    BY <2>1, Zenon DEF TypeOK
  <2>3. TypeOK'
    BY <1>1, <2>1, Zenon DEF LogWrite, TypeOK, CommitPC
  <2>4. Active' = Active
    BY <1>1, <2>2, Zenon DEF Active
  <2>5. Written' = Written \cup {<<p, b>>}
    BY <1>2, <2>4, WrittenGrows, Zenon DEF LogWrite, TypeOK
  <2>6. HeadersOK' /\ RecoveryOK'
    BY <1>1, <2>1 DEF HeadersOK, RecoveryOK
  <2>7. \A q \in Proc : pc'[q] \notin CommitPC
    BY <1>3, <2>2, Zenon DEF CommitPC
  <2>8. CommitterOK'
    BY <1>1, <1>2, <1>3, <2>4, <2>7, Zenon DEF CommitterOK
  <2>9. PhaseOK'
    BY <2>7, Zenon DEF PhaseOK, CommitPC
  <2>10. CacheOK'
    BY <2>2, Zenon DEF CacheOK, Running
  <2>11. PinsOK'
    BY <1>1, <1>3, <2>1, <2>7, Zenon DEF PinsOK, CommitPC
  <2>12. CountsOK'
    <3>1. \A q \in Proc : IsFiniteSet(wrote'[q]) /\ Cardinality(wrote'[q]) =< MAXOPBLOCKS
      BY <1>4, <1>6, Zenon DEF CountsOK
    <3>2. \A q \in Proc : pc'[q] = "op" => \A c \in wrote'[q] : InLog(c)'
      BY <1>4, <2>1, <2>2 DEF CountsOK, InLog
    <3>3. IsFiniteSet(Written') /\ Cardinality(Written') >= Cardinality(Written)
      <4>1. IsFiniteSet(Written) /\ Cardinality(Written) \in Nat
        BY FS_CardinalityType, Zenon DEF CountsOK
      <4> DEFINE x == <<p, b>>
      <4> HIDE DEF x
      <4>2. /\ IsFiniteSet(Written \cup {x})
            /\ Cardinality(Written \cup {x}) = IF x \in Written THEN Cardinality(Written) ELSE Cardinality(Written) + 1
        BY <4>1, FS_AddElement, Zenon
      <4> QED BY <2>5, <4>1, <4>2 DEF x
    <3>4. RoomReserved'
      <4>1. Cardinality(Written) \in Nat /\ Cardinality(Written') \in Nat
        BY <3>3, FS_CardinalityType, Zenon DEF CountsOK
      <4>2. Cardinality(Active) \in Nat /\ MAXOPBLOCKS * Cardinality(Active) \in Nat /\ Len(lh) \in Nat
        BY DEF CountsOK, TypeOK
      <4>3. Len(lh) + MAXOPBLOCKS * Cardinality(Active) - Cardinality(Written) =< LOGSIZE
        BY Zenon DEF CountsOK, RoomReserved
      <4> DEFINE m == MAXOPBLOCKS * Cardinality(Active)
      <4>4. Len(lh) + m - Cardinality(Written') =< LOGSIZE
        <5> HIDE DEF m
        <5> QED BY <3>3, <4>1, <4>2, <4>3 DEF m
      <4> QED BY <2>1, <2>4, <4>4, Zenon DEF RoomReserved
    <3> QED BY <1>1, <2>4, <3>1, <3>2, <3>3, <3>4, Zenon DEF CountsOK
  <2> QED BY <2>3, <2>6, <2>8, <2>9, <2>10, <2>11, <2>12, Zenon
<1>8. CASE ~ (LogFull \/ outstanding < 1)
  <2>1. pc' = pc /\ AppendBlock(b) /\ Len(lh) < LOGSIZE /\ Len(lh) < NLog - 1
    BY <1>8 DEF LogWrite, LogFull, TypeOK
  <2>2. lh \in Seq(Block) /\ DOMAIN lh = 1 .. Len(lh) /\ Len(lh) \in Nat
    BY DEF TypeOK
  <2>3. b \in Range(lh) <=> InLog(b)
    BY <2>2, Zenon DEF Range, InLog
  <2>4. /\ lh' \in Seq(Block) /\ Len(lh') =< Len(lh) + 1
        /\ \A k \in 1 .. Len(lh) : k \in 1 .. Len(lh') /\ lh'[k] = lh[k]
        /\ \A k \in 1 .. Len(lh') : k \in 1 .. Len(lh) \/ (k = Len(lh) + 1 /\ lh'[k] = b)
        /\ InLog(b) => lh' = lh
        /\ ~ InLog(b) => Len(lh') = Len(lh) + 1 /\ lh'[Len(lh) + 1] = b
        /\ \A c \in Block : pin'[c] = IF c = b /\ ~ InLog(b) THEN pin[c] + 1 ELSE pin[c]
        /\ pin' \in [Block -> Nat]
    <3>1. CASE InLog(b)
      BY <2>1, <2>2, <2>3, <3>1 DEF AppendBlock, TypeOK
    <3>2. CASE ~ InLog(b)
      <4>1. lh' = Append(lh, b) /\ pin' = [pin EXCEPT ![b] = @ + 1]
        BY <2>1, <2>3, <3>2, Zenon DEF AppendBlock
      <4>2. lh' \in Seq(Block) /\ Len(lh') = Len(lh) + 1 /\ lh'[Len(lh) + 1] = b
        BY <2>2, <4>1
      <4>3. \A k \in 1 .. Len(lh) : lh'[k] = lh[k]
        BY <2>2, <4>1
      <4>4. pin' \in [Block -> Nat] /\ \A c \in Block : pin'[c] = IF c = b THEN pin[c] + 1 ELSE pin[c]
        BY <4>1 DEF TypeOK
      <4> QED BY <2>2, <3>2, <4>2, <4>3, <4>4
    <3> QED BY <3>1, <3>2, Zenon
  <2>5. TypeOK'
    <3>1. cache' \in [Block -> Value] /\ wrote' \in [Proc -> SUBSET Block]
      BY Zenon DEF LogWrite, TypeOK
    <3>2. Len(lh') =< LOGSIZE
      BY <2>1, <2>2, <2>4
    <3> QED BY <1>1, <2>1, <2>4, <3>1, <3>2, Zenon DEF TypeOK
  <2>6. Active' = Active
    BY <2>1, Zenon DEF Active
  <2>7. Written' = Written \cup {<<p, b>>} /\ (<<p, b>> \in Written => b \in wrote[p])
    BY <1>2, <2>6, WrittenGrows, Zenon DEF LogWrite, TypeOK
  <2>8. HeadersOK'
    <3>1. \A j, k \in 1 .. Len(lh') : lh'[j] = lh'[k] => j = k
      <4>1. CASE InLog(b)
        BY <2>4, <4>1, Zenon DEF HeadersOK
      <4>2. CASE ~ InLog(b)
        <5> SUFFICES ASSUME NEW j \in 1 .. Len(lh'), NEW k \in 1 .. Len(lh'), lh'[j] = lh'[k] PROVE j = k
          OBVIOUS
        <5>1. CASE j \in 1 .. Len(lh) /\ k \in 1 .. Len(lh)
          BY <2>4, <5>1 DEF HeadersOK
        <5>2. CASE j \in 1 .. Len(lh) /\ k \notin 1 .. Len(lh)
          BY <2>4, <4>2, <5>2 DEF InLog
        <5>3. CASE j \notin 1 .. Len(lh) /\ k \in 1 .. Len(lh)
          BY <2>4, <4>2, <5>3 DEF InLog
        <5>4. CASE j \notin 1 .. Len(lh) /\ k \notin 1 .. Len(lh)
          BY <2>4, <5>4
        <5> QED BY <5>1, <5>2, <5>3, <5>4, Zenon
      <4> QED BY <4>1, <4>2, Zenon
    <3> QED BY <1>1, <2>1, <2>2, <2>4, <2>5, <3>1 DEF HeadersOK, TypeOK
  <2>9. RecoveryOK'
    BY <1>1, Zenon DEF RecoveryOK
  <2>10. CommitterOK'
    BY <1>1, <1>2, <1>3, <2>1, <2>6, Zenon DEF CommitterOK
  <2>11. PhaseOK'
    BY <1>3, <2>1, Zenon DEF PhaseOK, CommitPC
  <2>12. InLog(b)' /\ \A c \in Block : InLog(c)' <=> InLog(c) \/ c = b
    <3>1. InLog(b)'
      <4>1. CASE InLog(b)
        BY <2>4, <4>1, Zenon DEF InLog
      <4>2. CASE ~ InLog(b)
        BY <2>2, <2>4, <4>2 DEF InLog
      <4> QED BY <4>1, <4>2, Zenon
    <3>2. \A c \in Block : InLog(c) => InLog(c)'
      BY <2>4, Zenon DEF InLog
    <3>3. \A c \in Block : InLog(c)' => InLog(c) \/ c = b
      BY <2>4, Zenon DEF InLog
    <3> QED BY <3>1, <3>2, <3>3, Zenon
  <2>13. CacheOK'
    BY <1>1, <1>5, <2>12, Zenon DEF CacheOK
  <2>14. PinsOK'
    <3>1. \A c \in Block : pin[c] = IF InLog(c) THEN 1 ELSE 0
      BY <1>1, <1>3, Zenon DEF PinsOK, InLog, CommitPC
    <3>2. \A c \in Block : pin'[c] = IF InLog(c)' THEN 1 ELSE 0
      BY <2>4, <2>12, <3>1
    <3> QED BY <1>1, <1>3, <2>1, <3>2, Zenon DEF PinsOK, InLog, CommitPC
  <2>15. CountsOK'
    <3>1. \A q \in Proc : IsFiniteSet(wrote'[q]) /\ Cardinality(wrote'[q]) =< MAXOPBLOCKS
      BY <1>4, <1>6, Zenon DEF CountsOK
    <3>2. \A q \in Proc : pc'[q] = "op" => \A c \in wrote'[q] : InLog(c)'
      BY <1>4, <2>1, <2>12, Zenon DEF CountsOK, TypeOK
    <3>3. /\ IsFiniteSet(Written') /\ Cardinality(Written) \in Nat /\ Cardinality(Written') \in Nat
          /\ Cardinality(Written') - Cardinality(Written) >= Len(lh') - Len(lh)
      <4> DEFINE x == <<p, b>>
      <4> HIDE DEF x
      <4>1. IsFiniteSet(Written) /\ Cardinality(Written) \in Nat
        BY FS_CardinalityType, Zenon DEF CountsOK
      <4>2. /\ IsFiniteSet(Written \cup {x})
            /\ Cardinality(Written \cup {x}) = IF x \in Written THEN Cardinality(Written) ELSE Cardinality(Written) + 1
        BY <4>1, FS_AddElement, Zenon
      <4>3. x \in Written => Len(lh') = Len(lh)
        BY <1>1, <2>4, <2>7, Zenon DEF CountsOK, x
      <4>4. Written' = Written \cup {x}
        BY <2>7, Zenon DEF x
      <4> QED BY <2>2, <2>4, <4>1, <4>2, <4>3, <4>4
    <3>4. RoomReserved'
      <4> DEFINE m == MAXOPBLOCKS * Cardinality(Active)
      <4>1. m \in Nat
        BY DEF CountsOK, TypeOK
      <4>2. Len(lh) + m - Cardinality(Written) =< LOGSIZE
        BY Zenon DEF CountsOK, RoomReserved
      <4>3. Len(lh') + m - Cardinality(Written') =< LOGSIZE
        <5> HIDE DEF m
        <5> QED BY <2>2, <2>4, <3>3, <4>1, <4>2
      <4> QED BY <2>6, <4>3, Zenon DEF RoomReserved
    <3> QED BY <1>1, <2>6, <3>1, <3>2, <3>3, <3>4, Zenon DEF CountsOK
  <2> QED BY <2>5, <2>8, <2>9, <2>10, <2>11, <2>13, <2>14, <2>15, Zenon
<1> QED BY <1>7, <1>8, Zenon

\* end_op: the operation leaves, and the last one becomes the committer.
LEMMA EndOpIInv ==
  ASSUME IInv, NEW p \in Proc, EndOp(p)
  PROVE  IInv'
<1> USE LogAssumption DEF IInv
<1>1. /\ boot = "up" /\ pc[p] = "op" /\ Running
      /\ outstanding' = outstanding - 1
      /\ UNCHANGED <<home, logblk, head, cache, pin, lh, boot, tail, wrote>>
  BY Zenon DEF EndOp, At, Running, diskvars
<1>2. p \in Active /\ \A q \in Active : pc[q] = "op"
  BY <1>1, Zenon DEF Active, Running
<1>3. committing = FALSE /\ head = <<>> /\ tail = 0 /\ \A q \in Proc : pc[q] \notin CommitPC
  <2>1. ~ committing
    BY <1>2, Zenon DEF CommitterOK
  <2> QED BY <1>1, <2>1, Zenon DEF CommitterOK, TypeOK
<1>4. /\ IsFiniteSet(Active \ {p}) /\ Cardinality(Active \ {p}) = Cardinality(Active) - 1
      /\ Cardinality(Active \ {p}) \in Nat
  <2>1. IsFiniteSet(Active)
    BY Zenon DEF CountsOK
  <2> QED BY <1>2, <2>1, FS_RemoveElement, FS_CardinalityType, Zenon
<1>5. HeadersOK' /\ RecoveryOK'
  BY <1>1 DEF HeadersOK, RecoveryOK
<1>6. ASSUME \A q \in Proc : pc'[q] \notin {"op", "panic", "install"} \/ (pc'[q] = "op" /\ pc[q] = "op"),
             Active' = Active \ {p}
      PROVE  CacheOK' /\ PinsOK' /\ CountsOK'
  <2>1. CacheOK'
    BY <1>1, <1>6, Zenon DEF CacheOK, Running, InLog
  <2>2. PinsOK'
    BY <1>1, <1>3, <1>6, Zenon DEF PinsOK, CommitPC
  <2>3. CountsOK'
    <3>1. IsFiniteSet(Active') /\ outstanding' = Cardinality(Active')
      BY <1>1, <1>4, <1>6, Zenon DEF CountsOK
    <3>2. \A q \in Proc : IsFiniteSet(wrote'[q]) /\ Cardinality(wrote'[q]) =< MAXOPBLOCKS
      BY <1>1, Zenon DEF CountsOK
    <3>3. \A q \in Proc : pc'[q] = "op" => \A b \in wrote'[q] : InLog(b)'
      BY <1>1, <1>6, Zenon DEF CountsOK, InLog
    <3> DEFINE gone == {p} \X wrote[p]
    <3>4. Written' = Written \ gone /\ gone \subseteq Written
      BY <1>1, <1>2, <1>6, WrittenShrinks, Zenon DEF TypeOK
    <3>5. IsFiniteSet(gone) /\ Cardinality(gone) = Cardinality(wrote[p]) /\ Cardinality(gone) \in Nat
      <4>1. IsFiniteSet({p}) /\ Cardinality({p}) = 1
        BY FS_Singleton, Zenon
      <4>2. IsFiniteSet(wrote[p]) /\ Cardinality(wrote[p]) \in Nat
        BY FS_CardinalityType, Zenon DEF CountsOK
      <4>3. IsFiniteSet(gone) /\ Cardinality(gone) = Cardinality({p}) * Cardinality(wrote[p])
        BY <4>1, <4>2, FS_Product, Zenon
      <4> QED BY <4>1, <4>2, <4>3
    <3> HIDE DEF gone
    <3>6. /\ IsFiniteSet(Written') /\ Cardinality(Written) \in Nat /\ Cardinality(Written') \in Nat
          /\ Cardinality(Written') = Cardinality(Written) - Cardinality(wrote[p])
      <4>1. IsFiniteSet(Written) /\ Cardinality(Written) \in Nat
        BY FS_CardinalityType, Zenon DEF CountsOK
      <4>2. /\ IsFiniteSet(Written \ gone)
            /\ Cardinality(Written \ gone) = Cardinality(Written) - Cardinality(Written \cap gone)
        BY <4>1, FS_Difference, Zenon
      <4>3. Written \cap gone = gone
        BY <3>4, Zenon
      <4>4. Cardinality(Written \ gone) \in Nat
        BY <4>2, FS_CardinalityType, Zenon
      <4> QED BY <3>4, <3>5, <4>1, <4>2, <4>3, <4>4, Zenon
    <3>7. RoomReserved'
      <4>1. Cardinality(wrote[p]) \in Nat /\ Cardinality(wrote[p]) =< MAXOPBLOCKS
        BY FS_CardinalityType, Zenon DEF CountsOK
      <4> DEFINE a == Cardinality(Active)
      <4>2. a \in Nat /\ Cardinality(Active') = a - 1
        BY <1>4, <1>6, FS_CardinalityType, Zenon DEF CountsOK
      <4>3. Len(lh) + MAXOPBLOCKS * a - Cardinality(Written) =< LOGSIZE /\ Len(lh) \in Nat
        BY DEF CountsOK, RoomReserved, TypeOK
      <4> HIDE DEF a
      <4>4. MAXOPBLOCKS * (a - 1) = MAXOPBLOCKS * a - MAXOPBLOCKS /\ MAXOPBLOCKS * a \in Int
        BY <4>2
      <4>5. Len(lh) + MAXOPBLOCKS * (a - 1) - Cardinality(Written') =< LOGSIZE
        BY <3>6, <4>1, <4>2, <4>3, <4>4
      <4> QED BY <1>1, <4>2, <4>5, Zenon DEF RoomReserved
    <3> QED BY <3>1, <3>2, <3>3, <3>6, <3>7, Zenon DEF CountsOK
  <2> QED BY <2>1, <2>2, <2>3, Zenon
<1>7. CASE outstanding = 1 /\ committing' = TRUE /\ Goto(p, IF lh = <<>> THEN "finish" ELSE "write_log")
  <2>1. TypeOK'
    <3>1. outstanding' \in Nat /\ committing' \in BOOLEAN
      BY <1>1, <1>7
    <3>2. pc' \in [Proc -> {"out", "begin", "asleep", "op", "panic"} \cup CommitPC]
      BY <1>7, Zenon DEF TypeOK, Goto, CommitPC
    <3> QED BY <1>1, <3>1, <3>2, Zenon DEF TypeOK
  <2>2. \A q \in Proc : pc'[q] = IF q = p THEN IF lh = <<>> THEN "finish" ELSE "write_log" ELSE pc[q]
    BY <1>7, Zenon DEF TypeOK, Goto
  <2>3. Active = {p}
    <3>1. IsFiniteSet(Active) /\ Cardinality(Active) = 1
      BY <1>7, Zenon DEF CountsOK
    <3>2. \E x : Active = {x}
      BY <3>1, FS_Singleton, Zenon
    <3> QED BY <1>2, <3>2, Zenon
  <2>4. Active' = {} /\ Active' = Active \ {p}
    BY <2>2, <2>3, Zenon DEF Active
  <2>5. {q \in Proc : pc'[q] \in CommitPC} = {p}
    BY <1>3, <2>2, Zenon DEF CommitPC
  <2>6. CommitterOK'
    BY <1>7, <2>4, <2>5, Zenon DEF CommitterOK
  <2>7. PhaseOK'
    <3>1. \A k \in 1 .. tail : FALSE
      BY <1>3
    <3>2. tail =< Len(lh)
      BY <1>3 DEF TypeOK
    <3> QED BY <1>1, <1>3, <2>2, <3>1, <3>2 DEF PhaseOK, CommitPC
  <2>8. CacheOK' /\ PinsOK' /\ CountsOK'
    BY <1>1, <1>2, <1>3, <1>6, <2>2, <2>3, <2>4 DEF Active, CommitPC
  <2> QED BY <1>5, <2>1, <2>6, <2>7, <2>8, Zenon
<1>8. CASE outstanding > 1 /\ WakeupAndGoto(p, "out") /\ committing' = committing
  <2>1. \A q \in Proc : pc'[q] = IF q = p THEN "out" ELSE IF pc[q] = "asleep" THEN "begin" ELSE pc[q]
    BY <1>8, Zenon DEF WakeupAndGoto
  <2>2. TypeOK'
    <3>1. outstanding' \in Nat /\ committing' \in BOOLEAN
      BY <1>1, <1>8 DEF TypeOK
    <3>2. pc' \in [Proc -> {"out", "begin", "asleep", "op", "panic"} \cup CommitPC]
      BY <1>8, <2>1, Zenon DEF TypeOK, WakeupAndGoto
    <3> QED BY <1>1, <3>1, <3>2, Zenon DEF TypeOK
  <2>3. Active' = Active \ {p}
    BY <2>1, Zenon DEF Active
  <2>4. Active' # {}
    <3>1. Cardinality(Active \ {p}) > 0
      BY <1>4, <1>8 DEF CountsOK, TypeOK
    <3> QED BY <2>3, <3>1, FS_EmptySet
  <2>5. \A q \in Proc : pc'[q] \notin CommitPC
    BY <1>3, <2>1, Zenon DEF CommitPC
  <2>6. CommitterOK'
    BY <1>1, <1>3, <1>8, <2>4, <2>5, Zenon DEF CommitterOK
  <2>7. PhaseOK'
    BY <2>5, Zenon DEF PhaseOK, CommitPC
  <2>8. CacheOK' /\ PinsOK' /\ CountsOK'
    BY <1>1, <1>2, <1>3, <1>6, <2>1, <2>3, Zenon DEF Active, Running, CommitPC
  <2> QED BY <1>5, <2>2, <2>6, <2>7, <2>8, Zenon
<1> QED BY <1>3, <1>7, <1>8, Zenon DEF EndOp

\* With no operation under way the counts are those of the empty set.
LEMMA IdleCounts ==
  ASSUME CountsOK, Active = {}, Active' = {}, outstanding' = outstanding, wrote' = wrote,
         Len(lh') \in Nat, Len(lh') =< LOGSIZE
  PROVE  CountsOK'
<1>1. Written' = {}
  BY Zenon DEF Written
<1>2. IsFiniteSet({}) /\ Cardinality({}) = 0
  BY FS_EmptySet, Zenon
<1>3. RoomReserved'
  BY <1>1, <1>2, LogAssumption DEF RoomReserved
<1>4. \A q \in Proc : pc'[q] # "op"
  BY Zenon DEF Active
<1> QED BY <1>1, <1>2, <1>3, <1>4, Zenon DEF CountsOK

\* While a process commits there is no operation and no other committer.
LEMMA CommitterAlone ==
  ASSUME IInv, NEW p \in Proc, pc[p] \in CommitPC
  PROVE  /\ committing = TRUE /\ Active = {} /\ boot = "up" /\ Running
         /\ \A q \in Proc : q # p => pc[q] \notin CommitPC
<1>1. committing /\ Active = {}
  BY Zenon DEF IInv, CommitterOK
<1>2. boot = "up"
  BY Zenon DEF IInv, RecoveryOK, CommitPC
<1>3. \A q \in Proc : q # p => pc[q] \notin CommitPC
  BY <1>1 DEF IInv, CommitterOK
<1> QED BY <1>1, <1>2, <1>3, Zenon DEF Running, Active, IInv, TypeOK

\* write_log: one more log block has what the cache has.
LEMMA WriteLogIInv ==
  ASSUME IInv, NEW p \in Proc, WriteLog(p)
  PROVE  IInv'
<1> USE LogAssumption DEF IInv
<1>1. /\ pc[p] = "write_log" /\ tail < Len(lh) /\ tail' = tail + 1
      /\ logblk' = [logblk EXCEPT ![tail + 1] = cache[lh[tail + 1]]]
      /\ UNCHANGED <<home, head, cache, pin, lh, outstanding, committing, boot, pc, wrote>>
  BY Zenon DEF WriteLog, At, logvars
<1>2. /\ committing = TRUE /\ Active = {} /\ boot = "up"
      /\ \A q \in Proc : q # p => pc[q] \notin CommitPC
  BY <1>1, CommitterAlone, Zenon DEF CommitPC
<1>3. tail \in Nat /\ Len(lh) \in Nat /\ Len(lh) =< LOGSIZE /\ lh[tail + 1] \in Block
  BY <1>1 DEF TypeOK
<1>4. \A k \in 1 .. LOGSIZE : logblk'[k] = IF k = tail + 1 THEN cache[lh[k]] ELSE logblk[k]
  BY <1>1, Zenon DEF TypeOK
<1>5. TypeOK'
  <2>1. logblk' \in [1 .. LOGSIZE -> Value]
    BY <1>1, <1>3, Zenon DEF TypeOK
  <2> QED BY <1>1, <1>3, <2>1 DEF TypeOK
<1>6. HeadersOK' /\ RecoveryOK' /\ CommitterOK'
  BY <1>1, <1>2 DEF HeadersOK, RecoveryOK, CommitterOK, Active
<1>7. PhaseOK'
  <2>1. head' = <<>> /\ tail' =< Len(lh')
    BY <1>1, <1>3 DEF PhaseOK
  <2>2. \A k \in 1 .. tail' : logblk'[k] = cache'[lh'[k]]
    <3> SUFFICES ASSUME NEW k \in 1 .. tail' PROVE logblk'[k] = cache[lh[k]]
      BY <1>1, Zenon
    <3>1. k \in 1 .. LOGSIZE /\ (k = tail + 1 \/ k \in 1 .. tail)
      BY <1>1, <1>3
    <3> QED BY <1>1, <1>3, <1>4, <3>1, Zenon DEF PhaseOK
  <2> QED BY <1>1, <1>2, <2>1, <2>2, Zenon DEF PhaseOK, CommitPC
<1>8. CacheOK' /\ PinsOK'
  BY <1>1, <1>2 DEF CacheOK, PinsOK, Running, InLog, CommitPC
<1>9. CountsOK'
  BY <1>1, <1>2, <1>3, IdleCounts, Zenon DEF Active
<1> QED BY <1>5, <1>6, <1>7, <1>8, <1>9, Zenon

\* write_head: the header on the disk is the one in memory, its log blocks are written.
LEMMA WriteHeadIInv ==
  ASSUME IInv, NEW p \in Proc, WriteHead(p)
  PROVE  IInv'
<1> USE LogAssumption DEF IInv
<1>1. /\ pc[p] = "write_log" /\ tail = Len(lh) /\ tail' = 0 /\ head' = lh
      /\ UNCHANGED <<home, logblk, cache, pin, lh, outstanding, committing, boot, wrote>>
  BY Zenon DEF WriteHead, LogWritten, At, logvars
<1>2. /\ committing = TRUE /\ Active = {} /\ boot = "up" /\ Running
      /\ \A q \in Proc : q # p => pc[q] \notin CommitPC
  BY <1>1, CommitterAlone, Zenon DEF CommitPC
<1>3. \A q \in Proc : pc'[q] = IF q = p THEN "install" ELSE pc[q]
  BY Zenon DEF WriteHead, Goto, TypeOK
<1>4. Len(lh) \in Nat /\ Len(lh) =< LOGSIZE
  BY DEF TypeOK
<1>5. TypeOK'
  BY <1>1, <1>4 DEF TypeOK, WriteHead, Goto, CommitPC
<1>6. HeadersOK' /\ RecoveryOK'
  BY <1>1, <1>2, <1>4 DEF HeadersOK, RecoveryOK
<1>7. Active' = {} /\ {q \in Proc : pc'[q] \in CommitPC} = {p}
  BY <1>2, <1>3, Zenon DEF Active, CommitPC
<1>8. CommitterOK'
  BY <1>1, <1>2, <1>7, Zenon DEF CommitterOK
<1>9. PhaseOK'
  <2>1. \A k \in 1 .. Len(lh) : logblk[k] = cache[lh[k]]
    BY <1>1, Zenon DEF PhaseOK
  <2>2. \A k \in 1 .. tail' : FALSE
    BY <1>1
  <2> QED BY <1>1, <1>2, <1>3, <1>4, <2>1, <2>2 DEF PhaseOK, CommitPC
<1>10. CacheOK'
  BY <1>1, <1>2, Zenon DEF CacheOK, InLog
<1>11. PinsOK'
  <2>1. ~ \E q \in Proc : pc[q] = "install"
    BY <1>1, <1>2, Zenon DEF CommitPC
  <2> QED BY <1>1, <1>2, <1>4, <2>1 DEF PinsOK
<1>12. CountsOK'
  BY <1>1, <1>2, <1>4, <1>7, IdleCounts, Zenon
<1> QED BY <1>5, <1>6, <1>8, <1>9, <1>10, <1>11, <1>12, Zenon

\* install_trans: one more block is home, and loses its pin.
LEMMA InstallIInv ==
  ASSUME IInv, NEW p \in Proc, Install(p)
  PROVE  IInv'
<1> USE LogAssumption DEF IInv
<1> DEFINE b == lh[tail + 1]
<1>1. /\ pc[p] = "install" /\ tail < Len(lh) /\ tail' = tail + 1
      /\ home' = [home EXCEPT ![b] = logblk[tail + 1]]
      /\ cache' = [cache EXCEPT ![b] = logblk[tail + 1]]
      /\ pin' = [pin EXCEPT ![b] = @ - 1]
      /\ UNCHANGED <<logblk, head, lh, outstanding, committing, boot, pc, wrote>>
  BY Zenon DEF Install, InstallBlock, At, logvars
<1>2. /\ committing = TRUE /\ Active = {} /\ boot = "up" /\ Running
      /\ \A q \in Proc : q # p => pc[q] \notin CommitPC
  BY <1>1, CommitterAlone, Zenon DEF CommitPC
<1>3. /\ tail \in Nat /\ Len(lh) \in Nat /\ Len(lh) =< LOGSIZE /\ tail + 1 \in 1 .. Len(lh)
      /\ b \in Block /\ \A k \in 1 .. Len(lh) : lh[k] \in Block
  BY <1>1 DEF TypeOK
<1>4. logblk[tail + 1] = cache[b] /\ logblk[tail + 1] \in Value
  BY <1>1, <1>3 DEF PhaseOK, TypeOK
<1>5. cache' = cache
  BY <1>1, <1>3, <1>4, Zenon DEF TypeOK
<1>6. \A c \in Block : home'[c] = IF c = b THEN cache[b] ELSE home[c]
  BY <1>1, <1>3, <1>4, Zenon DEF TypeOK
<1>7. \A c \in Block : pin[c] = IF \E k \in 1 .. Len(lh) : lh[k] = c /\ k > tail THEN 1 ELSE 0
  BY <1>1, <1>2, Zenon DEF PinsOK
<1>8. pin[b] = 1
  BY <1>3, <1>7
<1>9. \A c \in Block : pin'[c] = IF c = b THEN 0 ELSE pin[c]
  BY <1>1, <1>3, <1>8 DEF TypeOK
<1>10. TypeOK'
  <2>1. home' \in [Block -> Value]
    BY <1>1, <1>3, <1>4, Zenon DEF TypeOK
  <2>2. pin' \in [Block -> Nat]
    BY <1>1, <1>9 DEF TypeOK
  <2>3. tail' \in 0 .. LOGSIZE
    BY <1>1, <1>3
  <2> QED BY <1>1, <1>5, <2>1, <2>2, <2>3, Zenon DEF TypeOK
<1>11. HeadersOK' /\ RecoveryOK' /\ CommitterOK'
  BY <1>1, <1>2 DEF HeadersOK, RecoveryOK, CommitterOK, Active
<1>12. PhaseOK'
  <2>1. /\ head = lh /\ \A k \in 1 .. Len(lh) : logblk[k] = cache[lh[k]]
        /\ \A k \in 1 .. tail : home[lh[k]] = logblk[k]
    BY <1>1, Zenon DEF PhaseOK
  <2>2. \A k \in 1 .. tail' : home'[lh[k]] = logblk[k]
    <3> SUFFICES ASSUME NEW k \in 1 .. tail' PROVE home'[lh[k]] = logblk[k]
      OBVIOUS
    <3>1. k \in 1 .. Len(lh) /\ (k = tail + 1 \/ k \in 1 .. tail)
      BY <1>1, <1>3
    <3> QED BY <1>3, <1>6, <2>1, <3>1
  <2>3. tail' =< Len(lh)
    BY <1>1, <1>3
  <2> QED BY <1>1, <1>2, <1>5, <2>1, <2>2, <2>3 DEF PhaseOK, CommitPC
<1>13. CacheOK'
  BY <1>1, <1>2, <1>5, <1>6 DEF CacheOK, InLog
<1>14. PinsOK'
  <2>1. \A c \in Block : pin'[c] = IF \E k \in 1 .. Len(lh) : lh[k] = c /\ k > tail' THEN 1 ELSE 0
    <3> SUFFICES ASSUME NEW c \in Block
                 PROVE  pin'[c] = IF \E k \in 1 .. Len(lh) : lh[k] = c /\ k > tail' THEN 1 ELSE 0
      OBVIOUS
    <3>1. CASE c = b
      <4>1. ~ \E k \in 1 .. Len(lh) : lh[k] = b /\ k > tail'
        BY <1>1, <1>3 DEF HeadersOK
      <4> QED BY <1>9, <3>1, <4>1, Zenon
    <3>2. CASE c # b
      <4>1. (\E k \in 1 .. Len(lh) : lh[k] = c /\ k > tail') <=> (\E k \in 1 .. Len(lh) : lh[k] = c /\ k > tail)
        BY <1>1, <1>3, <3>2
      <4> QED BY <1>7, <1>9, <3>2, <4>1, Zenon
    <3> QED BY <3>1, <3>2, Zenon
  <2> QED BY <1>1, <2>1, Zenon DEF PinsOK
<1>15. CountsOK'
  BY <1>1, <1>2, <1>3, IdleCounts, Zenon DEF Active
<1> QED BY <1>10, <1>11, <1>12, <1>13, <1>14, <1>15, Zenon

\* After the last block, memory and home agree, and no block is pinned.
LEMMA InstalledAll ==
  ASSUME IInv, NEW p \in Proc, pc[p] = "install", tail = Len(lh)
  PROVE  cache = home /\ \A b \in Block : pin[b] = 0
<1> USE DEF IInv
<1>1. Running /\ boot = "up"
  BY CommitterAlone, Zenon DEF CommitPC
<1>2. \A k \in 1 .. Len(lh) : home[lh[k]] = cache[lh[k]]
  BY DEF PhaseOK
<1>3. \A b \in Block : cache[b] = home[b]
  BY <1>1, <1>2, Zenon DEF CacheOK, InLog
<1>4. \A b \in Block : pin[b] = 0
  <2>1. Len(lh) \in Nat
    BY DEF TypeOK
  <2> QED BY <1>1, <2>1 DEF PinsOK
<1> QED BY <1>3, <1>4 DEF TypeOK

\* The header is erased when every block is home.
LEMMA ClearIInv ==
  ASSUME IInv, NEW p \in Proc, Clear(p)
  PROVE  IInv'
<1> USE LogAssumption DEF IInv
<1>1. /\ pc[p] = "install" /\ tail = Len(lh) /\ tail' = 0 /\ lh' = <<>> /\ head' = <<>>
      /\ UNCHANGED <<home, logblk, cache, pin, outstanding, committing, boot, wrote>>
  BY Zenon DEF Clear, EraseHead, Installed, At
<1>2. /\ committing = TRUE /\ Active = {} /\ boot = "up"
      /\ \A q \in Proc : q # p => pc[q] \notin CommitPC
  BY <1>1, CommitterAlone, Zenon DEF CommitPC
<1>3. \A q \in Proc : pc'[q] = IF q = p THEN "finish" ELSE pc[q]
  BY Zenon DEF Clear, Goto, TypeOK
<1>4. cache = home /\ \A b \in Block : pin[b] = 0
  BY <1>1, InstalledAll, Zenon
<1>5. lh' \in Seq(Block) /\ head' \in Seq(Block) /\ Len(lh') = 0 /\ Len(head') = 0
  BY <1>1
<1>6. TypeOK'
  <2>1. pc' \in [Proc -> {"out", "begin", "asleep", "op", "panic"} \cup CommitPC]
    BY Zenon DEF TypeOK, Clear, Goto, CommitPC
  <2> QED BY <1>1, <1>5, <2>1 DEF TypeOK
<1>7. HeadersOK' /\ RecoveryOK'
  BY <1>1, <1>2, <1>5 DEF HeadersOK, RecoveryOK
<1>8. Active' = {} /\ {q \in Proc : pc'[q] \in CommitPC} = {p}
  BY <1>2, <1>3, Zenon DEF Active, CommitPC
<1>9. CommitterOK'
  BY <1>1, <1>2, <1>8, Zenon DEF CommitterOK
<1>10. PhaseOK'
  BY <1>1, <1>2, <1>3 DEF PhaseOK, CommitPC
<1>11. CacheOK'
  BY <1>1, <1>4, Zenon DEF CacheOK
<1>12. PinsOK'
  BY <1>1, <1>4, <1>5 DEF PinsOK
<1>13. CountsOK'
  BY <1>1, <1>2, <1>5, <1>8, IdleCounts
<1> QED BY <1>6, <1>7, <1>9, <1>10, <1>11, <1>12, <1>13, Zenon

\* end_op lets operations in again, with nothing in the log.
LEMMA FinishIInv ==
  ASSUME IInv, NEW p \in Proc, Finish(p)
  PROVE  IInv'
<1> USE LogAssumption DEF IInv
<1>1. /\ pc[p] = "finish" /\ committing' = FALSE
      /\ UNCHANGED <<home, logblk, head, cache, pin, lh, outstanding, boot, tail, wrote>>
  BY Zenon DEF Finish, At, diskvars
<1>2. /\ committing = TRUE /\ Active = {} /\ boot = "up" /\ Running
      /\ \A q \in Proc : q # p => pc[q] \notin CommitPC
  BY <1>1, CommitterAlone, Zenon DEF CommitPC
<1>3. lh = <<>> /\ head = <<>> /\ tail = 0
  BY <1>1, Zenon DEF PhaseOK
<1>4. \A q \in Proc : pc'[q] = IF q = p THEN "out" ELSE IF pc[q] = "asleep" THEN "begin" ELSE pc[q]
  BY Zenon DEF Finish, WakeupAndGoto
<1>5. TypeOK'
  <2>1. pc' \in [Proc -> {"out", "begin", "asleep", "op", "panic"} \cup CommitPC]
    BY <1>4, Zenon DEF TypeOK, Finish, WakeupAndGoto
  <2>2. committing' \in BOOLEAN
    BY <1>1, Zenon
  <2> QED BY <1>1, <2>1, <2>2, Zenon DEF TypeOK
<1>6. Active' = {} /\ \A q \in Proc : pc'[q] \notin CommitPC
  BY <1>2, <1>4, Zenon DEF Active, CommitPC
<1>7. HeadersOK' /\ RecoveryOK' /\ CommitterOK'
  BY <1>1, <1>2, <1>3, <1>6 DEF HeadersOK, RecoveryOK, CommitterOK
<1>8. PhaseOK'
  BY <1>6, Zenon DEF PhaseOK, CommitPC
<1>9. CacheOK'
  BY <1>1, <1>2, Zenon DEF CacheOK, InLog
<1>10. PinsOK'
  <2>1. Len(lh) = 0
    BY <1>3, Zenon
  <2> QED BY <1>1, <1>2, <2>1 DEF PinsOK
<1>11. CountsOK'
  BY <1>1, <1>2, <1>6, IdleCounts DEF TypeOK
<1> QED BY <1>5, <1>7, <1>8, <1>9, <1>10, <1>11, Zenon

\* Unless the system has panicked, a buffer that may be recycled is what its home
\* block is.
LEMMA EvictedIsHome ==
  ASSUME IInv, Running, NEW b \in Block, pin[b] = 0
  PROVE  cache[b] = home[b]
<1> USE DEF IInv
<1>1. boot = "up"
  BY Zenon DEF Running
<1>2. CASE InLog(b)
  <2>1. PICK k \in 1 .. Len(lh) : lh[k] = b
    BY <1>2, Zenon DEF InLog
  <2>2. PICK p \in Proc : pc[p] = "install"
    BY <1>1, <2>1 DEF PinsOK
  <2>3. tail \in Nat /\ k \in 1 .. tail
    BY <1>1, <2>1, <2>2 DEF PinsOK, TypeOK
  <2> QED BY <2>1, <2>2, <2>3, Zenon DEF PhaseOK
<1>3. CASE ~ InLog(b)
  BY <1>3, Zenon DEF CacheOK
<1> QED BY <1>2, <1>3, Zenon

\* A recycled buffer was home.
LEMMA EvictIInv ==
  ASSUME IInv, NEW b \in Block, Evict(b)
  PROVE  IInv'
<1> USE LogAssumption DEF IInv
<1>1. /\ boot = "up" /\ pin[b] = 0 /\ cache' = [cache EXCEPT ![b] = home[b]]
      /\ UNCHANGED <<home, logblk, head, pin, lh, outstanding, committing, boot, tail, pc, wrote>>
  BY Zenon DEF Evict, diskvars, logvars
<1>2. TypeOK'
  <2>1. cache' \in [Block -> Value]
    BY <1>1, Zenon DEF TypeOK
  <2> QED BY <1>1, <2>1, Zenon DEF TypeOK
<1>3. Active' = Active /\ Written' = Written
  BY <1>1, Zenon DEF Active, Written
<1>4. HeadersOK' /\ RecoveryOK' /\ CommitterOK' /\ PinsOK'
  BY <1>1, <1>3 DEF HeadersOK, RecoveryOK, CommitterOK, PinsOK
<1>5. CountsOK'
  BY <1>1, <1>3, Zenon DEF CountsOK, RoomReserved, InLog
<1>6. CASE Running
  <2>1. cache' = cache
    BY <1>1, <1>6, EvictedIsHome, Zenon DEF TypeOK
  <2>2. PhaseOK' /\ CacheOK'
    BY <1>1, <2>1 DEF PhaseOK, CacheOK, Running, InLog
  <2> QED BY <1>2, <1>4, <1>5, <2>2, Zenon
<1>7. CASE ~ Running
  <2>1. PICK p \in Proc : pc[p] = "panic"
    BY <1>1, <1>7, Zenon DEF Running
  <2>2. ~ committing
    BY <2>1, Zenon DEF CommitterOK, Active
  <2>3. \A q \in Proc : pc'[q] \notin CommitPC
    BY <1>1, <2>2, Zenon DEF CommitterOK
  <2>4. PhaseOK' /\ CacheOK'
    BY <1>1, <2>1, <2>3, Zenon DEF PhaseOK, CacheOK, Running, CommitPC
  <2> QED BY <1>2, <1>4, <1>5, <2>4, Zenon
<1> QED BY <1>6, <1>7, Zenon

\* A crash leaves a disk from which recovery may start.
LEMMA CrashIInv ==
  ASSUME IInv, Crash
  PROVE  IInv'
<1> USE LogAssumption DEF IInv
<1>1. /\ cache' = home /\ pin' = [b \in Block |-> 0] /\ lh' = <<>> /\ outstanding' = 0
      /\ committing' = FALSE /\ boot' = "read_head" /\ tail' = 0
      /\ pc' = [p \in Proc |-> "out"] /\ wrote' = [p \in Proc |-> {}]
      /\ UNCHANGED <<home, logblk, head>>
  BY Zenon DEF Crash, diskvars
<1>2. lh' \in Seq(Block) /\ Len(lh') = 0
  BY <1>1
<1>3. TypeOK'
  <2>1. pin' \in [Block -> Nat] /\ wrote' \in [Proc -> SUBSET Block]
    BY <1>1, Zenon
  <2>2. pc' \in [Proc -> {"out", "begin", "asleep", "op", "panic"} \cup CommitPC]
    BY <1>1, Zenon
  <2>3. cache' \in [Block -> Value] /\ home' \in [Block -> Value]
    BY <1>1, Zenon DEF TypeOK
  <2>4. tail' \in 0 .. LOGSIZE /\ outstanding' \in Nat /\ Len(lh') =< LOGSIZE
    BY <1>1, <1>2
  <2>5. committing' \in BOOLEAN
    BY <1>1, Zenon
  <2> QED BY <1>1, <1>2, <2>1, <2>2, <2>3, <2>4, <2>5, Zenon DEF TypeOK
<1>4. Active' = {} /\ Written' = {}
  BY <1>1, Zenon DEF Active, Written
<1>5. HeadersOK' /\ RecoveryOK'
  BY <1>1, <1>2 DEF HeadersOK, RecoveryOK
<1>6. CommitterOK' /\ PhaseOK' /\ CacheOK' /\ PinsOK'
  BY <1>1, Zenon DEF CommitterOK, PhaseOK, CacheOK, PinsOK, Running, CommitPC
<1>7. CountsOK'
  <2>1. IsFiniteSet({}) /\ Cardinality({}) = 0
    BY FS_EmptySet, Zenon
  <2> QED BY <1>1, <1>2, <1>4, <2>1 DEF CountsOK, RoomReserved
<1> QED BY <1>3, <1>5, <1>6, <1>7, Zenon

\* recover_from_log: what is installed and then erased is the header on the disk.
LEMMA RecoverIInv ==
  ASSUME IInv, Recover
  PROVE  IInv'
<1> USE LogAssumption DEF IInv
<1>1. boot # "up" /\ Active = {} /\ committing = FALSE /\ \A p \in Proc : pc[p] = "out"
  BY Zenon DEF Recover, ReadHead, RecoverInstall, RecoverClear, RecoveryOK, Active
<1>2. UNCHANGED <<logblk, pin, outstanding, committing, pc, wrote>>
  BY Zenon DEF Recover, ReadHead, RecoverInstall, RecoverClear, logvars, diskvars
<1>3. Active' = {}
  BY <1>1, <1>2, Zenon DEF Active
<1>4. PhaseOK'
  BY <1>1, <1>2, Zenon DEF PhaseOK
<1>5. CASE ReadHead
  <2>1. /\ boot = "read_head" /\ boot' = "install" /\ lh' = head
        /\ UNCHANGED <<home, head, cache, tail>>
    BY <1>5, Zenon DEF ReadHead, diskvars
  <2>2. Len(head) \in Nat /\ Len(head) =< LOGSIZE /\ tail = 0
    BY <2>1 DEF TypeOK, HeadersOK, RecoveryOK
  <2>3. TypeOK'
    BY <1>2, <2>1, <2>2, Zenon DEF TypeOK
  <2>4. HeadersOK' /\ RecoveryOK'
    BY <1>2, <2>1, <2>2 DEF HeadersOK, RecoveryOK
  <2>5. CommitterOK' /\ CacheOK' /\ PinsOK'
    BY <1>1, <1>2, <2>1, Zenon DEF CommitterOK, CacheOK, PinsOK, Running, CommitPC
  <2>6. CountsOK'
    BY <1>1, <1>2, <1>3, <2>1, <2>2, IdleCounts, Zenon
  <2> QED BY <1>4, <2>3, <2>4, <2>5, <2>6, Zenon
<1>6. CASE RecoverInstall
  <2> DEFINE b == lh[tail + 1]
  <2>1. /\ boot = "install" /\ tail < Len(lh) /\ tail' = tail + 1
        /\ home' = [home EXCEPT ![b] = logblk[tail + 1]]
        /\ cache' = [cache EXCEPT ![b] = logblk[tail + 1]]
        /\ UNCHANGED <<head, lh, boot>>
    BY <1>6, Zenon DEF RecoverInstall, InstallBlock, logvars
  <2>2. /\ lh = head /\ cache = home /\ tail \in Nat /\ Len(lh) \in Nat /\ Len(lh) =< LOGSIZE
        /\ \A k \in 1 .. tail : home[lh[k]] = logblk[k]
    BY <2>1 DEF TypeOK, RecoveryOK
  <2>3. b \in Block /\ logblk[tail + 1] \in Value /\ \A k \in 1 .. Len(lh) : lh[k] \in Block
    BY <2>1, <2>2 DEF TypeOK
  <2>4. \A c \in Block : home'[c] = IF c = b THEN logblk[tail + 1] ELSE home[c]
    BY <2>1, <2>3, Zenon DEF TypeOK
  <2>5. TypeOK'
    <3>1. home' \in [Block -> Value] /\ cache' \in [Block -> Value] /\ tail' \in 0 .. LOGSIZE
      BY <2>1, <2>2, <2>3 DEF TypeOK
    <3> QED BY <1>2, <2>1, <3>1, Zenon DEF TypeOK
  <2>6. HeadersOK'
    BY <2>1, Zenon DEF HeadersOK
  <2>7. RecoveryOK'
    <3>1. \A k \in 1 .. tail' : home'[lh[k]] = logblk[k]
      <4> SUFFICES ASSUME NEW k \in 1 .. tail' PROVE home'[lh[k]] = logblk[k]
        OBVIOUS
      <4>1. k \in 1 .. Len(lh) /\ (k = tail + 1 \/ (k \in 1 .. tail /\ k # tail + 1))
        BY <2>1, <2>2
      <4>2. k \in 1 .. tail => lh[k] # b
        BY <2>1, <2>2, <4>1 DEF HeadersOK
      <4> QED BY <2>2, <2>3, <2>4, <4>1, <4>2, Zenon
    <3>2. tail' =< Len(lh) /\ cache' = home'
      BY <2>1, <2>2
    <3>3. \A c \in Block : pin'[c] = 0
      BY <1>1, <1>2, Zenon DEF RecoveryOK
    <3> QED BY <1>1, <1>2, <2>1, <2>2, <3>1, <3>2, <3>3 DEF RecoveryOK
  <2>8. CommitterOK' /\ CacheOK' /\ PinsOK'
    BY <1>1, <1>2, <2>1, Zenon DEF CommitterOK, CacheOK, PinsOK, Running, CommitPC
  <2>9. CountsOK'
    BY <1>1, <1>2, <1>3, <2>1, <2>2, IdleCounts, Zenon
  <2> QED BY <1>4, <2>5, <2>6, <2>7, <2>8, <2>9, Zenon
<1>7. CASE RecoverClear
  <2>1. /\ boot = "install" /\ boot' = "up" /\ tail' = 0 /\ lh' = <<>> /\ head' = <<>>
        /\ UNCHANGED <<home, cache>>
    BY <1>7, Zenon DEF RecoverClear, EraseHead
  <2>2. lh' \in Seq(Block) /\ head' \in Seq(Block) /\ Len(lh') = 0 /\ Len(head') = 0
    BY <2>1
  <2>3. TypeOK'
    BY <1>2, <2>1, <2>2 DEF TypeOK
  <2>4. HeadersOK' /\ RecoveryOK'
    BY <2>1, <2>2 DEF HeadersOK, RecoveryOK
  <2>5. CommitterOK'
    BY <1>1, <1>2, <2>1, Zenon DEF CommitterOK, CommitPC
  <2>6. cache' = home' /\ \A c \in Block : pin'[c] = 0
    BY <1>1, <1>2, <2>1, Zenon DEF RecoveryOK
  <2>7. CacheOK' /\ PinsOK'
    BY <2>2, <2>6 DEF CacheOK, PinsOK
  <2>8. CountsOK'
    BY <1>1, <1>2, <1>3, <2>2, IdleCounts
  <2> QED BY <1>4, <2>3, <2>4, <2>5, <2>7, <2>8, Zenon
<1> QED BY <1>5, <1>6, <1>7, Zenon DEF Recover

\* No step of log.c, no recycling of a buffer and no crash breaks the invariant.
LEMMA StepIInv == IInv /\ [Next]_vars => IInv'
<1> SUFFICES ASSUME IInv, [Next]_vars PROVE IInv'
  OBVIOUS
<1>1. CASE UNCHANGED vars
  <2>1. UNCHANGED <<home, logblk, head, cache, pin, lh, outstanding, committing, boot, tail, pc, wrote>>
    BY <1>1, Zenon DEF vars, diskvars, logvars
  <2>2. Active' = Active /\ Written' = Written
    BY <2>1, Zenon DEF Active, Written
  <2>3. TypeOK' /\ HeadersOK' /\ RecoveryOK' /\ PhaseOK'
    BY <2>1 DEF IInv, TypeOK, HeadersOK, RecoveryOK, PhaseOK
  <2>4. CommitterOK' /\ CacheOK' /\ PinsOK'
    BY <2>1, <2>2 DEF IInv, CommitterOK, CacheOK, PinsOK, Running, InLog
  <2>5. CountsOK'
    BY <2>1, <2>2, Zenon DEF IInv, CountsOK, InLog, RoomReserved
  <2> QED BY <2>3, <2>4, <2>5, Zenon DEF IInv
<1>2. ASSUME NEW p \in Proc, BeginOpCall(p) PROVE IInv'
  BY <1>2, WaitingIInv, Zenon DEF BeginOpCall, At, Running
<1>3. ASSUME NEW p \in Proc, BeginOpSleep(p) PROVE IInv'
  BY <1>3, WaitingIInv, Zenon DEF BeginOpSleep, At, Running
<1>4. ASSUME NEW p \in Proc, CommitStep(p) PROVE IInv'
  BY <1>4, WriteLogIInv, WriteHeadIInv, InstallIInv, ClearIInv, FinishIInv, Zenon DEF CommitStep
<1> QED BY <1>1, <1>2, <1>3, <1>4, BeginOpIInv, LogWriteIInv, EndOpIInv, EvictIInv, CrashIInv, RecoverIInv, Zenon DEF Next

\* The inductive invariant: the header, the pins, the cache and the home blocks agree
\* at every step of begin_op, log_write, end_op, commit and recovery (log.c:54-235).
THEOREM LogInvariant == Spec => []IInv
BY InitIInv, StepIInv, PTL DEF Spec

\* A transaction is committed by one process alone, with one entry and one pin for
\* each of its blocks, and leaves nothing behind (log.c:12-16, 144-235).
THEOREM TransactionsSound == Spec => []TransactionSound
<1>1. IInv => TransactionSound
  <2> SUFFICES ASSUME IInv PROVE TransactionSound
    OBVIOUS
  <2> USE DEF IInv
  <2>1. CommitsAlone
    <3>1. committing => outstanding = 0
      BY FS_EmptySet, Zenon DEF CommitterOK, CountsOK
    <3> QED BY <3>1, Zenon DEF CommitsAlone, CommitterOK
  <2>2. Len(lh) \in Nat /\ DOMAIN lh = 1 .. Len(lh) /\ tail \in Nat
    BY DEF TypeOK
  <2>3. PinsMatchLog
    <3>1. IsInjective(lh)
      BY <2>2, Zenon DEF IsInjective, HeadersOK
    <3>2. CASE \E p \in Proc : pc[p] = "install"
      BY <2>2, <3>1, <3>2 DEF PinsMatchLog, PinsOK
    <3>3. CASE ~ \E p \in Proc : pc[p] = "install"
      BY <2>2, <3>1, <3>3, Zenon DEF PinsMatchLog, PinsOK
    <3> QED BY <3>2, <3>3, Zenon
  <2>4. QuietIsDurable
    <3> SUFFICES ASSUME boot = "up", outstanding = 0, ~ committing
                 PROVE  home = cache /\ lh = <<>> /\ head = <<>>
      BY Zenon DEF QuietIsDurable
    <3>1. Active = {}
      BY FS_EmptySet, Zenon DEF CountsOK
    <3>2. lh = <<>> /\ head = <<>> /\ Running
      BY <3>1, Zenon DEF CommitterOK, Active, Running
    <3>3. \A b \in Block : ~ InLog(b)
      BY <3>2 DEF InLog
    <3>4. \A b \in Block : cache[b] = home[b]
      BY <3>2, <3>3, Zenon DEF CacheOK
    <3> QED BY <3>2, <3>4 DEF TypeOK
  <2> QED BY <2>1, <2>3, <2>4, Zenon DEF TransactionSound
<1> QED BY <1>1, LogInvariant, PTL

\* What is in the log and what may still come has room (log.c:131-134, 220).
THEOREM RoomIsSound == Spec => []RoomSound
<1>1. IInv => RoomSound
  BY Zenon DEF IInv, RoomSound, FitsOnDisk, HeadersOK, CountsOK
<1> QED BY <1>1, LogInvariant, PTL

-----------------------------------------------------------------------------
\* What recovery makes of a disk with header hd, log blocks lb and home blocks hm.
RecoveredFrom(hd, lb, hm) ==
  [b \in Block |-> IF b \in Range(hd) THEN lb[CHOOSE k \in DOMAIN hd : hd[k] = b] ELSE hm[b]]

\* Each block comes from its entry of the header, or from its home.
LEMMA RecoveredByBlock ==
  ASSUME NEW hd \in Seq(Block), NEW lb, NEW hm,
         \A j, k \in 1 .. Len(hd) : hd[j] = hd[k] => j = k
  PROVE  /\ \A k \in 1 .. Len(hd) : RecoveredFrom(hd, lb, hm)[hd[k]] = lb[k]
         /\ \A b \in Block : (\A k \in 1 .. Len(hd) : hd[k] # b) => RecoveredFrom(hd, lb, hm)[b] = hm[b]
<1>1. DOMAIN hd = 1 .. Len(hd) /\ \A k \in 1 .. Len(hd) : hd[k] \in Block
  OBVIOUS
<1>2. ASSUME NEW k \in 1 .. Len(hd) PROVE RecoveredFrom(hd, lb, hm)[hd[k]] = lb[k]
  <2>1. (CHOOSE j \in DOMAIN hd : hd[j] = hd[k]) = k
    BY <1>1, Zenon
  <2>2. hd[k] \in Range(hd)
    BY <1>1, Zenon DEF Range
  <2> QED BY <1>1, <2>1, <2>2, Zenon DEF RecoveredFrom
<1>3. ASSUME NEW b \in Block, \A k \in 1 .. Len(hd) : hd[k] # b PROVE RecoveredFrom(hd, lb, hm)[b] = hm[b]
  BY <1>1, <1>3, Zenon DEF RecoveredFrom, Range
<1> QED BY <1>2, <1>3, Zenon

\* With an empty header recovery changes nothing.
LEMMA RecoveredEmpty ==
  ASSUME NEW lb, NEW hm \in [Block -> Value] PROVE RecoveredFrom(<<>>, lb, hm) = hm
BY DEF RecoveredFrom, Range

\* A header whose blocks are installed changes nothing either.
LEMMA RecoveredInstalled ==
  ASSUME NEW hd \in Seq(Block), NEW lb, NEW hm \in [Block -> Value],
         \A j, k \in 1 .. Len(hd) : hd[j] = hd[k] => j = k,
         \A k \in 1 .. Len(hd) : hm[hd[k]] = lb[k]
  PROVE  RecoveredFrom(hd, lb, hm) = hm
<1>1. ASSUME NEW b \in Block PROVE RecoveredFrom(hd, lb, hm)[b] = hm[b]
  <2>1. CASE \E k \in 1 .. Len(hd) : hd[k] = b
    BY <2>1, RecoveredByBlock
  <2>2. CASE \A k \in 1 .. Len(hd) : hd[k] # b
    BY <2>2, RecoveredByBlock
  <2> QED BY <2>1, <2>2, Zenon
<1> QED BY <1>1, Zenon DEF RecoveredFrom

\* What a reader of the blocks sees.
Mem == IF boot = "up" THEN cache ELSE Recovered

\* What each step of log.c is in the atomic store.
LEMMA StoreStep == IInv /\ IInv' /\ [Next]_vars => [AS!Next]_(AS!avars)
<1> SUFFICES ASSUME IInv, IInv', [Next]_vars PROVE [AS!Next]_(AS!avars)
  OBVIOUS
<1> USE DEF IInv
<1>1. Recovered = RecoveredFrom(head, logblk, home) /\ Recovered' = RecoveredFrom(head', logblk', home')
  BY Zenon DEF Recovered, RecoveredFrom
<1>2. ASSUME Mem' = Mem, Recovered' = Recovered, Active' = Active PROVE UNCHANGED AS!avars
  BY <1>2, Zenon DEF AS!avars, Mem
<1>3. CASE UNCHANGED vars
  BY <1>2, <1>3 DEF vars, diskvars, Mem, Recovered, Active
<1>4. ASSUME NEW p \in Proc, BeginOpCall(p) \/ BeginOpSleep(p) PROVE UNCHANGED AS!avars
  <2>1. Active' = Active
    BY <1>4, Zenon DEF BeginOpCall, BeginOpSleep, At, Goto, Active, TypeOK
  <2>2. UNCHANGED <<home, logblk, head, cache, boot>>
    BY <1>4, Zenon DEF BeginOpCall, BeginOpSleep, diskvars
  <2>3. Recovered' = Recovered /\ Mem' = Mem
    BY <2>2 DEF Recovered, Mem
  <2> QED BY <1>2, <2>1, <2>3, Zenon
<1>5. ASSUME NEW p \in Proc, BeginOp(p) PROVE AS!Begin(p)
  <2>1. p \notin Active /\ Active' = Active \cup {p}
    BY <1>5 DEF BeginOp, At, Goto, Active, TypeOK
  <2>2. Recovered' = Recovered /\ Mem' = Mem
    BY <1>5 DEF BeginOp, diskvars, Recovered, Mem
  <2> QED BY <2>1, <2>2, Zenon DEF AS!Begin, Mem
<1>6. ASSUME NEW p \in Proc, NEW b \in Block, NEW v \in Value, LogWrite(p, b, v) PROVE AS!Write(p, b, v)
  <2>1. boot = "up" /\ boot' = "up" /\ cache' = [cache EXCEPT ![b] = v]
    BY <1>6, Zenon DEF LogWrite, At, Running
  <2>2. p \in Active /\ Active' = Active
    BY <1>6 DEF LogWrite, At, Goto, Active, TypeOK
  <2>3. Recovered' = Recovered
    BY <1>6 DEF LogWrite, diskvars, Recovered
  <2> QED BY <2>1, <2>2, <2>3, Zenon DEF AS!Write
<1>7. ASSUME NEW p \in Proc, EndOp(p) PROVE AS!End(p)
  <2>1. p \in Active /\ ~ committing
    BY <1>7, Zenon DEF EndOp, At, Active, CommitterOK
  <2>2. Active' = Active \ {p}
    <3>1. CASE Goto(p, IF lh = <<>> THEN "finish" ELSE "write_log")
      BY <3>1, Zenon DEF Goto, Active, TypeOK
    <3>2. CASE WakeupAndGoto(p, "out")
      BY <3>2, Zenon DEF WakeupAndGoto, Active
    <3> QED BY <1>7, <2>1, <3>1, <3>2, Zenon DEF EndOp
  <2>3. Recovered' = Recovered /\ Mem' = Mem
    BY <1>7 DEF EndOp, diskvars, Recovered, Mem
  <2> QED BY <2>1, <2>2, <2>3, Zenon DEF AS!End, Mem
<1>8. ASSUME NEW p \in Proc, WriteLog(p) PROVE UNCHANGED AS!avars
  <2>1. head = <<>> /\ head' = <<>> /\ UNCHANGED <<home, cache, boot, pc>>
    BY <1>8, Zenon DEF WriteLog, At, PhaseOK
  <2>2. Recovered = home /\ Recovered' = home
    BY <1>1, <2>1, RecoveredEmpty, Zenon DEF TypeOK
  <2> QED BY <1>2, <2>1, <2>2, Zenon DEF Mem, Active
<1>9. ASSUME NEW p \in Proc, WriteHead(p) PROVE AS!Commit
  <2>1. /\ pc[p] = "write_log" /\ tail = Len(lh) /\ head' = lh /\ boot = "up" /\ Running
        /\ UNCHANGED <<home, logblk, cache, boot, lh>>
    BY <1>9, Zenon DEF WriteHead, LogWritten, At, logvars, Running
  <2>2. Active = {} /\ Active' = {}
    BY <1>9, <2>1, CommitterAlone, Zenon DEF WriteHead, Goto, Active, TypeOK, CommitPC
  <2>3. \A k \in 1 .. Len(lh) : logblk[k] = cache[lh[k]]
    BY <2>1, Zenon DEF PhaseOK
  <2>4. \A b \in Block : Recovered'[b] = cache[b]
    <3> SUFFICES ASSUME NEW b \in Block PROVE RecoveredFrom(lh, logblk, home)[b] = cache[b]
      BY <1>1, <2>1, Zenon
    <3>1. lh \in Seq(Block) /\ \A j, k \in 1 .. Len(lh) : lh[j] = lh[k] => j = k
      BY Zenon DEF TypeOK, HeadersOK
    <3>2. CASE InLog(b)
      BY <2>3, <3>1, <3>2, RecoveredByBlock DEF InLog
    <3>3. CASE ~ InLog(b)
      BY <2>1, <3>1, <3>3, RecoveredByBlock DEF InLog, CacheOK
    <3> QED BY <3>2, <3>3, Zenon
  <2>5. Recovered' = cache
    BY <1>1, <2>4, Zenon DEF RecoveredFrom, TypeOK
  <2> QED BY <2>1, <2>2, <2>5, Zenon DEF AS!Commit
<1>10. ASSUME NEW p \in Proc, Install(p) PROVE UNCHANGED AS!avars
  <2> DEFINE b == lh[tail + 1]
  <2>1. /\ pc[p] = "install" /\ tail < Len(lh) /\ head' = head
        /\ home' = [home EXCEPT ![b] = logblk[tail + 1]]
        /\ cache' = [cache EXCEPT ![b] = logblk[tail + 1]]
        /\ UNCHANGED <<logblk, boot, pc>>
    BY <1>10, Zenon DEF Install, InstallBlock, At
  <2>2. head = lh /\ \A k \in 1 .. Len(lh) : logblk[k] = cache[lh[k]]
    BY <2>1, Zenon DEF PhaseOK
  <2>3. tail + 1 \in 1 .. Len(lh) /\ b \in Block
    BY <2>1 DEF TypeOK
  <2>4. cache' = cache
    BY <2>1, <2>2, <2>3 DEF TypeOK
  <2>5. b \in Range(head)
    BY <2>2, <2>3 DEF Range, TypeOK
  <2> HIDE DEF b
  <2>6. \A c \in Block : c \notin Range(head) => home'[c] = home[c]
    BY <2>1, <2>5, Zenon DEF TypeOK
  <2>7. Recovered' = Recovered
    BY <2>1, <2>6 DEF Recovered
  <2> QED BY <1>2, <2>1, <2>4, <2>7, Zenon DEF Mem, Active
<1>11. ASSUME NEW p \in Proc, Clear(p) PROVE UNCHANGED AS!avars
  <2>1. /\ pc[p] = "install" /\ tail = Len(lh) /\ head' = <<>> /\ Running
        /\ UNCHANGED <<home, cache, boot>>
    BY <1>11, Zenon DEF Clear, EraseHead, Installed, At
  <2>2. cache = home /\ head = lh /\ boot = "up"
    BY <2>1, InstalledAll, Zenon DEF PhaseOK, Running
  <2>3. Active' = Active
    BY <1>11, Zenon DEF Clear, At, Goto, Active, TypeOK
  <2>4. Recovered' = home
    BY <1>1, <2>1, RecoveredEmpty, Zenon DEF TypeOK
  <2>5. \A k \in 1 .. Len(lh) : home[lh[k]] = logblk[k]
    BY <2>1, Zenon DEF PhaseOK
  <2>6. RecoveredFrom(lh, logblk, home) = home
    <3>1. lh \in Seq(Block) /\ home \in [Block -> Value] /\ \A j, k \in 1 .. Len(lh) : lh[j] = lh[k] => j = k
      BY Zenon DEF HeadersOK, TypeOK
    <3> QED BY ONLY <2>5, <3>1, RecoveredInstalled
  <2>7. Recovered = home
    BY <1>1, <2>2, <2>6, Zenon
  <2> QED BY <1>2, <2>1, <2>3, <2>4, <2>7, <2>2, Zenon DEF Mem
<1>12. ASSUME NEW p \in Proc, Finish(p) PROVE UNCHANGED AS!avars
  <2>1. Active' = Active
    BY <1>12, Zenon DEF Finish, At, WakeupAndGoto, Active
  <2>2. Recovered' = Recovered /\ Mem' = Mem
    BY <1>12 DEF Finish, diskvars, Recovered, Mem
  <2> QED BY <1>2, <2>1, <2>2, Zenon
<1>13. ASSUME NEW b \in Block, Evict(b) PROVE AS!Next \/ UNCHANGED AS!avars
  <2>1. /\ boot = "up" /\ boot' = "up" /\ pin[b] = 0 /\ cache' = [cache EXCEPT ![b] = home[b]]
        /\ UNCHANGED <<home, logblk, head, pc>>
    BY <1>13, Zenon DEF Evict, diskvars
  <2>2. Recovered' = Recovered /\ Active' = Active
    BY <2>1 DEF Recovered, Active
  <2>3. CASE Running
    <3>1. cache' = cache
      BY <2>1, <2>3, EvictedIsHome, Zenon DEF TypeOK
    <3> QED BY <1>2, <2>1, <2>2, <3>1, Zenon DEF Mem
  <2>4. CASE ~ Running
    <3>1. PICK q \in Proc : pc[q] = "panic"
      BY <2>1, <2>4, Zenon DEF Running
    <3>2. q \in Active /\ home[b] \in Value
      BY <3>1, Zenon DEF Active, TypeOK
    <3>3. AS!Write(q, b, home[b])
      BY <2>1, <2>2, <3>2, Zenon DEF AS!Write
    <3> QED BY <3>2, <3>3, Zenon DEF AS!Next
  <2> QED BY <2>3, <2>4, Zenon
<1>14. ASSUME Crash PROVE AS!Crash
  <2>1. boot' = "read_head" /\ Recovered' = Recovered /\ Active' = {}
    BY <1>14 DEF Crash, diskvars, Recovered, Active
  <2> QED BY <2>1, Zenon DEF AS!Crash
<1>15. ASSUME Recover PROVE UNCHANGED AS!avars
  <2>1. CASE ReadHead
    <3>1. boot # "up" /\ boot' # "up" /\ Recovered' = Recovered /\ Active' = Active
      BY <2>1 DEF ReadHead, diskvars, Recovered, Active
    <3> QED BY <1>2, <3>1, Zenon DEF Mem
  <2>2. CASE RecoverInstall
    <3> DEFINE b == lh[tail + 1]
    <3>1. /\ boot = "install" /\ tail < Len(lh) /\ head' = head
          /\ home' = [home EXCEPT ![b] = logblk[tail + 1]]
          /\ UNCHANGED <<logblk, boot, pc>>
      BY <2>2, Zenon DEF RecoverInstall, InstallBlock
    <3>2. head = lh
      BY <3>1, Zenon DEF RecoveryOK
    <3>3. b \in Range(head)
      BY <3>1, <3>2 DEF Range, TypeOK
    <3> HIDE DEF b
    <3>4. \A c \in Block : c \notin Range(head) => home'[c] = home[c]
      BY <3>1, <3>3, Zenon DEF TypeOK
    <3>5. Recovered' = Recovered
      BY <3>1, <3>4 DEF Recovered
    <3> QED BY <1>2, <3>1, <3>5, Zenon DEF Mem, Active
  <2>3. CASE RecoverClear
    <3>1. /\ boot = "install" /\ boot' = "up" /\ tail = Len(lh) /\ head' = <<>>
          /\ UNCHANGED <<home, cache, pc>>
      BY <2>3, Zenon DEF RecoverClear, EraseHead, Installed
    <3>2. cache = home /\ head = lh /\ \A k \in 1 .. Len(lh) : home[lh[k]] = logblk[k]
      BY <3>1, Zenon DEF RecoveryOK
    <3>3. Recovered' = home
      BY <1>1, <3>1, RecoveredEmpty, Zenon DEF TypeOK
    <3>4. RecoveredFrom(lh, logblk, home) = home
      <4>1. lh \in Seq(Block) /\ home \in [Block -> Value] /\ \A j, k \in 1 .. Len(lh) : lh[j] = lh[k] => j = k
        BY Zenon DEF HeadersOK, TypeOK
      <4> QED BY ONLY <3>2, <4>1, RecoveredInstalled
    <3>5. Recovered = home
      BY <1>1, <3>2, <3>4, Zenon
    <3> QED BY <1>2, <3>1, <3>2, <3>3, <3>5, Zenon DEF Mem, Active
  <2> QED BY <1>15, <2>1, <2>2, <2>3, Zenon DEF Recover
<1>16. AS!Next \/ UNCHANGED AS!avars
  BY <1>3, <1>4, <1>5, <1>6, <1>7, <1>8, <1>9, <1>10, <1>11, <1>12, <1>13, <1>14, <1>15, Zenon
  DEF Next, CommitStep, AS!Next
<1> QED BY <1>16, Zenon

\* The log implements the atomic store (log.c:12-16, 99-101): a crash at any step,
\* one during recovery too, leaves the last commit, whole, and a commit has the
\* writes of whole operations only.
THEOREM LogIsAtomicStore == Spec => RefinesAtomicStore
<1>1. Init => AS!Init
  <2> SUFFICES ASSUME Init PROVE AS!Init
    OBVIOUS
  <2>1. Recovered = home
    <3>1. Recovered = RecoveredFrom(<<>>, logblk, home) /\ home \in [Block -> Value]
      BY LogAssumption DEF Init, Recovered, RecoveredFrom
    <3> QED BY <3>1, RecoveredEmpty, Zenon
  <2>2. home \in [Block -> Value] /\ boot = "read_head" /\ Active = {}
    BY LogAssumption, Zenon DEF Init, Active
  <2> QED BY <2>1, <2>2, Zenon DEF AS!Init
<1> QED BY <1>1, StoreStep, LogInvariant, PTL DEF Spec, RefinesAtomicStore, AS!Spec
=============================================================================
