----------------------------- MODULE RingProofs -----------------------------
(***************************************************************************)
(* The pipe and the output buffer of the UART are queues, and nobody who   *)
(* uses them sleeps over a change it waits for: for any number of          *)
(* processes, any buffer size and any width of the counters.               *)
(***************************************************************************)
EXTENDS Rings, TLAPS

-----------------------------------------------------------------------------
\* What division by a positive number is.
LEMMA DivMod ==
  ASSUME NEW b \in Nat \ {0}, NEW a \in Int
  PROVE  a = b * (a \div b) + (a % b) /\ a \div b \in Int /\ a % b \in 0 .. b - 1
OBVIOUS

\* The remainder, as a symbol whose meaning the steps below need not know.
Mod(a, b) == a % b

\* The remainder is below the divisor, and the rest a multiple of it.
LEMMA Quotient ==
  ASSUME NEW b \in Nat \ {0}, NEW a \in Int
  PROVE  Mod(a, b) \in 0 .. b - 1 /\ \E q \in Int : a = b * q + Mod(a, b)
BY DivMod DEF Mod

\* There is one remainder.
LEMMA Remainder ==
  ASSUME NEW b \in Nat \ {0}, NEW q \in Int, NEW r \in 0 .. b - 1, NEW a \in Int, a = b * q + r
  PROVE  Mod(a, b) = r
<1>1. PICK p \in Int : a = b * p + Mod(a, b)
  BY Quotient
<1>2. PICK s \in 0 .. b - 1 : s = Mod(a, b)
  BY Quotient
<1>3. b * p + s = b * q + r
  BY <1>1, <1>2
<1>4. s = r
  BY ONLY <1>3, b \in Nat \ {0}, p \in Int, q \in Int, s \in 0 .. b - 1, r \in 0 .. b - 1
<1> QED BY <1>2, <1>4

\* Numbers that differ by a multiple of b.
LEMMA SameRemainder ==
  ASSUME NEW b \in Nat \ {0}, NEW a \in Int, NEW c \in Int, NEW m \in Int, c = a + b * m
  PROVE  Mod(c, b) = Mod(a, b)
<1>1. PICK p \in Int : a = b * p + Mod(a, b)
  BY Quotient
<1>2. PICK s \in 0 .. b - 1 : s = Mod(a, b)
  BY Quotient
<1>3. PICK q \in Int : q = p + m
  OBVIOUS
<1>4. c = b * q + s
  BY <1>1, <1>2, <1>3
<1>5. PICK t \in Int : c = b * t + Mod(c, b)
  BY Quotient
<1>6. PICK u \in 0 .. b - 1 : u = Mod(c, b)
  BY Quotient
<1>7. b * t + u = b * q + s
  BY <1>4, <1>5, <1>6
<1>8. u = s
  BY ONLY <1>7, b \in Nat \ {0}, t \in Int, q \in Int, u \in 0 .. b - 1, s \in 0 .. b - 1
<1> QED BY <1>2, <1>6, <1>8

\* Numbers less than the divisor apart have different remainders.
LEMMA Apart ==
  ASSUME NEW b \in Nat \ {0}, NEW a \in Int, NEW c \in Int, a < c, c < a + b
  PROVE  Mod(a, b) # Mod(c, b)
<1> SUFFICES ASSUME Mod(a, b) = Mod(c, b) PROVE FALSE
  OBVIOUS
<1>1. PICK p \in Int : a = b * p + Mod(a, b)
  BY Quotient
<1>2. PICK q \in Int : c = b * q + Mod(a, b)
  BY Quotient
<1>3. PICK s \in 0 .. b - 1 : s = Mod(a, b)
  BY Quotient
<1>4. a = b * p + s /\ c = b * q + s
  BY <1>1, <1>2, <1>3
<1>5. p < q
  BY ONLY <1>4, a < c, b \in Nat \ {0}, p \in Int, q \in Int, s \in 0 .. b - 1
<1> QED BY ONLY <1>4, <1>5, c < a + b, b \in Nat \ {0}, p \in Int, q \in Int, s \in 0 .. b - 1

\* A counter that goes around at M, at most one round away.
LEMMA OneRound ==
  ASSUME NEW M \in Nat \ {0}, NEW a \in Int
  PROVE  /\ a \in 0 .. M - 1 => Mod(a, M) = a
         /\ a + M \in 0 .. M - 1 => Mod(a, M) = a + M
         /\ a - M \in 0 .. M - 1 => Mod(a, M) = a - M
<1>1. ASSUME NEW m \in {0, 1, -1}, NEW r \in 0 .. M - 1, a = M * m + r PROVE Mod(a, M) = r
  <2>1. m \in Int
    BY <1>1
  <2> QED BY <1>1, <2>1, Remainder, Zenon
<1>2. a = M * 0 + a /\ a = M * (-1) + (a + M) /\ a = M * 1 + (a - M)
  OBVIOUS
<1> QED BY <1>1, <1>2

-----------------------------------------------------------------------------
\* Counters r and w, that go around at a multiple M of the number N of places.
IsRing(N, M, r, w) ==
  /\ N \in Nat \ {0} /\ M \in Nat \ {0} /\ M > N /\ Mod(M, N) = 0
  /\ r \in 0 .. M - 1 /\ w \in 0 .. M - 1

\* How far w is ahead of r.
LEMMA Ahead ==
  ASSUME NEW N, NEW M, NEW r, NEW w, IsRing(N, M, r, w)
  PROVE  /\ w >= r => Mod(w - r, M) = w - r
         /\ w < r => Mod(w - r, M) = w - r + M
         /\ Mod(w - r, M) \in Nat
BY OneRound DEF IsRing

\* Incrementing a counter.
LEMMA Next1 ==
  ASSUME NEW M \in Nat \ {0}, NEW c \in 0 .. M - 1
  PROVE  Mod(c + 1, M) = IF c + 1 < M THEN c + 1 ELSE 0
BY OneRound

\* w may go one further when it is not N ahead.
LEMMA PutCounts ==
  ASSUME NEW N, NEW M, NEW r, NEW w, IsRing(N, M, r, w), Mod(w - r, M) =< N, w # Mod(r + N, M)
  PROVE  /\ Mod(w - r, M) < N
         /\ Mod(w + 1, M) \in 0 .. M - 1
         /\ Mod(Mod(w + 1, M) - r, M) = Mod(w - r, M) + 1
<1>1. (w >= r => Mod(w - r, M) = w - r) /\ (w < r => Mod(w - r, M) = w - r + M)
  BY Ahead
<1>2. Mod(r + N, M) = IF r + N < M THEN r + N ELSE r + N - M
  BY OneRound DEF IsRing
<1>3. Mod(w + 1, M) = IF w + 1 < M THEN w + 1 ELSE 0
  BY Next1 DEF IsRing
<1>4. Mod(w - r, M) < N
  BY <1>1, <1>2 DEF IsRing
<1>5. PICK v \in 0 .. M - 1 : v = Mod(w + 1, M)
  BY <1>3 DEF IsRing
<1>6. IsRing(N, M, r, v)
  BY DEF IsRing
<1>7. (v >= r => Mod(v - r, M) = v - r) /\ (v < r => Mod(v - r, M) = v - r + M)
  BY <1>6, Ahead
<1>8. Mod(v - r, M) = Mod(w - r, M) + 1
  BY <1>1, <1>3, <1>4, <1>5, <1>7 DEF IsRing
<1> QED BY <1>4, <1>5, <1>8

\* r comes one nearer to w when it has not reached it.
LEMMA GetCounts ==
  ASSUME NEW N, NEW M, NEW r, NEW w, IsRing(N, M, r, w), w # r
  PROVE  /\ Mod(w - r, M) > 0
         /\ Mod(r + 1, M) \in 0 .. M - 1
         /\ Mod(w - Mod(r + 1, M), M) = Mod(w - r, M) - 1
<1>1. (w >= r => Mod(w - r, M) = w - r) /\ (w < r => Mod(w - r, M) = w - r + M)
  BY Ahead
<1>2. Mod(r + 1, M) = IF r + 1 < M THEN r + 1 ELSE 0
  BY Next1 DEF IsRing
<1>3. PICK v \in 0 .. M - 1 : v = Mod(r + 1, M)
  BY <1>2 DEF IsRing
<1>4. IsRing(N, M, v, w)
  BY DEF IsRing
<1>5. (w >= v => Mod(w - v, M) = w - v) /\ (w < v => Mod(w - v, M) = w - v + M)
  BY <1>4, Ahead
<1>6. Mod(w - v, M) = Mod(w - r, M) - 1 /\ Mod(w - r, M) > 0
  BY <1>1, <1>2, <1>3, <1>5 DEF IsRing
<1> QED BY <1>3, <1>6

\* Going around does not change the place.
LEMMA PlaceAround ==
  ASSUME NEW N \in Nat \ {0}, NEW M \in Nat \ {0}, Mod(M, N) = 0, NEW a \in Int
  PROVE  Mod(a - M, N) = Mod(a, N)
<1>1. PICK m \in Int : M = N * m + Mod(M, N)
  <2>1. M \in Int
    OBVIOUS
  <2> QED BY <2>1, Quotient, Zenon
<1>2. a - M = a + N * (0 - m) /\ 0 - m \in Int /\ a - M \in Int
  BY <1>1
<1> QED BY <1>2, SameRemainder

\* The byte goes behind those that wait, over none of them.
LEMMA PutPlace ==
  ASSUME NEW N, NEW M, NEW r, NEW w, IsRing(N, M, r, w), NEW d \in Nat, d = Mod(w - r, M), d < N
  PROVE  /\ Mod(r + d, N) = Mod(w, N)
         /\ \A k \in 1 .. d : Mod(r + k - 1, N) # Mod(w, N)
<1>1. (w >= r => d = w - r) /\ (w < r => d = w - r + M)
  BY Ahead
<1>2. w = r + d \/ w = r + d - M
  BY <1>1 DEF IsRing
<1>3. Mod(r + d - M, N) = Mod(r + d, N)
  BY PlaceAround DEF IsRing
<1>4. Mod(r + d, N) = Mod(w, N)
  BY <1>2, <1>3
<1>5. ASSUME NEW k \in 1 .. d PROVE Mod(r + k - 1, N) # Mod(r + d, N)
  BY Apart DEF IsRing
<1> QED BY <1>4, <1>5

\* The others keep their places when the oldest one leaves.
LEMMA GetPlace ==
  ASSUME NEW N, NEW M, NEW r, NEW w, IsRing(N, M, r, w), NEW k \in Nat
  PROVE  Mod(Mod(r + 1, M) + k - 1, N) = Mod(r + k, N)
<1>1. Mod(r + 1, M) = IF r + 1 < M THEN r + 1 ELSE 0
  BY Next1 DEF IsRing
<1>2. Mod(r + k - M, N) = Mod(r + k, N)
  BY PlaceAround DEF IsRing
<1>3. Mod(r + 1, M) + k - 1 = r + k \/ Mod(r + 1, M) + k - 1 = r + k - M
  BY <1>1 DEF IsRing
<1> QED BY <1>2, <1>3

\* What waits in a ring of N places, the counters going around at M.
RingSeq(data, r, w, N, M) == [k \in 1 .. Mod(w - r, M) |-> data[Mod(r + k - 1, N)]]

Stored(data, k, b) == [data EXCEPT ![k] = b]
Contents(N, E) == [0 .. N - 1 -> E]

\* What a FIFO's Put and Get make of the sequence q.
Puts(N, q, b, qq) == Len(q) < N /\ qq = Append(q, b)
Gets(q, qq) == q # << >> /\ qq = Tail(q)

\* Storing a byte at w and going on appends it.
LEMMA RingPut ==
  ASSUME NEW N, NEW M, NEW r, NEW w, IsRing(N, M, r, w),
         Mod(w - r, M) =< N, w # Mod(r + N, M),
         NEW E, NEW data, data \in Contents(N, E), NEW b, b \in E
  PROVE  Puts(N, RingSeq(data, r, w, N, M), b, RingSeq(Stored(data, Mod(w, N), b), r, Mod(w + 1, M), N, M))
<1>1. PICK d \in Nat : d = Mod(w - r, M)
  BY Ahead
<1>2. d < N /\ Mod(Mod(w + 1, M) - r, M) = d + 1
  BY <1>1, PutCounts
<1>3. Mod(w, N) \in 0 .. N - 1 /\ \A k \in 1 .. d + 1 : Mod(r + k - 1, N) \in 0 .. N - 1
  <2>1. N \in Nat \ {0} /\ w \in Int /\ \A k \in 1 .. d + 1 : r + k - 1 \in Int
    BY DEF IsRing
  <2> QED BY <2>1, Quotient, Zenon
<1>4. Mod(r + d, N) = Mod(w, N) /\ \A k \in 1 .. d : Mod(r + k - 1, N) # Mod(w, N)
  BY <1>1, <1>2, PutPlace
<1>5. PICK f : f = [k \in 1 .. d + 1 |-> Mod(r + k - 1, N)]
  BY Zenon
<1>6. f \in [1 .. d + 1 -> 0 .. N - 1] /\ \A k \in 1 .. d : f[k] # Mod(w, N)
  BY <1>3, <1>4, <1>5
<1>7. f[d + 1] = Mod(w, N)
  <2>1. r + (d + 1) - 1 = r + d
    BY DEF IsRing
  <2> QED BY <1>4, <1>5, <2>1
<1>8. RingSeq(data, r, w, N, M) = [k \in 1 .. d |-> data[f[k]]]
  BY <1>1, <1>5 DEF RingSeq
<1>9. RingSeq(Stored(data, Mod(w, N), b), r, Mod(w + 1, M), N, M)
        = [k \in 1 .. d + 1 |-> [data EXCEPT ![Mod(w, N)] = b][f[k]]]
  BY <1>2, <1>5 DEF RingSeq, Stored
<1>10. [k \in 1 .. d |-> data[f[k]]] \in Seq(E) /\ Len([k \in 1 .. d |-> data[f[k]]]) = d
  BY ONLY <1>6, d \in Nat, data \in Contents(N, E) DEF Contents
<1>11. [k \in 1 .. d + 1 |-> [data EXCEPT ![Mod(w, N)] = b][f[k]]] = Append([k \in 1 .. d |-> data[f[k]]], b)
  BY ONLY <1>3, <1>6, <1>7, <1>10, d \in Nat, data \in Contents(N, E), b \in E DEF Contents
<1> QED BY <1>2, <1>8, <1>9, <1>10, <1>11, Zenon DEF Puts

\* Going on with r takes the oldest byte away.
LEMMA RingGet ==
  ASSUME NEW N, NEW M, NEW r, NEW w, IsRing(N, M, r, w),
         w # r, NEW E, NEW data, data \in Contents(N, E)
  PROVE  Gets(RingSeq(data, r, w, N, M), RingSeq(data, Mod(r + 1, M), w, N, M))
<1>1. PICK d \in Nat : d = Mod(w - r, M)
  BY Ahead
<1>2. d > 0 /\ Mod(w - Mod(r + 1, M), M) = d - 1
  <2>1. Mod(w - r, M) > 0 /\ Mod(w - Mod(r + 1, M), M) = Mod(w - r, M) - 1
    BY GetCounts
  <2> QED BY <1>1, <2>1
<1>3. \A k \in 1 .. d : Mod(r + k - 1, N) \in 0 .. N - 1
  <2>1. N \in Nat \ {0} /\ w \in Int /\ \A k \in 1 .. d : r + k - 1 \in Int
    BY DEF IsRing
  <2> QED BY <2>1, Quotient, Zenon
<1>4. \A k \in Nat : Mod(Mod(r + 1, M) + k - 1, N) = Mod(r + k, N)
  BY GetPlace
<1>5. PICK f : f = [k \in 1 .. d |-> Mod(r + k - 1, N)]
  BY Zenon
<1>6. f \in [1 .. d -> 0 .. N - 1]
  BY <1>3, <1>5
<1>7. \A k \in 1 .. d - 1 : f[k + 1] = Mod(r + k, N)
  <2> TAKE k \in 1 .. d - 1
  <2>1. r + (k + 1) - 1 = r + k /\ k + 1 \in 1 .. d
    BY DEF IsRing
  <2> QED BY <1>5, <2>1
<1>8. RingSeq(data, r, w, N, M) = [k \in 1 .. d |-> data[f[k]]]
  BY <1>1, <1>5 DEF RingSeq
<1>9. RingSeq(data, Mod(r + 1, M), w, N, M) = [k \in 1 .. d - 1 |-> data[f[k + 1]]]
  BY <1>2, <1>4, <1>7 DEF RingSeq
<1>10. [k \in 1 .. d |-> data[f[k]]] \in Seq(E) /\ Len([k \in 1 .. d |-> data[f[k]]]) = d
  BY ONLY <1>6, d \in Nat, data \in Contents(N, E) DEF Contents
<1>11. [k \in 1 .. d - 1 |-> data[f[k + 1]]] = Tail([k \in 1 .. d |-> data[f[k]]])
  BY ONLY <1>2, <1>6, <1>10, d \in Nat, data \in Contents(N, E) DEF Contents
<1>12. [k \in 1 .. d |-> data[f[k]]] # << >>
  BY <1>2, <1>10
<1> QED BY <1>8, <1>9, <1>11, <1>12, Zenon DEF Gets

-----------------------------------------------------------------------------
\* The pipe.  A process between acquire and release has the lock; one that has
\* decided to sleep finds the pipe as it was when it decided.
PipeLocks ==
  \A p \in P!Proc :
    /\ pi.lock = p <=> pth[p].pc \in {"loop", "test", "copy"}
    /\ pth[p].pc = "copy" => p \in Reader
    /\ pth[p].pc = "test" /\ p \in Reader => P!Empty /\ pi.writeopen = TRUE
    /\ pth[p].pc = "test" /\ p \in Writer => pi.readopen = TRUE

Shut(p) == pth[p].pc \in {"closed", "free"}

\* The ends are marked closed after the last of their users has closed them, one
\* at most is about to, and the one that frees the page is the last of all.
PipeEnds ==
  /\ pi.readopen = FALSE => \A p \in Reader : Shut(p)
  /\ pi.writeopen = FALSE => \A p \in Writer : Shut(p)
  /\ \A p, q \in Reader : pth[p].pc = "close" /\ q # p => pth[q].pc = "closed"
  /\ \A p, q \in Writer : pth[p].pc = "close" /\ q # p => pth[q].pc = "closed"
  /\ \A p \in P!Proc : pth[p].pc = "free" =>
       /\ pi.readopen = FALSE /\ pi.writeopen = FALSE
       /\ \A q \in P!Proc : q # p => pth[q].pc = "closed"
  /\ pi.freed = TRUE => \A p \in P!Proc : pth[p].pc = "closed"

\* Who sleeps has nothing to do yet, or somebody who has the lock is going to
\* wake it; or a writer was killed.
PipeSleepers ==
  /\ \A p \in Writer : pth[p].pc = "asleep" =>
       pi.readopen = TRUE /\ (P!Full \/ \E q \in Reader : pth[q].pc = "copy")
  /\ \A p \in Reader : pth[p].pc = "asleep" =>
       /\ pi.writeopen = TRUE
       /\ \/ P!Empty
          \/ \E q \in Writer : pth[q].killed = TRUE
          \/ \E q \in Writer : pth[q].pc \in {"loop", "test"}

PipeRoom == (pi.nwrite - pi.nread) % UINT =< PIPESIZE

PipeInv == P!TypeOK /\ PipeLocks /\ PipeEnds /\ PipeSleepers /\ PipeRoom

-----------------------------------------------------------------------------
\* pipealloc leaves an empty pipe with both ends open.
LEMMA PipeInit == P!Init => PipeInv
<1> SUFFICES ASSUME P!Init PROVE PipeInv
  OBVIOUS
<1>1. PICK b \in Byte : /\ pi = [data |-> [k \in 0 .. PIPESIZE - 1 |-> b], nread |-> 0, nwrite |-> 0,
                                 readopen |-> TRUE, writeopen |-> TRUE, lock |-> NoProc, freed |-> FALSE]
                        /\ pth = [p \in P!Proc |-> [pc |-> "user", n |-> 0, i |-> 0, killed |-> FALSE]]
  BY PipeAssumption, Zenon DEF P!Init
<1>2. P!TypeOK
  BY <1>1, PipeAssumption DEF P!TypeOK, P!OpPC
<1>3. PipeLocks
  BY <1>1, PipeAssumption DEF PipeLocks, P!Proc
<1>4. PipeEnds
  BY <1>1 DEF PipeEnds, P!Proc
<1>5. PipeSleepers
  BY <1>1 DEF PipeSleepers, P!Proc
<1>6. PipeRoom
  BY <1>1, PipeAssumption, OneRound DEF PipeRoom, Mod
<1> QED BY <1>2, <1>3, <1>4, <1>5, <1>6 DEF PipeInv

Holding == {"loop", "test", "copy"}
Closing == {"close", "closed", "free"}

\* A step of p to l that wakes the members of S and leaves the bytes and the ends.
PipeMove(p, S, l) ==
  /\ P!TypeOK'
  /\ pi'.data = pi.data /\ pi'.nread = pi.nread /\ pi'.nwrite = pi.nwrite
  /\ pi'.readopen = pi.readopen /\ pi'.writeopen = pi.writeopen /\ pi'.freed = pi.freed
  /\ \A q \in P!Proc :
       /\ pth'[q].pc = IF q = p THEN l ELSE IF q \in S /\ pth[q].pc = "asleep" THEN "acquire" ELSE pth[q].pc
       /\ pth[q].killed = TRUE => pth'[q].killed = TRUE
  /\ l \in Closing \/ pth[p].pc \in Closing => l = pth[p].pc
  /\ l \in Holding => pi.lock \in {NoProc, p}
  /\ pi'.lock = IF l \in Holding THEN p ELSE IF pth[p].pc \in Holding THEN NoProc ELSE pi.lock
  /\ l = "copy" => p \in Reader
  /\ l = "test" /\ p \in Reader => P!Empty /\ pi.writeopen = TRUE
  /\ l = "test" /\ p \in Writer => pi.readopen = TRUE
  /\ l = "asleep" /\ p \in Reader => P!Empty /\ pi.writeopen = TRUE
  /\ l = "asleep" /\ p \in Writer => P!Full /\ pi.readopen = TRUE
  /\ pth[p].pc = "copy" => l = "copy" \/ Writer \subseteq S
  /\ pth[p].pc \in {"loop", "test"} /\ p \in Writer =>
       l \in {"loop", "test"} \/ Reader \subseteq S \/ pth[p].killed = TRUE \/ pi.readopen = FALSE

\* Such steps keep the invariant.
LEMMA PipeMoveInv ==
  ASSUME PipeInv, NEW p \in P!Proc, NEW S, NEW l, PipeMove(p, S, l)
  PROVE  PipeInv'
<1> USE DEF PipeInv
<1>1. P!TypeOK'
  BY DEF PipeMove
<1>2. P!Empty' = P!Empty /\ P!Full' = P!Full
  BY DEF PipeMove, P!Empty, P!Full
<1>3. PipeLocks'
  BY <1>2, PipeAssumption DEF PipeMove, PipeLocks, Holding, P!Proc
<1>4. PipeEnds'
  BY DEF PipeMove, PipeEnds, Shut, Closing, P!Proc
<1>5. PipeSleepers'
  BY <1>2 DEF PipeMove, PipeSleepers, PipeLocks, PipeEnds, Shut, Holding, P!Proc
<1>6. PipeRoom'
  BY DEF PipeMove, PipeRoom
<1> QED BY <1>1, <1>3, <1>4, <1>5, <1>6

PipeThread == [pc : {"user", "closed", "close", "free"} \cup P!OpPC, n : Asked \cup {0}, i : Nat, killed : BOOLEAN]

\* What Goto does.
LEMMA PipeGoto ==
  ASSUME P!TypeOK, NEW p \in P!Proc, NEW l \in {"user", "closed", "close", "free"} \cup P!OpPC, P!Goto(p, l)
  PROVE  /\ pth' \in [P!Proc -> PipeThread]
         /\ \A q \in P!Proc : /\ pth'[q].pc = IF q = p THEN l ELSE pth[q].pc
                              /\ pth'[q].killed = pth[q].killed
<1>1. pth \in [P!Proc -> PipeThread] /\ pth' = [pth EXCEPT ![p].pc = l]
  BY Zenon DEF P!TypeOK, PipeThread, P!Goto
<1> QED BY ONLY <1>1, p \in P!Proc, l \in {"user", "closed", "close", "free"} \cup P!OpPC DEF PipeThread

\* What wakeup does.
LEMMA PipeWoken ==
  ASSUME P!TypeOK, NEW S
  PROVE  /\ P!Woken(S) \in [P!Proc -> PipeThread]
         /\ \A q \in P!Proc : /\ P!Woken(S)[q].pc = IF q \in S /\ pth[q].pc = "asleep" THEN "acquire" ELSE pth[q].pc
                              /\ P!Woken(S)[q].killed = pth[q].killed
                              /\ P!Woken(S)[q].n = pth[q].n
                              /\ P!Woken(S)[q].i = pth[q].i
<1>1. ASSUME NEW q \in P!Proc
      PROVE  /\ P!Woken(S)[q] \in PipeThread
             /\ P!Woken(S)[q].pc = IF q \in S /\ pth[q].pc = "asleep" THEN "acquire" ELSE pth[q].pc
             /\ P!Woken(S)[q].killed = pth[q].killed /\ P!Woken(S)[q].n = pth[q].n /\ P!Woken(S)[q].i = pth[q].i
  <2>1. P!Woken(S)[q] = IF q \in S /\ pth[q].pc = "asleep" THEN [pth[q] EXCEPT !.pc = "acquire"] ELSE pth[q]
    BY <1>1 DEF P!Woken, P!At
  <2>2. pth[q] \in PipeThread /\ "acquire" \in P!OpPC
    BY <1>1 DEF P!TypeOK, P!OpPC, PipeThread
  <2> QED BY <2>1, <2>2 DEF PipeThread
<1>2. P!Woken(S) = [q \in P!Proc |-> P!Woken(S)[q]]
  BY DEF P!Woken
<1> QED BY <1>1, <1>2

\* A call of read or write.
LEMMA PipeCall ==
  ASSUME PipeInv, NEW p \in P!Proc, NEW n \in Asked, P!Call(p, n)
  PROVE  PipeMove(p, {}, "acquire")
<1>1. P!TypeOK'
  <2>1. pth \in [P!Proc -> PipeThread] /\ pth' = [pth EXCEPT ![p].pc = "acquire", ![p].n = n] /\ pi' = pi
    BY Zenon DEF PipeInv, P!TypeOK, PipeThread, P!Call
  <2>2. "acquire" \in P!OpPC
    BY DEF P!OpPC
  <2>3. pth' \in [P!Proc -> PipeThread]
    BY ONLY <2>1, <2>2, p \in P!Proc, n \in Asked, Zenon DEF PipeThread
  <2> QED BY <2>1, <2>3, Zenon DEF PipeInv, P!TypeOK, PipeThread
<1>2. pth[p].pc = "user" /\ pi' = pi
  BY DEF P!Call, P!At
<1>3. \A q \in P!Proc : /\ pth'[q].pc = IF q = p THEN "acquire" ELSE pth[q].pc
                        /\ pth'[q].killed = pth[q].killed
  BY DEF P!Call, PipeInv, P!TypeOK
<1> QED BY <1>1, <1>2, <1>3 DEF PipeMove, Holding, Closing

\* acquire(&pi->lock).
LEMMA PipeAcquire ==
  ASSUME PipeInv, NEW p \in P!Proc, P!Acquire(p)
  PROVE  PipeMove(p, {}, "loop")
<1>1. pth' \in [P!Proc -> PipeThread] /\ \A q \in P!Proc : /\ pth'[q].pc = IF q = p THEN "loop" ELSE pth[q].pc
                                                           /\ pth'[q].killed = pth[q].killed
  <2>1. P!TypeOK /\ P!Goto(p, "loop") /\ "loop" \in {"user", "closed", "close", "free"} \cup P!OpPC
    BY Zenon DEF PipeInv, P!Acquire, P!OpPC
  <2> QED BY <2>1, PipeGoto, Zenon
<1>2. pth[p].pc = "acquire" /\ pi.lock = NoProc /\ pi' = [pi EXCEPT !.lock = p] /\ pi'.lock = p
  BY DEF P!Acquire, P!At, PipeInv, P!TypeOK
<1>3. P!TypeOK'
  BY <1>1, <1>2, Zenon DEF PipeInv, P!TypeOK, PipeThread
<1> QED BY <1>1, <1>2, <1>3, Zenon DEF PipeMove, Holding, Closing, PipeInv, P!TypeOK

\* Giving up the lock on the way to l.
LEMMA PipeLeave ==
  ASSUME PipeInv, NEW p \in P!Proc, NEW S, NEW l \in {"user", "asleep"},
         P!Leave(p, S, l) \/ (l = "asleep" /\ P!Sleep(p, S)),
         pth[p].pc \in Holding,
         l = "asleep" /\ p \in Reader => P!Empty /\ pi.writeopen = TRUE,
         l = "asleep" /\ p \in Writer => P!Full /\ pi.readopen = TRUE,
         pth[p].pc = "copy" => Writer \subseteq S,
         p \in Writer => Reader \subseteq S \/ pth[p].killed = TRUE \/ pi.readopen = FALSE
  PROVE  PipeMove(p, S, l)
<1>1. pi' = [pi EXCEPT !.lock = NoProc] /\ pi'.lock = NoProc
  BY DEF P!Leave, P!Sleep, PipeInv, P!TypeOK
<1>2. PICK W : W = P!Woken(S)
  OBVIOUS
<1>3. /\ W \in [P!Proc -> PipeThread]
      /\ \A q \in P!Proc : /\ W[q].pc = IF q \in S /\ pth[q].pc = "asleep" THEN "acquire" ELSE pth[q].pc
                           /\ W[q].killed = pth[q].killed
  BY <1>2, PipeWoken DEF PipeInv
<1>4. pth' = [W EXCEPT ![p].pc = l, ![p].n = 0, ![p].i = 0] \/ pth' = [W EXCEPT ![p].pc = l]
  BY <1>2 DEF P!Leave, P!Sleep
<1>5. l \in {"user", "closed", "close", "free"} \cup P!OpPC /\ 0 \in Asked \cup {0} /\ 0 \in Nat
  BY DEF P!OpPC
<1>6. pth' \in [P!Proc -> PipeThread]
  BY ONLY <1>3, <1>4, <1>5, p \in P!Proc DEF PipeThread
<1>7. \A q \in P!Proc :
        /\ pth'[q].pc = IF q = p THEN l ELSE IF q \in S /\ pth[q].pc = "asleep" THEN "acquire" ELSE pth[q].pc
        /\ pth'[q].killed = pth[q].killed
  BY ONLY <1>3, <1>4, p \in P!Proc DEF PipeThread
<1>8. P!TypeOK'
  BY <1>1, <1>6, Zenon DEF PipeInv, P!TypeOK, PipeThread
<1> QED BY <1>1, <1>7, <1>8, Zenon DEF PipeMove, Holding, Closing, PipeInv, P!TypeOK

\* Going on with the lock.
LEMMA PipeStay ==
  ASSUME PipeInv, NEW p \in P!Proc, NEW l \in {"test", "copy"},
         P!Goto(p, l), UNCHANGED pi, pth[p].pc = "loop",
         l = "copy" => p \in Reader,
         p \in Reader /\ l = "test" => P!Empty /\ pi.writeopen = TRUE,
         p \in Writer => pi.readopen = TRUE
  PROVE  PipeMove(p, {}, l)
<1>1. pth' \in [P!Proc -> PipeThread] /\ \A q \in P!Proc : /\ pth'[q].pc = IF q = p THEN l ELSE pth[q].pc
                                                           /\ pth'[q].killed = pth[q].killed
  <2>1. P!TypeOK /\ l \in {"user", "closed", "close", "free"} \cup P!OpPC
    BY Zenon DEF PipeInv, P!OpPC
  <2> QED BY <2>1, PipeGoto, Zenon
<1>2. pi.lock = p
  BY DEF PipeInv, PipeLocks
<1>3. P!TypeOK'
  BY <1>1, Zenon DEF PipeInv, P!TypeOK, PipeThread
<1>4. p \in Writer => l = "test"
  BY PipeAssumption
<1> QED BY <1>1, <1>2, <1>3, <1>4 DEF PipeMove, Holding, Closing

\* pipewrite's and piperead's steps that move no byte.
LEMMA PipeWriteLoop ==
  ASSUME PipeInv, NEW p \in P!Proc, P!WriteLoop(p)
  PROVE  \E S, l : PipeMove(p, S, l)
<1>1. p \in Writer /\ p \notin Reader /\ pth[p].pc = "loop"
  BY PipeAssumption DEF P!WriteLoop, P!At
<1>2. pth[p].pc \in Holding
  BY <1>1 DEF Holding
<1>3. CASE P!Leave(p, Reader, "user")
  BY <1>1, <1>2, <1>3, PipeLeave, Zenon
<1>4. CASE (~ pi.readopen \/ pth[p].killed) /\ P!Leave(p, {}, "user")
  <2>1. pth[p].killed = TRUE \/ pi.readopen = FALSE
    BY <1>4 DEF PipeInv, P!TypeOK
  <2> QED BY <1>1, <1>2, <1>4, <2>1, PipeLeave, Zenon
<1>5. CASE pi.readopen /\ P!Goto(p, "test") /\ UNCHANGED pi
  <2>1. pi.readopen = TRUE
    BY <1>5 DEF PipeInv, P!TypeOK
  <2> QED BY <1>1, <1>5, <2>1, PipeStay, Zenon
<1> QED BY <1>3, <1>4, <1>5 DEF P!WriteLoop, P!WriteWakes

\* piperead's tests.
LEMMA PipeReadLoop ==
  ASSUME PipeInv, NEW p \in P!Proc, P!ReadLoop(p)
  PROVE  \E S, l : PipeMove(p, S, l)
<1>1. p \in Reader /\ p \notin Writer /\ pth[p].pc = "loop" /\ pi.writeopen \in BOOLEAN
  BY PipeAssumption DEF P!ReadLoop, P!At, PipeInv, P!TypeOK
<1>2. pth[p].pc \in Holding
  BY <1>1 DEF Holding
<1>3. CASE P!Leave(p, {}, "user")
  BY <1>1, <1>2, <1>3, PipeLeave, Zenon
<1>4. CASE P!Empty /\ pi.writeopen /\ P!Goto(p, "test") /\ UNCHANGED pi
  BY <1>1, <1>4, PipeStay, Zenon
<1>5. CASE P!Goto(p, "copy") /\ UNCHANGED pi
  BY <1>1, <1>5, PipeStay, Zenon
<1> QED BY <1>3, <1>4, <1>5 DEF P!ReadLoop

\* piperead sleeps on what it has just seen empty.
LEMMA PipeReadSleep ==
  ASSUME PipeInv, NEW p \in P!Proc, P!ReadSleep(p)
  PROVE  \E S, l : PipeMove(p, S, l)
<1>1. p \in Reader /\ p \notin Writer /\ pth[p].pc = "test" /\ P!Sleep(p, {})
  BY PipeAssumption DEF P!ReadSleep, P!At
<1>2. pth[p].pc \in Holding /\ P!Empty /\ pi.writeopen = TRUE
  BY <1>1 DEF Holding, PipeInv, PipeLocks
<1> QED BY <1>1, <1>2, PipeLeave, Zenon

\* piperead wakes the writers when it is done.
LEMMA PipeReadDone ==
  ASSUME PipeInv, NEW p \in P!Proc, P!ReadDone(p)
  PROVE  \E S, l : PipeMove(p, S, l)
<1>1. p \in Reader /\ p \notin Writer /\ pth[p].pc = "copy" /\ P!Leave(p, Writer, "user")
  BY PipeAssumption DEF P!ReadDone, P!At, P!ReadWakes
<1>2. pth[p].pc \in Holding
  BY <1>1 DEF Holding
<1> QED BY <1>1, <1>2, PipeLeave, Zenon

\* pipewrite sleeps on a full pipe, or cannot read its next byte.
LEMMA PipeWriteGivesUp ==
  ASSUME PipeInv, NEW p \in P!Proc, p \in Writer, P!At(p, "test"),
         (P!Full /\ P!Sleep(p, P!WriteWakes)) \/ P!Leave(p, P!WriteWakes, "user")
  PROVE  \E S, l : PipeMove(p, S, l)
<1>1. p \notin Reader /\ pth[p].pc = "test"
  BY PipeAssumption DEF P!At
<1>2. pth[p].pc \in Holding /\ pi.readopen = TRUE
  BY <1>1 DEF Holding, PipeInv, PipeLocks
<1>3. CASE P!Full /\ P!Sleep(p, Reader)
  BY <1>1, <1>2, <1>3, PipeLeave, Zenon
<1>4. CASE P!Leave(p, Reader, "user")
  BY <1>1, <1>2, <1>4, PipeLeave, Zenon
<1> QED BY <1>3, <1>4 DEF P!WriteWakes

\* kill wakes its victim.
LEMMA PipeKill ==
  ASSUME PipeInv, NEW p \in P!Proc, P!Kill(p)
  PROVE  \E S, l : PipeMove(p, S, l)
<1>1. PICK W : W = P!Woken({p})
  OBVIOUS
<1>2. /\ W \in [P!Proc -> PipeThread]
      /\ \A q \in P!Proc : /\ W[q].pc = IF q \in {p} /\ pth[q].pc = "asleep" THEN "acquire" ELSE pth[q].pc
                           /\ W[q].killed = pth[q].killed
  BY <1>1, PipeWoken DEF PipeInv
<1>3. pi' = pi /\ pth' = [W EXCEPT ![p].killed = TRUE]
  BY <1>1 DEF P!Kill
<1>4. PICK l : l = IF pth[p].pc = "asleep" THEN "acquire" ELSE pth[p].pc
  OBVIOUS
<1>5. pth' \in [P!Proc -> PipeThread]
  BY ONLY <1>2, <1>3, p \in P!Proc, Zenon DEF PipeThread
<1>6. \A q \in P!Proc : /\ pth'[q].pc = IF q = p THEN l ELSE pth[q].pc
                        /\ pth[q].killed = TRUE => pth'[q].killed = TRUE
  BY ONLY <1>2, <1>3, <1>4, p \in P!Proc DEF PipeThread
<1>7. P!TypeOK'
  BY <1>3, <1>5, Zenon DEF PipeInv, P!TypeOK, PipeThread
<1>8. PipeMove(p, {}, l)
  BY <1>3, <1>4, <1>6, <1>7 DEF PipeMove, PipeInv, PipeLocks, Holding, Closing
<1> QED BY <1>8


\* The queue is the ring of RingPut and RingGet.
PipeRing == IsRing(PIPESIZE, UINT, pi.nread, pi.nwrite)

\* Its counters are those of a ring.
LEMMA PipeIsRing ==
  ASSUME PipeInv
  PROVE  /\ PipeRing
         /\ pi.data \in [0 .. PIPESIZE - 1 -> Byte]
         /\ Mod(pi.nwrite - pi.nread, UINT) =< PIPESIZE
         /\ P!Queue = RingSeq(pi.data, pi.nread, pi.nwrite, PIPESIZE, UINT)
         /\ P!Full <=> pi.nwrite = Mod(pi.nread + PIPESIZE, UINT)
<1>1. pi.nread \in 0 .. UINT - 1 /\ pi.nwrite \in 0 .. UINT - 1 /\ pi.data \in [0 .. PIPESIZE - 1 -> Byte]
  BY DEF PipeInv, P!TypeOK
<1>2. PipeRing
  BY <1>1, PipeAssumption DEF PipeRing, IsRing, Mod
<1>3. P!Queue = RingSeq(pi.data, pi.nread, pi.nwrite, PIPESIZE, UINT)
  BY Zenon DEF P!Queue, RingSeq, Mod
<1> QED BY <1>1, <1>2, <1>3, Zenon DEF Mod, PipeInv, PipeRoom, P!Full

\* A step of p, who has the lock, that puts a byte or takes one.
PipeByte(p, S, l) ==
  /\ P!TypeOK' /\ PipeRoom'
  /\ pi'.readopen = pi.readopen /\ pi'.writeopen = pi.writeopen /\ pi'.freed = pi.freed
  /\ \A q \in P!Proc :
       /\ pth'[q].pc = IF q = p THEN l ELSE IF q \in S /\ pth[q].pc = "asleep" THEN "acquire" ELSE pth[q].pc
       /\ pth'[q].killed = pth[q].killed
  /\ pi.lock = p
  /\ pi'.lock = IF l = "user" THEN NoProc ELSE p
  /\ \/ p \in Writer /\ pth[p].pc = "test" /\ ~ P!Full /\ l = "loop"
     \/ p \in Reader /\ pth[p].pc = "copy" /\ ~ P!Empty /\ (l = "copy" \/ (l = "user" /\ S = Writer))

\* Such steps keep the invariant.
LEMMA PipeByteInv ==
  ASSUME PipeInv, NEW p \in P!Proc, NEW S, NEW l, PipeByte(p, S, l)
  PROVE  PipeInv'
<1>1. P!TypeOK' /\ PipeRoom'
  BY DEF PipeByte
<1>2. PipeLocks'
  BY PipeAssumption DEF PipeInv, PipeByte, PipeLocks, P!Proc
<1>3. PipeEnds'
  BY DEF PipeInv, PipeByte, PipeEnds, Shut, P!Proc
<1>4. PipeSleepers'
  BY DEF PipeInv, PipeByte, PipeSleepers, PipeLocks, P!Proc
<1> QED BY <1>1, <1>2, <1>3, <1>4 DEF PipeInv

PipePC == {"user", "closed", "close", "free"} \cup P!OpPC
PipeAsked == Asked \cup {0}
PipeThreads == [P!Proc -> PipeThread]
Moved(W, p, l) ==
  /\ pth' \in PipeThreads
  /\ \A q \in P!Proc : pth'[q].pc = (IF q = p THEN l ELSE W[q].pc) /\ pth'[q].killed = W[q].killed
Rewrites(W, p, l, n, i) == pth' = [W EXCEPT ![p].pc = l, ![p].n = n, ![p].i = i]

\* Rewriting one process.
LEMMA PipeSet ==
  ASSUME NEW W, W \in PipeThreads, NEW p, p \in P!Proc, NEW n, n \in PipeAsked, NEW i, i \in Nat,
         NEW l, l \in PipePC,
         Rewrites(W, p, l, n, i)
  PROVE  Moved(W, p, l)
BY ZenonT(30) DEF Moved, PipeThread, PipeThreads, PipePC, PipeAsked, Rewrites

\* pipewrite puts a byte.
LEMMA PipePut ==
  ASSUME PipeInv, NEW p \in Writer, pth[p].pc = "test", ~ P!Full, NEW b \in Byte,
         pi' = [pi EXCEPT !.data[pi.nwrite % PIPESIZE] = b, !.nwrite = P!Inc(@)],
         pth' = [pth EXCEPT ![p].i = @ + 1, ![p].pc = "loop"]
  PROVE  PipeInv' /\ PipeFifo!Put(b)
<1>1. p \in P!Proc /\ pi.lock = p /\ pth \in PipeThreads
  BY Zenon DEF P!Proc, PipeInv, PipeLocks, P!TypeOK, PipeThread, PipeThreads
<1>2. /\ pi'.data = [pi.data EXCEPT ![Mod(pi.nwrite, PIPESIZE)] = b]
      /\ pi'.nwrite = Mod(pi.nwrite + 1, UINT)
      /\ pi'.nread = pi.nread /\ pi'.readopen = pi.readopen /\ pi'.writeopen = pi.writeopen
      /\ pi'.lock = pi.lock /\ pi'.freed = pi.freed
  BY DEF PipeInv, P!TypeOK, P!Inc, Mod
<1>3. PICK r, w, data : r = pi.nread /\ w = pi.nwrite /\ data = pi.data
  OBVIOUS
<1>4. /\ IsRing(PIPESIZE, UINT, r, w) /\ Mod(w - r, UINT) =< PIPESIZE /\ w # Mod(r + PIPESIZE, UINT)
      /\ data \in Contents(PIPESIZE, Byte)
      /\ P!Queue = RingSeq(data, r, w, PIPESIZE, UINT)
  BY <1>3, PipeIsRing, Zenon DEF PipeRing, Contents
<1>5. /\ Mod(w - r, UINT) < PIPESIZE
      /\ Mod(w + 1, UINT) \in 0 .. UINT - 1
      /\ Mod(Mod(w + 1, UINT) - r, UINT) = Mod(w - r, UINT) + 1
  BY ONLY <1>4, PutCounts
<1>6. PipeRoom'
  <2>1. Mod(w - r, UINT) \in Nat
    BY ONLY <1>4, Ahead
  <2>2. Mod(w - r, UINT) + 1 =< PIPESIZE
    BY ONLY <1>5, <2>1, PipeAssumption
  <2> QED BY <1>2, <1>3, <1>5, <2>2, Zenon DEF PipeRoom, Mod
<1>7. PICK i \in Nat, n \in PipeAsked : i = pth[p].i + 1 /\ n = pth[p].n
  BY ONLY <1>1 DEF PipeThread, PipeThreads, PipeAsked
<1>8. Rewrites(pth, p, "loop", n, i)
  BY ONLY <1>1, <1>7, pth' = [pth EXCEPT ![p].i = @ + 1, ![p].pc = "loop"], Zenon DEF PipeThread, PipeThreads, Rewrites
<1>9. "loop" \in PipePC
  BY DEF P!OpPC, PipePC
<1>10. Moved(pth, p, "loop")
  BY ONLY <1>1, <1>8, <1>9, PipeSet, i \in Nat, n \in PipeAsked, Zenon
<1>11. P!TypeOK'
  <2>1. P!Inc(pi.nwrite) \in 0 .. UINT - 1
    BY <1>3, <1>5, Zenon DEF P!Inc, Mod
  <2>2. pi' \in [data : [0 .. PIPESIZE - 1 -> Byte], nread : 0 .. UINT - 1, nwrite : 0 .. UINT - 1,
             readopen : BOOLEAN, writeopen : BOOLEAN, lock : P!Proc \cup {NoProc}, freed : BOOLEAN]
    BY <2>1, Zenon DEF PipeInv, P!TypeOK
  <2> QED BY <1>10, <2>2, Zenon DEF Moved, P!TypeOK, PipeThread, PipeThreads
<1>12. PipeByte(p, {}, "loop")
  <2>1. \A q \in P!Proc :
          /\ pth'[q].pc = IF q = p THEN "loop" ELSE IF q \in {} /\ pth[q].pc = "asleep" THEN "acquire" ELSE pth[q].pc
          /\ pth'[q].killed = pth[q].killed
    BY <1>10, Zenon DEF Moved
  <2> QED BY <1>1, <1>2, <1>6, <1>11, <2>1, Zenon DEF PipeByte
<1>13. Puts(PIPESIZE, RingSeq(data, r, w, PIPESIZE, UINT), b,
            RingSeq(Stored(data, Mod(w, PIPESIZE), b), r, Mod(w + 1, UINT), PIPESIZE, UINT))
  BY ONLY <1>4, RingPut, b \in Byte, Zenon
<1>14. P!Queue' = RingSeq(pi'.data, pi'.nread, pi'.nwrite, PIPESIZE, UINT)
  BY Zenon DEF P!Queue, RingSeq, Mod
<1> QED BY <1>1, <1>2, <1>3, <1>4, <1>12, <1>13, <1>14, PipeByteInv, Zenon DEF PipeFifo!Put, Puts, Stored

\* piperead takes a byte, and leaves when copyout fails.
LEMMA PipeGet ==
  ASSUME PipeInv, NEW p \in Reader, P!ReadByte(p)
  PROVE  PipeInv' /\ PipeFifo!Get
<1>1. /\ p \in P!Proc /\ pth[p].pc = "copy" /\ pi.lock = p /\ ~ P!Empty
      /\ pth \in PipeThreads
  BY Zenon DEF P!Proc, PipeInv, PipeLocks, P!ReadByte, P!At, P!TypeOK, PipeThread, PipeThreads
<1>2. PICK l \in {"copy", "user"}, n \in {pth[p].n, 0}, i \in {pth[p].i + 1, 0}, S \in {{}, Writer} :
        /\ l = "user" => S = Writer
        /\ pi' = [pi EXCEPT !.nread = P!Inc(@), !.lock = IF l = "user" THEN NoProc ELSE p]
        /\ pth' = [P!Woken(S) EXCEPT ![p].pc = l, ![p].n = n, ![p].i = i]
  <2>1. P!Woken({}) = pth
    BY ONLY <1>1, Zenon DEF P!Woken, PipeThreads
  <2>2. CASE /\ pi' = [pi EXCEPT !.nread = P!Inc(@)]
             /\ pth' = [pth EXCEPT ![p].i = @ + 1]
    <3>1. pi' = [pi EXCEPT !.nread = P!Inc(@), !.lock = p]
      BY <1>1, <2>2, Zenon DEF PipeInv, P!TypeOK
    <3>2. pth' = [pth EXCEPT ![p].pc = "copy", ![p].n = pth[p].n, ![p].i = pth[p].i + 1]
      BY ONLY <1>1, <2>2, Zenon DEF PipeThread, PipeThreads
    <3> QED BY <2>1, <3>1, <3>2, Zenon
  <2>3. CASE /\ pi' = [pi EXCEPT !.nread = P!Inc(@), !.lock = NoProc]
             /\ pth' = [P!Woken(Writer) EXCEPT ![p].pc = "user", ![p].n = 0, ![p].i = 0]
    BY <2>3, Zenon
  <2> QED BY <2>2, <2>3, Zenon DEF P!ReadByte, P!ReadWakes
<1>3. /\ pi'.data = pi.data
      /\ pi'.nread = Mod(pi.nread + 1, UINT)
      /\ pi'.nwrite = pi.nwrite /\ pi'.readopen = pi.readopen /\ pi'.writeopen = pi.writeopen
      /\ pi'.lock = (IF l = "user" THEN NoProc ELSE p) /\ pi'.freed = pi.freed
  BY <1>2 DEF PipeInv, P!TypeOK, P!Inc, Mod
<1>4. PICK r, w, data : r = pi.nread /\ w = pi.nwrite /\ data = pi.data
  OBVIOUS
<1>5. /\ IsRing(PIPESIZE, UINT, r, w) /\ Mod(w - r, UINT) =< PIPESIZE /\ w # r
      /\ data \in Contents(PIPESIZE, Byte)
      /\ P!Queue = RingSeq(data, r, w, PIPESIZE, UINT)
  BY <1>1, <1>4, PipeIsRing, Zenon DEF PipeRing, P!Empty, Contents
<1>6. /\ Mod(r + 1, UINT) \in 0 .. UINT - 1
      /\ Mod(w - Mod(r + 1, UINT), UINT) = Mod(w - r, UINT) - 1
  BY ONLY <1>5, GetCounts
<1>7. PipeRoom'
  <2>1. Mod(w - r, UINT) \in Nat
    BY ONLY <1>5, Ahead
  <2>2. Mod(w - r, UINT) - 1 =< PIPESIZE
    BY ONLY <1>5, <2>1, PipeAssumption
  <2> QED BY <1>3, <1>4, <1>6, <2>2, Zenon DEF PipeRoom, Mod
<1>8. PICK W : W = P!Woken(S)
  OBVIOUS
<1>9. /\ W \in PipeThreads
      /\ \A q \in P!Proc : /\ W[q].pc = IF q \in S /\ pth[q].pc = "asleep" THEN "acquire" ELSE pth[q].pc
                           /\ W[q].killed = pth[q].killed
  BY <1>8, PipeWoken, Zenon DEF PipeInv, PipeThreads
<1>10. Rewrites(W, p, l, n, i)
  BY <1>2, <1>8, Zenon DEF Rewrites
<1>11. l \in PipePC /\ n \in PipeAsked /\ i \in Nat
  <2>1. pth[p].n \in PipeAsked /\ pth[p].i + 1 \in Nat
    BY ONLY <1>1 DEF PipeThread, PipeThreads, PipeAsked
  <2> QED BY <1>2, <2>1 DEF P!OpPC, PipePC, PipeAsked
<1>12. Moved(W, p, l)
  BY ONLY <1>1, <1>9, <1>10, <1>11, PipeSet, Zenon
<1>13. P!TypeOK'
  <2>1. P!Inc(pi.nread) \in 0 .. UINT - 1 /\ (IF l = "user" THEN NoProc ELSE p) \in P!Proc \cup {NoProc}
    BY <1>1, <1>4, <1>6, Zenon DEF P!Inc, Mod
  <2>2. pi' \in [data : [0 .. PIPESIZE - 1 -> Byte], nread : 0 .. UINT - 1, nwrite : 0 .. UINT - 1,
             readopen : BOOLEAN, writeopen : BOOLEAN, lock : P!Proc \cup {NoProc}, freed : BOOLEAN]
    BY <1>2, <2>1, Zenon DEF PipeInv, P!TypeOK
  <2> QED BY <1>12, <2>2, Zenon DEF Moved, P!TypeOK, PipeThread, PipeThreads
<1>14. PipeByte(p, S, l)
  <2>1. \A q \in P!Proc :
          /\ pth'[q].pc = IF q = p THEN l ELSE IF q \in S /\ pth[q].pc = "asleep" THEN "acquire" ELSE pth[q].pc
          /\ pth'[q].killed = pth[q].killed
    BY <1>9, <1>12, Zenon DEF Moved
  <2> QED BY <1>1, <1>2, <1>3, <1>7, <1>13, <2>1, Zenon DEF PipeByte
<1>15. Gets(RingSeq(data, r, w, PIPESIZE, UINT), RingSeq(data, Mod(r + 1, UINT), w, PIPESIZE, UINT))
  BY ONLY <1>5, RingGet, Zenon
<1>16. P!Queue' = RingSeq(pi'.data, pi'.nread, pi'.nwrite, PIPESIZE, UINT)
  BY Zenon DEF P!Queue, RingSeq, Mod
<1> QED BY <1>1, <1>3, <1>4, <1>5, <1>14, <1>15, <1>16, PipeByteInv, Zenon DEF PipeFifo!Get, Gets


\* fileclose, pipeclose and kfree.
LEMMA PipeFileclose ==
  ASSUME PipeInv, NEW p \in P!Proc, P!Fileclose(p)
  PROVE  PipeInv'
<1>1. pth[p].pc = "user" /\ pi' = pi
  BY Zenon DEF P!Fileclose, P!At
<1>2. PICK l \in {"close", "closed"} :
        /\ P!Goto(p, l)
        /\ l = "close" => P!Last(p, IF p \in Reader THEN Reader ELSE Writer)
  BY Zenon DEF P!Fileclose
<1>3. /\ pth' \in [P!Proc -> PipeThread]
      /\ \A q \in P!Proc : /\ pth'[q].pc = IF q = p THEN l ELSE pth[q].pc
                           /\ pth'[q].killed = pth[q].killed
  <2>1. P!TypeOK /\ l \in {"user", "closed", "close", "free"} \cup P!OpPC
    BY Zenon DEF PipeInv
  <2> QED BY <1>2, <2>1, PipeGoto, Zenon
<1>4. P!TypeOK'
  BY <1>1, <1>3, Zenon DEF PipeInv, P!TypeOK, PipeThread
<1>5. PipeLocks'
  BY <1>1, <1>3 DEF PipeInv, PipeLocks, P!Empty
<1>6. PipeEnds'
  BY <1>1, <1>2, <1>3, PipeAssumption DEF PipeInv, PipeEnds, Shut, P!Last, P!Proc
<1>7. PipeSleepers'
  BY <1>1, <1>3 DEF PipeInv, PipeSleepers, P!Proc, P!Full, P!Empty
<1>8. PipeRoom'
  BY <1>1, Zenon DEF PipeInv, PipeRoom
<1> QED BY <1>4, <1>5, <1>6, <1>7, <1>8, Zenon DEF PipeInv

\* kfree: everybody has closed.
LEMMA PipeKfree ==
  ASSUME PipeInv, NEW p \in P!Proc, P!Kfree(p)
  PROVE  PipeInv' /\ UNCHANGED P!Queue
<1>1. /\ pth[p].pc = "free" /\ P!Goto(p, "closed")
      /\ pi' = [pi EXCEPT !.freed = TRUE]
  BY Zenon DEF P!Kfree, P!At
<1>2. /\ pi'.data = pi.data /\ pi'.nread = pi.nread /\ pi'.nwrite = pi.nwrite
      /\ pi'.readopen = pi.readopen /\ pi'.writeopen = pi.writeopen /\ pi'.lock = pi.lock
  BY <1>1 DEF PipeInv, P!TypeOK
<1>3. /\ pth' \in [P!Proc -> PipeThread]
      /\ \A q \in P!Proc : /\ pth'[q].pc = IF q = p THEN "closed" ELSE pth[q].pc
                           /\ pth'[q].killed = pth[q].killed
  <2>1. P!TypeOK /\ "closed" \in {"user", "closed", "close", "free"} \cup P!OpPC
    BY Zenon DEF PipeInv
  <2> QED BY <1>1, <2>1, PipeGoto, Zenon
<1>4. P!TypeOK'
  BY <1>1, <1>3, Zenon DEF PipeInv, P!TypeOK, PipeThread
<1>5. \A q \in P!Proc : pth'[q].pc = "closed"
  BY <1>1, <1>3 DEF PipeInv, PipeEnds
<1>6. PipeLocks'
  BY <1>1, <1>2, <1>3, <1>5 DEF PipeInv, PipeLocks
<1>7. PipeEnds'
  BY <1>5, Zenon DEF PipeEnds, Shut, P!Proc
<1>8. PipeSleepers'
  BY <1>5 DEF PipeSleepers, P!Proc
<1>9. PipeRoom'
  BY <1>2, Zenon DEF PipeInv, PipeRoom
<1> QED BY <1>2, <1>4, <1>6, <1>7, <1>8, <1>9, Zenon DEF PipeInv, P!Queue

\* pipeclose: the others of this end have closed, and the other end is woken.
LEMMA PipePipeclose ==
  ASSUME PipeInv, NEW p \in P!Proc, P!Pipeclose(p)
  PROVE  PipeInv' /\ UNCHANGED P!Queue
<1>1. /\ pth[p].pc = "close" /\ pi.lock = NoProc
      /\ pi' = [pi EXCEPT !.readopen = @ /\ p \in Writer, !.writeopen = @ /\ p \in Reader]
  BY Zenon DEF P!Pipeclose, P!At
<1>2. /\ pi'.data = pi.data /\ pi'.nread = pi.nread /\ pi'.nwrite = pi.nwrite
      /\ pi'.lock = NoProc /\ pi'.freed = pi.freed
      /\ pi'.readopen = (pi.readopen /\ p \in Writer) /\ pi'.writeopen = (pi.writeopen /\ p \in Reader)
  BY <1>1 DEF PipeInv, P!TypeOK
<1>3. PICK S, l : /\ S = (IF p \in Writer THEN Reader ELSE Writer)
                  /\ l = (IF pi'.readopen \/ pi'.writeopen THEN "closed" ELSE "free")
  OBVIOUS
<1>4. PICK W : W = P!Woken(S)
  OBVIOUS
<1>5. /\ W \in PipeThreads
      /\ \A q \in P!Proc : /\ W[q].pc = IF q \in S /\ pth[q].pc = "asleep" THEN "acquire" ELSE pth[q].pc
                           /\ W[q].killed = pth[q].killed
  BY <1>4, PipeWoken, Zenon DEF PipeInv, PipeThreads
<1>6. pth' = [W EXCEPT ![p].pc = l]
  BY <1>3, <1>4, Zenon DEF P!Pipeclose
<1>7. l \in PipePC
  BY <1>3 DEF PipePC
<1>8. Moved(W, p, l)
  BY ONLY <1>5, <1>6, <1>7, p \in P!Proc DEF Moved, PipeThread, PipeThreads, PipePC
<1>9. P!TypeOK'
  BY <1>1, <1>8, Zenon DEF Moved, PipeInv, P!TypeOK, PipeThread, PipeThreads
<1>10. \A q \in P!Proc :
         pth'[q].pc = IF q = p THEN l ELSE IF q \in S /\ pth[q].pc = "asleep" THEN "acquire" ELSE pth[q].pc
  BY <1>5, <1>8, Zenon DEF Moved
<1>11. PipeLocks'
  BY <1>1, <1>2, <1>3, <1>10, PipeAssumption DEF PipeInv, PipeLocks, P!Proc
<1>12. PipeEnds'
  <2>1. pi.freed \in BOOLEAN /\ pi.readopen \in BOOLEAN /\ pi.writeopen \in BOOLEAN
    BY DEF PipeInv, P!TypeOK
  <2>2. pi'.freed # TRUE /\ \A q \in P!Proc : pth[q].pc # "free"
    BY <1>1, <1>2, <2>1, Zenon DEF PipeInv, PipeEnds
  <2>3. l \in {"closed", "free"} /\ pth'[p].pc = l
    BY <1>3, <1>10
  <2>4. \A q \in P!Proc : q # p /\ (pth[q].pc \in Closing \/ pth'[q].pc \in Closing) => pth'[q].pc = pth[q].pc
    BY ONLY <1>10 DEF Closing
  <2>5. /\ pi.readopen = FALSE => \A q \in Reader : pth[q].pc = "closed"
        /\ pi.writeopen = FALSE => \A q \in Writer : pth[q].pc = "closed"
    BY <2>2 DEF PipeInv, PipeEnds, Shut, P!Proc
  <2>6. /\ p \in Reader => \A q \in Reader \ {p} : pth[q].pc = "closed"
        /\ p \in Writer => \A q \in Writer \ {p} : pth[q].pc = "closed"
    BY <1>1 DEF PipeInv, PipeEnds
  <2>7. /\ pi'.readopen = FALSE => \A q \in Reader \ {p} : pth'[q].pc = "closed"
        /\ pi'.writeopen = FALSE => \A q \in Writer \ {p} : pth'[q].pc = "closed"
    BY ONLY <1>2, <2>1, <2>4, <2>5, <2>6, p \in P!Proc, PipeAssumption DEF Closing, P!Proc
  <2>8. \A q, u \in P!Proc : pth'[q].pc = "close" /\ (q \in Reader <=> u \in Reader) /\ u # q => pth'[u].pc = "closed"
    BY ONLY <1>1, <2>3, <2>4, <2>6, PipeInv, p \in P!Proc, PipeAssumption DEF PipeInv, PipeEnds, Closing, P!Proc
  <2>9. l = "free" => pi'.readopen = FALSE /\ pi'.writeopen = FALSE
    BY ONLY <1>2, <1>3, <2>1
  <2>10. /\ pi'.readopen = FALSE => \A q \in Reader : Shut(q)'
         /\ pi'.writeopen = FALSE => \A q \in Writer : Shut(q)'
    BY ONLY <2>3, <2>7 DEF Shut
  <2>11. ASSUME NEW q \in P!Proc, pth'[q].pc = "free"
         PROVE  /\ pi'.readopen = FALSE /\ pi'.writeopen = FALSE
                /\ \A u \in P!Proc : u # q => pth'[u].pc = "closed"
    <3>1. q = p
      BY ONLY <2>2, <2>4, <2>11 DEF Closing
    <3> QED BY ONLY <2>3, <2>7, <2>9, <2>11, <3>1 DEF P!Proc
  <2>12. /\ \A q, u \in Reader : pth'[q].pc = "close" /\ u # q => pth'[u].pc = "closed"
         /\ \A q, u \in Writer : pth'[q].pc = "close" /\ u # q => pth'[u].pc = "closed"
    BY ONLY <2>8, PipeAssumption DEF P!Proc
  <2> QED BY ONLY <2>2, <2>10, <2>11, <2>12, Zenon DEF PipeEnds
<1>13. PipeSleepers'
  BY <1>1, <1>2, <1>3, <1>10, PipeAssumption DEF PipeInv, PipeSleepers, PipeLocks, PipeEnds, P!Proc, P!Empty, P!Full
<1>14. PipeRoom'
  BY <1>2, Zenon DEF PipeInv, PipeRoom
<1> QED BY <1>2, <1>9, <1>11, <1>12, <1>13, <1>14, Zenon DEF PipeInv, P!Queue


\* They leave the queue.
LEMMA PipeMoveQueue ==
  ASSUME NEW p, NEW S, NEW l, PipeMove(p, S, l)
  PROVE  UNCHANGED P!Queue
BY Zenon DEF PipeMove, P!Queue

\* Every step keeps PipeInv and is a step of the FIFO or leaves the queue.
LEMMA PipeNext ==
  ASSUME PipeInv, P!Next
  PROVE  PipeInv' /\ [PipeFifo!Next]_(P!Queue)
<1>1. PICK p \in P!Proc : (\E n \in Asked : P!Call(p, n)) \/ P!Step(p) \/ P!Fileclose(p) \/ P!Kill(p)
  BY Zenon DEF P!Next
<1>2. ASSUME NEW S, NEW l, PipeMove(p, S, l)
      PROVE  PipeInv' /\ [PipeFifo!Next]_(P!Queue)
  BY <1>2, PipeMoveInv, PipeMoveQueue, Zenon
<1>3. CASE \E n \in Asked : P!Call(p, n)
  BY <1>2, <1>3, PipeCall, Zenon
<1>4. CASE P!Acquire(p)
  BY <1>2, <1>4, PipeAcquire, Zenon
<1>5. CASE P!WriteLoop(p)
  BY <1>2, <1>5, PipeWriteLoop, Zenon
<1>6. CASE P!WriteTest(p)
  <2>1. p \in Writer /\ P!At(p, "test")
    BY <1>6, Zenon DEF P!WriteTest
  <2>2. CASE (P!Full /\ P!Sleep(p, P!WriteWakes)) \/ P!Leave(p, P!WriteWakes, "user")
    BY <1>2, <2>1, <2>2, PipeWriteGivesUp, Zenon
  <2>3. CASE /\ ~ P!Full
             /\ \E b \in Byte : pi' = [pi EXCEPT !.data[pi.nwrite % PIPESIZE] = b, !.nwrite = P!Inc(@)]
             /\ pth' = [pth EXCEPT ![p].i = @ + 1, ![p].pc = "loop"]
    <3>1. PICK b \in Byte : pi' = [pi EXCEPT !.data[pi.nwrite % PIPESIZE] = b, !.nwrite = P!Inc(@)]
      BY <2>3, Zenon
    <3>2. pth[p].pc = "test"
      BY <2>1, Zenon DEF P!At
    <3>3. PipeInv' /\ PipeFifo!Put(b)
      BY <2>1, <2>3, <3>1, <3>2, PipePut, Zenon
    <3> QED BY <3>3, Zenon DEF PipeFifo!Next
  <2> QED BY <1>6, <2>2, <2>3, Zenon DEF P!WriteTest
<1>7. CASE P!ReadLoop(p)
  BY <1>2, <1>7, PipeReadLoop, Zenon
<1>8. CASE P!ReadSleep(p)
  BY <1>2, <1>8, PipeReadSleep, Zenon
<1>9. CASE P!ReadByte(p)
  <2>1. p \in Reader
    BY <1>9, Zenon DEF P!ReadByte
  <2> QED BY <1>9, <2>1, PipeGet, Zenon DEF PipeFifo!Next
<1>10. CASE P!ReadDone(p)
  BY <1>2, <1>10, PipeReadDone, Zenon
<1>11. CASE P!Pipeclose(p)
  BY <1>11, PipePipeclose, Zenon
<1>12. CASE P!Kfree(p)
  BY <1>12, PipeKfree, Zenon
<1>13. CASE P!Fileclose(p)
  <2>1. UNCHANGED P!Queue
    BY <1>13, Zenon DEF P!Fileclose, P!Queue
  <2> QED BY <1>13, <2>1, PipeFileclose, Zenon
<1>14. CASE P!Kill(p)
  BY <1>2, <1>14, PipeKill, Zenon
<1> QED BY <1>1, <1>3, <1>4, <1>5, <1>6, <1>7, <1>8, <1>9, <1>10, <1>11, <1>12, <1>13, <1>14, Zenon DEF P!Step

\* Nothing changes.
LEMMA PipeStutter ==
  ASSUME PipeInv, UNCHANGED P!vars
  PROVE  PipeInv' /\ UNCHANGED P!Queue
<1>1. pi' = pi /\ pth' = pth
  BY Zenon DEF P!vars
<1>2. P!TypeOK' /\ PipeRoom'
  BY <1>1, Zenon DEF PipeInv, P!TypeOK, PipeRoom
<1>3. PipeLocks'
  BY <1>1, Zenon DEF PipeInv, PipeLocks, P!Empty
<1>4. PipeEnds'
  BY <1>1, Zenon DEF PipeInv, PipeEnds, Shut
<1>5. PipeSleepers'
  BY <1>1, Zenon DEF PipeInv, PipeSleepers, P!Full, P!Empty
<1> QED BY <1>1, <1>2, <1>3, <1>4, <1>5, Zenon DEF PipeInv, P!Queue

\* In every pipe, whatever its size and however many processes share its ends: a
\* process between acquire and release has the lock, the ends are closed once and
\* in order, and whoever sleeps has nothing to do or will be woken by the process
\* that has the lock, but for a killed writer (pipe.c:59-133).
THEOREM PipeInvariant == P!Spec => []PipeInv
<1>1. P!Init => PipeInv
  BY PipeInit
<1>2. PipeInv /\ [P!Next]_P!vars => PipeInv'
  BY PipeNext, PipeStutter, Zenon
<1> QED BY <1>1, <1>2, PTL DEF P!Spec

\* What the invariant says when nobody has the lock.
LEMMA PipeInvSound == PipeInv => PipeSound
<1> SUFFICES ASSUME PipeInv PROVE PipeSound
  OBVIOUS
<1>1. P!NoUseAfterFree
  BY DEF PipeInv, PipeEnds, P!TypeOK, P!NoUseAfterFree, P!At
<1>2. ASSUME pi.lock = NoProc, NEW p \in P!Proc, P!At(p, "asleep")
      PROVE  IF p \in Writer THEN P!Full /\ pi.readopen
             ELSE pi.writeopen /\ (P!Empty \/ \E q \in Writer : pth[q].killed)
  <2>1. \A q \in P!Proc : pth[q].pc \notin {"loop", "test", "copy"}
    BY <1>2, PipeAssumption DEF PipeInv, PipeLocks, P!Proc
  <2>2. CASE p \in Writer
    BY <1>2, <2>1, <2>2 DEF PipeInv, PipeSleepers, P!At, P!Proc
  <2>3. CASE p \in Reader /\ p \notin Writer
    BY <1>2, <2>1, <2>3 DEF PipeInv, PipeSleepers, P!At, P!Proc
  <2> QED BY <2>2, <2>3, Zenon DEF P!Proc
<1> QED BY <1>1, <1>2, Zenon DEF PipeSound, PipeInv, P!NobodyOversleeps

\* The page of a pipe is freed when nobody can touch it any more, and nobody
\* sleeps over a change it waits for (pipe.c:69-76, 87-93, 116-121, 130).
THEOREM PipeIsSound == P!Spec => []PipeSound
BY PipeInvariant, PipeInvSound, PTL

\* Whatever the processes do, the ring with its wrapping counters is a FIFO queue
\* of at most PIPESIZE bytes (pipe.c:91-99, 124-126).
THEOREM PipeRefinesFifo == P!Spec => PipeIsFifo
<1>1. P!Init => PipeFifo!Init
  <2> SUFFICES ASSUME P!Init PROVE PipeFifo!Init
    OBVIOUS
  <2>1. pi.nread = 0 /\ pi.nwrite = 0
    BY DEF P!Init
  <2>2. (pi.nwrite - pi.nread) % UINT = 0
    BY <2>1, PipeAssumption
  <2>3. P!Queue = [k \in 1 .. 0 |-> pi.data[(pi.nread + k - 1) % PIPESIZE]]
    BY <2>2, Zenon DEF P!Queue
  <2>4. P!Queue = << >>
    BY ONLY <2>3
  <2> QED BY <2>4, Zenon DEF PipeFifo!Init
<1>2. PipeInv /\ [P!Next]_P!vars => [PipeFifo!Next]_(P!Queue)
  BY PipeNext, PipeStutter, Zenon
<1> QED BY <1>1, <1>2, PipeInvariant, PTL DEF P!Spec, PipeIsFifo, PipeFifo!Spec

-----------------------------------------------------------------------------
\* The UART.
UartPC == {"idle", "acquire", "put", "start", "poll", "send", "asleep"}
UartThread == [pc : UartPC, c : Char]
UartTx == [buf : Contents(SIZE, Char), w : 0 .. UUINT - 1, r : 0 .. UUINT - 1, lock : U!Thread \cup {NoOne}]

UartTypeOK ==
  /\ tx \in UartTx
  /\ uart.fifo \in Nat /\ uart.irq \in BOOLEAN
  /\ uth \in [U!Thread -> UartThread]

\* Somebody sees to what is in the buffer: the device, the handler, or a thread on
\* its way to uartstart.
UartSends ==
  tx.w # tx.r => \/ uart.fifo # 0 \/ uart.irq = TRUE
                 \/ \E t \in U!Thread : \/ uth[t].pc \in {"start", "send"}
                                        \/ t = Uartintr /\ uth[t].pc # "idle"

\* Who sleeps waits for room.  This holds inside the critical sections also,
\* because uartstart makes room and wakes in one step.
UartWaits == \A t \in U!Thread : uth[t].pc = "asleep" => U!Full

UartRoom == (tx.w - tx.r) % UUINT =< SIZE

UartInv == UartTypeOK /\ UartSends /\ UartWaits /\ UartRoom

\* uartinit leaves an empty buffer.
LEMMA UartInit == U!Init => UartInv
<1> SUFFICES ASSUME U!Init PROVE UartInv
  OBVIOUS
<1>1. PICK c \in Char : /\ tx = [buf |-> [k \in 0 .. SIZE - 1 |-> c], w |-> 0, r |-> 0, lock |-> NoOne]
                        /\ uth = [t \in U!Thread |-> [pc |-> "idle", c |-> c]]
  BY UartAssumption, Zenon DEF U!Init
<1>2. UartTypeOK
  BY <1>1, UartAssumption DEF U!Init, UartTypeOK, UartTx, UartThread, UartPC, Contents
<1>3. UartSends /\ UartWaits
  BY <1>1 DEF UartSends, UartWaits
<1>4. UartRoom
  BY <1>1, UartAssumption, OneRound DEF UartRoom, Mod
<1> QED BY <1>2, <1>3, <1>4 DEF UartInv

\* What Goto does.
LEMMA UartGoto ==
  ASSUME UartTypeOK, NEW t \in U!Thread, NEW l, l \in UartPC,
         U!Goto(t, l)
  PROVE  /\ uth' \in [U!Thread -> UartThread]
         /\ \A q \in U!Thread : uth'[q].pc = IF q = t THEN l ELSE uth[q].pc
<1>1. uth \in [U!Thread -> UartThread] /\ uth' = [uth EXCEPT ![t].pc = l]
  BY Zenon DEF UartTypeOK, U!Goto
<1> QED BY ONLY <1>1, t \in U!Thread, l \in UartPC DEF UartThread

\* A step of t to l that leaves the buffer.
UartMove(t, l) ==
  /\ UartTypeOK'
  /\ tx'.buf = tx.buf /\ tx'.w = tx.w /\ tx'.r = tx.r
  /\ \A q \in U!Thread : uth'[q].pc = IF q = t THEN l ELSE uth[q].pc
  /\ l = "asleep" => U!Full

\* Such steps keep the invariant when they keep UartSends.
LEMMA UartMoveInv ==
  ASSUME UartInv, NEW t \in U!Thread, NEW l, UartMove(t, l), UartSends'
  PROVE  UartInv' /\ UNCHANGED U!Queue
<1>1. UartWaits'
  BY DEF UartInv, UartMove, UartWaits, U!Full
<1>2. UartRoom'
  BY Zenon DEF UartInv, UartMove, UartRoom
<1>3. UNCHANGED U!Queue
  BY Zenon DEF UartMove, U!Queue
<1> QED BY <1>1, <1>2, <1>3, Zenon DEF UartInv, UartMove

\* A call of uartputc or uartputc_sync.
LEMMA UartCall ==
  ASSUME UartInv, NEW t \in U!Thread, NEW c \in Char, U!Call(t, c)
  PROVE  UartInv' /\ UNCHANGED U!Queue
<1>1. PICK l, d : /\ l = (IF t \in Putter THEN "acquire" ELSE "poll")
                  /\ d = (IF t \in Putter THEN c ELSE uth[t].c)
  OBVIOUS
<1>2. uth' = [uth EXCEPT ![t] = [pc |-> l, c |-> d]] /\ uth[t].pc = "idle" /\ t # Uartintr /\ tx' = tx /\ uart' = uart
  BY <1>1, Zenon DEF U!Call, U!At
<1>3. uth \in [U!Thread -> UartThread]
  BY Zenon DEF UartInv, UartTypeOK
<1>4. [pc |-> l, c |-> d] \in UartThread
  BY <1>1, <1>3 DEF UartThread, UartPC
<1>5. /\ uth' \in [U!Thread -> UartThread]
      /\ \A q \in U!Thread : uth'[q].pc = IF q = t THEN l ELSE uth[q].pc
  BY ONLY <1>2, <1>3, <1>4, t \in U!Thread
<1>6. UartMove(t, l)
  BY <1>1, <1>2, <1>5 DEF UartMove, UartInv, UartTypeOK
<1>7. UartSends'
  BY <1>2, <1>5 DEF UartInv, UartSends
<1> QED BY <1>6, <1>7, UartMoveInv, Zenon

\* acquire(&uart_tx_lock).
LEMMA UartAcquire ==
  ASSUME UartInv, NEW t \in U!Thread, U!Acquire(t)
  PROVE  UartInv' /\ UNCHANGED U!Queue
<1>1. PICK l \in {"start", "put"} : U!Goto(t, l) /\ (t = Uartintr => l = "start")
  BY Zenon DEF U!Acquire
<1>2. uth[t].pc = "acquire" /\ tx' = [tx EXCEPT !.lock = t] /\ uart' = uart
  BY Zenon DEF U!Acquire, U!At
<1>3. tx' \in UartTx /\ tx'.buf = tx.buf /\ tx'.w = tx.w /\ tx'.r = tx.r
  BY <1>2 DEF UartInv, UartTypeOK, UartTx
<1>4. /\ uth' \in [U!Thread -> UartThread]
      /\ \A q \in U!Thread : uth'[q].pc = IF q = t THEN l ELSE uth[q].pc
  <2>1. UartTypeOK /\ l \in UartPC
    BY Zenon DEF UartInv, UartPC
  <2> QED BY <1>1, <2>1, UartGoto, Zenon
<1>5. UartMove(t, l)
  BY <1>2, <1>3, <1>4 DEF UartMove, UartInv, UartTypeOK
<1>6. UartSends'
  BY <1>1, <1>2, <1>3, <1>4 DEF UartInv, UartSends
<1> QED BY <1>5, <1>6, UartMoveInv, Zenon

\* uartputc finds the buffer full; uartstart has nothing to do.
LEMMA UartRelease ==
  ASSUME UartInv, NEW t \in U!Thread, NEW l \in {"idle", "asleep"}, U!Goto(t, l), uart' = uart,
         tx' = [tx EXCEPT !.lock = NoOne],
         \/ l = "asleep" /\ uth[t].pc = "put" /\ U!Full
         \/ l = "idle" /\ (tx.w = tx.r \/ uart.fifo # 0)
  PROVE  UartInv' /\ UNCHANGED U!Queue
<1>1. tx' \in UartTx /\ tx'.buf = tx.buf /\ tx'.w = tx.w /\ tx'.r = tx.r
  BY DEF UartInv, UartTypeOK, UartTx
<1>2. /\ uth' \in [U!Thread -> UartThread]
      /\ \A q \in U!Thread : uth'[q].pc = IF q = t THEN l ELSE uth[q].pc
  <2>1. UartTypeOK /\ l \in UartPC
    BY Zenon DEF UartInv, UartPC
  <2> QED BY <2>1, UartGoto, Zenon
<1>3. UartMove(t, l)
  BY <1>1, <1>2 DEF UartMove, UartInv, UartTypeOK
<1>4. UartSends'
  BY <1>1, <1>2 DEF UartInv, UartSends
<1> QED BY <1>3, <1>4, UartMoveInv, Zenon

\* The steps that leave tx: Poll, Send, and uartintr.
LEMMA UartQuiet ==
  ASSUME UartInv, NEW t \in U!Thread, NEW l \in {"send", "idle", "start", "acquire"}, U!Goto(t, l), tx' = tx,
         uart'.fifo \in Nat, uart'.irq \in BOOLEAN,
         \/ uart'.fifo # 0
         \/ uart' = uart /\ l = "send"
         \/ t = Uartintr /\ l = "acquire"
  PROVE  UartInv' /\ UNCHANGED U!Queue
<1>1. /\ uth' \in [U!Thread -> UartThread]
      /\ \A q \in U!Thread : uth'[q].pc = IF q = t THEN l ELSE uth[q].pc
  <2>1. UartTypeOK /\ l \in UartPC
    BY Zenon DEF UartInv, UartPC
  <2> QED BY <2>1, UartGoto, Zenon
<1>2. UartMove(t, l)
  BY <1>1 DEF UartMove, UartInv, UartTypeOK
<1>3. UartSends'
  BY <1>1 DEF UartInv, UartSends
<1> QED BY <1>2, <1>3, UartMoveInv, Zenon


\* The device sends a character, and interrupts after the last one.
LEMMA UartShift ==
  ASSUME UartInv, U!Shift
  PROVE  UartInv' /\ UNCHANGED U!Queue
<1>1. /\ uart.fifo # 0 /\ tx' = tx /\ uth' = uth
      /\ uart' = [fifo |-> uart.fifo - 1, irq |-> uart.irq \/ uart.fifo = 1]
  BY Zenon DEF U!Shift, U!TxIdle
<1>2. uart.fifo \in Nat /\ uart.irq \in BOOLEAN
  BY Zenon DEF UartInv, UartTypeOK
<1>3. uart'.fifo \in Nat /\ uart'.irq \in BOOLEAN /\ (uart'.fifo # 0 \/ uart'.irq = TRUE)
  <2>1. PICK n \in Nat : n = uart.fifo
    BY <1>2, Zenon
  <2>2. uart'.fifo = n - 1 /\ n # 0
    BY <1>1, <2>1
  <2>3. n - 1 \in Nat /\ (n - 1 # 0 \/ n = 1)
    BY ONLY <2>2
  <2>4. uart'.irq = (uart.irq \/ n = 1)
    BY <1>1, <2>1
  <2>5. uart'.irq \in BOOLEAN /\ (n = 1 => uart'.irq = TRUE)
    BY ONLY <1>2, <2>4, Zenon
  <2> QED BY <2>2, <2>3, <2>5
<1>4. UartTypeOK'
  BY <1>1, <1>3, Zenon DEF UartInv, UartTypeOK
<1>5. UartSends'
  BY <1>3, Zenon DEF UartSends
<1>6. UartWaits' /\ UartRoom' /\ UNCHANGED U!Queue
  BY <1>1, Zenon DEF UartInv, UartWaits, UartRoom, U!Full, U!Queue
<1> QED BY <1>4, <1>5, <1>6, Zenon DEF UartInv

UartRing == IsRing(SIZE, UUINT, tx.r, tx.w)

\* The counters are those of a ring.
LEMMA UartIsRing ==
  ASSUME UartInv
  PROVE  /\ UartRing
         /\ tx.buf \in Contents(SIZE, Char)
         /\ Mod(tx.w - tx.r, UUINT) =< SIZE
         /\ U!Queue = RingSeq(tx.buf, tx.r, tx.w, SIZE, UUINT)
         /\ U!Full <=> tx.w = Mod(tx.r + SIZE, UUINT)
<1>1. tx.r \in 0 .. UUINT - 1 /\ tx.w \in 0 .. UUINT - 1 /\ tx.buf \in Contents(SIZE, Char)
  BY DEF UartInv, UartTypeOK, UartTx
<1>2. UartRing
  BY <1>1, UartAssumption DEF UartRing, IsRing, Mod
<1>3. U!Queue = RingSeq(tx.buf, tx.r, tx.w, SIZE, UUINT)
  BY Zenon DEF U!Queue, RingSeq, Mod
<1> QED BY <1>1, <1>2, <1>3, Zenon DEF Mod, UartInv, UartRoom, U!Full

\* uartputc puts its character.
LEMMA UartPut ==
  ASSUME UartInv, NEW t \in U!Thread, ~ U!Full, U!Goto(t, "start"), uart' = uart,
         tx' = [tx EXCEPT !.buf[tx.w % SIZE] = uth[t].c, !.w = U!Inc(@)]
  PROVE  UartInv' /\ [UartFifo!Next]_(U!Queue)
<1>1. PICK c \in Char : c = uth[t].c
  BY DEF UartInv, UartTypeOK, UartThread
<1>2. /\ tx'.buf = Stored(tx.buf, Mod(tx.w, SIZE), c)
      /\ tx'.w = Mod(tx.w + 1, UUINT) /\ tx'.r = tx.r /\ tx'.lock = tx.lock
  BY <1>1 DEF UartInv, UartTypeOK, UartTx, U!Inc, Mod, Stored
<1>3. PICK r, w, data : r = tx.r /\ w = tx.w /\ data = tx.buf
  OBVIOUS
<1>4. /\ IsRing(SIZE, UUINT, r, w) /\ Mod(w - r, UUINT) =< SIZE /\ w # Mod(r + SIZE, UUINT)
      /\ data \in Contents(SIZE, Char)
      /\ U!Queue = RingSeq(data, r, w, SIZE, UUINT)
  BY <1>3, UartIsRing, Zenon DEF UartRing
<1>5. /\ Mod(w - r, UUINT) < SIZE
      /\ Mod(w + 1, UUINT) \in 0 .. UUINT - 1
      /\ Mod(Mod(w + 1, UUINT) - r, UUINT) = Mod(w - r, UUINT) + 1
  BY ONLY <1>4, PutCounts
<1>6. UartRoom'
  <2>1. Mod(w - r, UUINT) \in Nat
    BY ONLY <1>4, Ahead
  <2>2. Mod(w - r, UUINT) + 1 =< SIZE
    BY ONLY <1>5, <2>1, UartAssumption
  <2> QED BY <1>2, <1>3, <1>5, <2>2, Zenon DEF UartRoom, Mod
<1>7. /\ uth' \in [U!Thread -> UartThread]
      /\ \A q \in U!Thread : uth'[q].pc = IF q = t THEN "start" ELSE uth[q].pc
  <2>1. UartTypeOK /\ "start" \in UartPC
    BY Zenon DEF UartInv, UartPC
  <2> QED BY <2>1, UartGoto, Zenon
<1>8. UartTypeOK'
  <2>1. tx.buf \in [0 .. SIZE - 1 -> Char] /\ U!Inc(tx.w) \in 0 .. UUINT - 1
    BY <1>3, <1>4, <1>5, Zenon DEF Contents, U!Inc, Mod
  <2>2. tx' \in UartTx
    BY <1>1, <2>1, Zenon DEF UartInv, UartTypeOK, UartTx, Contents
  <2> QED BY <1>7, <2>2, Zenon DEF UartInv, UartTypeOK
<1>9. UartSends'
  BY <1>7 DEF UartSends
<1>10. UartWaits'
  BY <1>7 DEF UartInv, UartWaits
<1>11. Puts(SIZE, RingSeq(data, r, w, SIZE, UUINT), c,
            RingSeq(Stored(data, Mod(w, SIZE), c), r, Mod(w + 1, UUINT), SIZE, UUINT))
  BY ONLY <1>4, RingPut, c \in Char, Zenon
<1>12. U!Queue' = RingSeq(tx'.buf, tx'.r, tx'.w, SIZE, UUINT)
  BY Zenon DEF U!Queue, RingSeq, Mod
<1>13. UartFifo!Put(c)
  BY <1>2, <1>3, <1>4, <1>11, <1>12, Zenon DEF UartFifo!Put, Puts
<1> QED BY <1>6, <1>8, <1>9, <1>10, <1>13, Zenon DEF UartInv, UartFifo!Next

\* uartstart takes a character and wakes whoever waits for room.
LEMMA UartTake ==
  ASSUME UartInv, NEW t \in U!Thread, tx.w # tx.r, uart' = uart,
         tx' = [tx EXCEPT !.r = U!Inc(@)],
         uth' = [U!Woken EXCEPT ![t].pc = "send"]
  PROVE  UartInv' /\ [UartFifo!Next]_(U!Queue)
<1>1. /\ tx'.buf = tx.buf
      /\ tx'.r = Mod(tx.r + 1, UUINT) /\ tx'.w = tx.w /\ tx'.lock = tx.lock
  BY DEF UartInv, UartTypeOK, UartTx, U!Inc, Mod
<1>2. PICK r, w, data : r = tx.r /\ w = tx.w /\ data = tx.buf
  OBVIOUS
<1>3. /\ IsRing(SIZE, UUINT, r, w) /\ Mod(w - r, UUINT) =< SIZE /\ w # r
      /\ data \in Contents(SIZE, Char)
      /\ U!Queue = RingSeq(data, r, w, SIZE, UUINT)
  BY <1>2, UartIsRing, Zenon DEF UartRing
<1>4. /\ Mod(r + 1, UUINT) \in 0 .. UUINT - 1
      /\ Mod(w - Mod(r + 1, UUINT), UUINT) = Mod(w - r, UUINT) - 1
  BY ONLY <1>3, GetCounts
<1>5. UartRoom'
  <2>1. Mod(w - r, UUINT) \in Nat
    BY ONLY <1>3, Ahead
  <2>2. Mod(w - r, UUINT) - 1 =< SIZE
    BY ONLY <1>3, <2>1, UartAssumption
  <2> QED BY <1>1, <1>2, <1>4, <2>2, Zenon DEF UartRoom, Mod
<1>6. PICK W : W = U!Woken
  OBVIOUS
<1>7. uth \in [U!Thread -> UartThread] /\ "acquire" \in UartPC /\ "send" \in UartPC
  BY DEF UartInv, UartTypeOK, UartPC
<1>8. W \in [U!Thread -> UartThread] /\ \A q \in U!Thread : W[q].pc # "asleep"
  BY ONLY <1>6, <1>7 DEF U!Woken, U!At, UartThread
<1>9. uth' = [W EXCEPT ![t].pc = "send"]
  BY <1>6, Zenon
<1>10. /\ uth' \in [U!Thread -> UartThread] /\ uth'[t].pc = "send"
       /\ \A q \in U!Thread : uth'[q].pc # "asleep"
  BY ONLY <1>7, <1>8, <1>9, t \in U!Thread DEF UartThread
<1>11. UartTypeOK'
  <2>1. U!Inc(tx.r) \in 0 .. UUINT - 1
    BY <1>2, <1>4, Zenon DEF U!Inc, Mod
  <2>2. tx' \in UartTx
    BY <2>1 DEF UartInv, UartTypeOK, UartTx
  <2> QED BY <1>10, <2>2, Zenon DEF UartInv, UartTypeOK
<1>12. UartSends' /\ UartWaits'
  BY <1>10 DEF UartSends, UartWaits
<1>13. Gets(RingSeq(data, r, w, SIZE, UUINT), RingSeq(data, Mod(r + 1, UUINT), w, SIZE, UUINT))
  BY ONLY <1>3, RingGet, Zenon
<1>14. U!Queue' = RingSeq(tx'.buf, tx'.r, tx'.w, SIZE, UUINT)
  BY Zenon DEF U!Queue, RingSeq, Mod
<1>15. UartFifo!Get
  BY <1>1, <1>2, <1>3, <1>13, <1>14, Zenon DEF UartFifo!Get, Gets
<1> QED BY <1>5, <1>11, <1>12, <1>15, Zenon DEF UartInv, UartFifo!Next


\* Every step keeps UartInv and is a step of the FIFO or leaves the queue.
LEMMA UartNext ==
  ASSUME UartInv, U!Next
  PROVE  UartInv' /\ [UartFifo!Next]_(U!Queue)
<1>1. uart.fifo \in Nat /\ uart.irq \in BOOLEAN /\ Uartintr \in U!Thread
  BY Zenon DEF UartInv, UartTypeOK, U!Thread
<1>2. CASE U!Shift
  BY <1>2, UartShift, Zenon
<1>3. CASE U!Intr
  <2>1. U!Goto(Uartintr, "acquire") /\ tx' = tx /\ uart' = [uart EXCEPT !.irq = FALSE]
    BY <1>3, Zenon DEF U!Intr
  <2>2. uart'.fifo \in Nat /\ uart'.irq \in BOOLEAN
    BY <1>1, <2>1 DEF UartInv, UartTypeOK
  <2> QED BY <1>1, <2>1, <2>2, UartQuiet, Zenon
<1>4. ASSUME NEW t \in U!Thread, NEW c \in Char, U!Call(t, c)
      PROVE  UartInv' /\ [UartFifo!Next]_(U!Queue)
  BY <1>4, UartCall, Zenon
<1>5. ASSUME NEW t \in U!Thread, U!Acquire(t)
      PROVE  UartInv' /\ [UartFifo!Next]_(U!Queue)
  BY <1>5, UartAcquire, Zenon
<1>6. ASSUME NEW t \in U!Thread, U!Put(t)
      PROVE  UartInv' /\ [UartFifo!Next]_(U!Queue)
  <2>1. uth[t].pc = "put" /\ uart' = uart
    BY <1>6, Zenon DEF U!Put, U!At
  <2>2. CASE U!Full /\ tx' = [tx EXCEPT !.lock = NoOne] /\ U!Goto(t, "asleep")
    BY <2>1, <2>2, UartRelease, Zenon
  <2>3. CASE ~ U!Full /\ tx' = [tx EXCEPT !.buf[tx.w % SIZE] = uth[t].c, !.w = U!Inc(@)] /\ U!Goto(t, "start")
    BY <2>1, <2>3, UartPut, Zenon
  <2> QED BY <1>6, <2>2, <2>3, Zenon DEF U!Put
<1>7. ASSUME NEW t \in U!Thread, U!Start(t)
      PROVE  UartInv' /\ [UartFifo!Next]_(U!Queue)
  <2>1. uart' = uart
    BY <1>7, Zenon DEF U!Start
  <2>2. CASE (tx.w = tx.r \/ uart.fifo # 0) /\ tx' = [tx EXCEPT !.lock = NoOne] /\ U!Goto(t, "idle")
    BY <2>1, <2>2, UartRelease, Zenon
  <2>3. CASE tx.w # tx.r /\ tx' = [tx EXCEPT !.r = U!Inc(@)] /\ uth' = [U!Woken EXCEPT ![t].pc = "send"]
    BY <2>1, <2>3, UartTake, Zenon
  <2> QED BY <1>7, <2>2, <2>3, Zenon DEF U!Start, U!TxIdle
<1>8. ASSUME NEW t \in U!Thread, U!Poll(t)
      PROVE  UartInv' /\ [UartFifo!Next]_(U!Queue)
  <2>1. U!Goto(t, "send") /\ tx' = tx /\ uart' = uart
    BY <1>8, Zenon DEF U!Poll
  <2> QED BY <1>1, <2>1, UartQuiet, Zenon
<1>9. ASSUME NEW t \in U!Thread, U!Send(t)
      PROVE  UartInv' /\ [UartFifo!Next]_(U!Queue)
  <2>1. PICK l \in {"idle", "start"} : U!Goto(t, l)
    BY <1>9, Zenon DEF U!Send
  <2>2. tx' = tx /\ uart' = [fifo |-> uart.fifo + 1, irq |-> FALSE]
    BY <1>9, Zenon DEF U!Send
  <2>3. uart'.fifo \in Nat /\ uart'.irq \in BOOLEAN /\ uart'.fifo # 0
    BY <1>1, <2>2
  <2> QED BY <2>1, <2>2, <2>3, UartQuiet, Zenon
<1> QED BY <1>2, <1>3, <1>4, <1>5, <1>6, <1>7, <1>8, <1>9, Zenon DEF U!Next, U!Step

\* Nothing changes.
LEMMA UartStutter ==
  ASSUME UartInv, UNCHANGED U!vars
  PROVE  UartInv' /\ UNCHANGED U!Queue
<1>1. tx' = tx /\ uart' = uart /\ uth' = uth
  BY Zenon DEF U!vars
<1> QED BY <1>1, Zenon DEF UartInv, UartTypeOK, UartSends, UartWaits, UartRoom, U!Full, U!Queue

\* With any number of processes and of printf's callers, and a buffer of any size:
\* somebody sees to what is in the buffer, and who sleeps finds it full
\* (uart.c:86-160).
THEOREM UartInvariant == U!Spec => []UartInv
<1>1. U!Init => UartInv
  BY UartInit
<1>2. UartInv /\ [U!Next]_U!vars => UartInv'
  BY UartNext, UartStutter, Zenon
<1> QED BY <1>1, <1>2, PTL DEF U!Spec

\* The output never stalls although uartstart gives up when the UART is busy and
\* uartputc_sync writes to it without the lock (uart.c:100, 128, 141-157).
THEOREM OutputNeverStalls == U!Spec => []OutputNotStalled
<1>1. UartInv => OutputNotStalled
  <2> SUFFICES ASSUME UartInv PROVE OutputNotStalled
    OBVIOUS
  <2>1. tx.w # tx.r => \/ ~ U!TxIdle \/ uart.irq
                       \/ \E t \in U!Thread : \/ U!At(t, "start") \/ U!At(t, "send")
                                              \/ (t = Uartintr /\ ~ U!At(t, "idle"))
    BY DEF UartInv, UartSends, U!TxIdle, U!At
  <2>2. \A t \in Putter : U!At(t, "asleep") => U!Full
    BY Zenon DEF UartInv, UartWaits, U!At, U!Thread
  <2> QED BY <2>1, <2>2, Zenon DEF OutputNotStalled, U!OutputNotStalled
<1> QED BY <1>1, UartInvariant, PTL

\* Whatever the processes, the handler and the device do, the output buffer is a
\* FIFO queue of at most UART_TX_BUF_SIZE characters (uart.c:97-103, 141-154).
THEOREM UartRefinesFifo == U!Spec => UartIsFifo
<1>1. U!Init => UartFifo!Init
  <2> SUFFICES ASSUME U!Init PROVE UartFifo!Init
    OBVIOUS
  <2>1. tx.r = 0 /\ tx.w = 0
    BY DEF U!Init
  <2>2. (tx.w - tx.r) % UUINT = 0
    BY <2>1, UartAssumption
  <2>3. U!Queue = [k \in 1 .. 0 |-> tx.buf[(tx.r + k - 1) % SIZE]]
    BY <2>2, Zenon DEF U!Queue
  <2>4. U!Queue = << >>
    BY ONLY <2>3
  <2> QED BY <2>4, Zenon DEF UartFifo!Init
<1>2. UartInv /\ [U!Next]_U!vars => [UartFifo!Next]_(U!Queue)
  BY UartNext, UartStutter, Zenon
<1> QED BY <1>1, <1>2, UartInvariant, PTL DEF U!Spec, UartIsFifo, UartFifo!Spec
=============================================================================
