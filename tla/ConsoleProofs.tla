---------------------------- MODULE ConsoleProofs ----------------------------
(***************************************************************************)
(* Proofs about the buffered serial console, for every size of its rings   *)
(* and FIFOs, every text and every key: its invariants, and that it        *)
(* implements the two queues of module Pipe.                               *)
(***************************************************************************)
EXTENDS Console, RingProofs

-----------------------------------------------------------------------------
(* Sequences.                                                              *)

LEMMA Regrouped ==
  ASSUME NEW S, NEW s \in Seq(S), NEW t \in Seq(S), NEW x \in Seq(S)
  PROVE  (s \o t) \o x = s \o (t \o x)
OBVIOUS

LEMMA FrontIs ==
  ASSUME NEW S, NEW s \in Seq(S), NEW m \in Nat, m <= Len(s)
  PROVE  /\ SubSeq(s, 1, m) \in Seq(S) /\ Len(SubSeq(s, 1, m)) = m
         /\ \A i \in 1..m : SubSeq(s, 1, m)[i] = s[i]
<1>1. \A i \in 1..m : i \in 1..Len(s)
  OBVIOUS
<1>2. QED
  BY <1>1

\* A prefix, element by element.
LEMMA PrefixIs ==
  ASSUME NEW S, NEW s \in Seq(S), NEW t \in Seq(S)
  PROVE  IsPrefix(s, t) <=> Len(s) <= Len(t) /\ \A i \in 1..Len(s) : s[i] = t[i]
<1>1. SubSeq(s, 1, Len(s)) = s
  OBVIOUS
<1>2. CASE Len(s) <= Len(t)
  <2> DEFINE u == SubSeq(t, 1, Len(s))
  <2>1. u \in Seq(S) /\ Len(u) = Len(s) /\ \A i \in 1..Len(s) : u[i] = t[i]
    BY <1>2
  <2> HIDE DEF u
  <2>2. u = s <=> \A i \in 1..Len(s) : s[i] = t[i]
    BY <2>1
  <2>3. QED
    BY <1>1, <1>2, <2>2 DEF IsPrefix, u
<1>3. CASE ~(Len(s) <= Len(t))
  BY <1>3 DEF IsPrefix
<1>4. QED
  BY <1>2, <1>3

LEMMA PrefixRefl == ASSUME NEW S, NEW s \in Seq(S) PROVE IsPrefix(s, s)
BY PrefixIs

LEMMA PrefixTrans ==
  ASSUME NEW S, NEW s \in Seq(S), NEW t \in Seq(S), NEW u \in Seq(S),
         IsPrefix(s, t), IsPrefix(t, u)
  PROVE  IsPrefix(s, u)
<1>1. /\ Len(s) <= Len(t) /\ \A i \in 1..Len(s) : s[i] = t[i]
      /\ Len(t) <= Len(u) /\ \A i \in 1..Len(t) : t[i] = u[i]
  BY PrefixIs
<1>2. Len(s) \in Nat /\ Len(t) \in Nat /\ Len(u) \in Nat
  OBVIOUS
<1>3. Len(s) <= Len(u) /\ \A i \in 1..Len(s) : s[i] = u[i]
  BY <1>1, <1>2
<1>4. QED
  BY <1>3, PrefixIs

LEMMA PrefixOfAppend ==
  ASSUME NEW S, NEW s \in Seq(S), NEW c \in S
  PROVE  IsPrefix(s, Append(s, c))
<1>1. /\ Append(s, c) \in Seq(S) /\ Len(s) <= Len(Append(s, c))
      /\ \A i \in 1..Len(s) : s[i] = Append(s, c)[i]
  OBVIOUS
<1>2. QED
  BY <1>1, PrefixIs

\* The same text before both leaves a prefix a prefix.
LEMMA PrefixOfConcat ==
  ASSUME NEW S, NEW s \in Seq(S), NEW t \in Seq(S), NEW u \in Seq(S), IsPrefix(t, u)
  PROVE  IsPrefix(s \o t, s \o u)
<1>1. /\ Len(t) <= Len(u) /\ \A i \in 1..Len(t) : t[i] = u[i]
      /\ Len(s) \in Nat /\ Len(t) \in Nat /\ Len(u) \in Nat
  BY PrefixIs
<1>2. /\ s \o t \in Seq(S) /\ s \o u \in Seq(S)
      /\ Len(s \o t) = Len(s) + Len(t) /\ Len(s \o u) = Len(s) + Len(u)
  OBVIOUS
<1>3. ASSUME NEW i \in 1..(Len(s) + Len(t))
      PROVE  (s \o t)[i] = (s \o u)[i]
  <2>1. CASE i <= Len(s)
    BY <1>1, <2>1
  <2>2. CASE i > Len(s)
    <3>1. i - Len(s) \in 1..Len(t) /\ i - Len(s) \in 1..Len(u)
      BY <1>1, <2>2
    <3>2. (s \o t)[i] = t[i - Len(s)] /\ (s \o u)[i] = u[i - Len(s)]
      BY <1>1, <2>2, <3>1
    <3>3. QED
      BY <1>1, <3>1, <3>2
  <2>3. QED
    BY <1>1, <2>1, <2>2
<1>4. /\ \A i \in 1..Len(s \o t) : (s \o t)[i] = (s \o u)[i]
      /\ Len(s \o t) <= Len(s \o u)
  BY <1>1, <1>2, <1>3
<1>5. QED
  BY <1>2, <1>4, PrefixIs

-----------------------------------------------------------------------------
(* Rings: several elements at a time.                                      *)

LEMMA ContentsAt ==
  ASSUME NEW N \in Nat, N > 1, NEW S, NEW q \in Rings(N, S), NEW k \in 1..Count(q, N)
  PROVE  Contents(q, N)[k] = q.slot[SlotOf(q, k, N)]
BY ContentsAre

\* The ring with k elements read and the read index moved by k.
Taken(q, k, N) == [q EXCEPT !.r = (q.r + k) % N]

LEMMA TakeMany ==
  ASSUME NEW N \in Nat, N > 1, NEW S, NEW q \in Rings(N, S), NEW k \in 0..Count(q, N)
  PROVE  /\ Taken(q, k, N) \in Rings(N, S)
         /\ Taken(q, k, N).w = q.w /\ Taken(q, k, N).slot = q.slot
         /\ Count(Taken(q, k, N), N) = Count(q, N) - k
         /\ Contents(Taken(q, k, N), N) = SubSeq(Contents(q, N), k + 1, Count(q, N))
<1> DEFINE p == Taken(q, k, N)
           w == q.w
           r == q.r
           n == Count(q, N)
           a == r + k
           r1 == IF a < N THEN a ELSE a - N
<1>1. /\ w \in Int /\ 0 <= w /\ w < N
      /\ r \in Int /\ 0 <= r /\ r < N
      /\ n \in Int /\ 0 <= n /\ n < N
      /\ k \in Int /\ 0 <= k /\ k <= n
      /\ q.slot \in [0..(N - 1) -> S]
  BY RingTyped, SMT
<1>2. n = IF w >= r THEN w - r ELSE N - (r - w)
  BY DEF Count
<1> HIDE DEF w, r, n
<1>3. r1 \in 0..(N - 1) /\ (r + k) % N = r1
  <2>1. a \in 0..(2 * N - 1)
    BY <1>1, SMT
  <2>2. r1 \in 0..(N - 1)
    BY <1>1, SMT
  <2> HIDE DEF a
  <2>3. a % N = r1
    BY <2>1, WrapsOnce
  <2>4. QED
    BY <2>2, <2>3 DEF a
<1>4. p.r = r1 /\ p.w = q.w /\ p.slot = q.slot /\ p \in Rings(N, S)
  <2> HIDE DEF r1
  <2>1. p = [q EXCEPT !.r = r1]
    BY <1>3 DEF r, Taken
  <2>2. QED
    BY <1>3, <2>1 DEF Rings
<1> HIDE DEF p
<1>5. Count(p, N) = n - k
  <2>1. Count(p, N) = IF w >= r1 THEN w - r1 ELSE N - (r1 - w)
    BY <1>4 DEF Count, w
  <2>2. CASE r + k < N
    BY <1>1, <1>2, <2>1, <2>2, SMT
  <2>3. CASE r + k >= N
    BY <1>1, <1>2, <2>1, <2>3, SMT
  <2>4. QED
    BY <1>1, <2>2, <2>3
<1>6. Contents(q, N) \in Seq(S) /\ Len(Contents(q, N)) = n
  BY ContentsAre DEF n
<1> DEFINE rest == SubSeq(Contents(q, N), k + 1, n)
<1>7. /\ rest \in Seq(S) /\ Len(rest) = n - k
      /\ \A i \in 1..(n - k) : rest[i] = Contents(q, N)[k + i]
  <2>1. \A j \in (k + 1)..n : j \in 1..n
    BY <1>1
  <2>2. QED
    BY <1>1, <1>6, <2>1
<1>8. ASSUME NEW i \in 1..(n - k)
      PROVE  Contents(p, N)[i] = rest[i]
  <2>1. i \in Int /\ 1 <= i /\ k + i <= n /\ k + i \in 1..n
    BY <1>1, SMT
  <2>2. SlotOf(p, i, N) = IF r1 + i - 1 < N THEN r1 + i - 1 ELSE r1 + i - 1 - N
    <3> HIDE DEF r1
    <3>1. QED
      BY <1>4 DEF SlotOf
  <2>3. SlotOf(q, k + i, N) = IF r + (k + i) - 1 < N THEN r + (k + i) - 1
                                                     ELSE r + (k + i) - 1 - N
    BY DEF SlotOf, r
  <2>4. SlotOf(p, i, N) = SlotOf(q, k + i, N)
    <3>1. CASE r + k < N
      BY <1>1, <2>1, <2>2, <2>3, <3>1, SMT
    <3>2. CASE r + k >= N
      <4>1. r1 = r + k - N
        BY <1>1, <3>2
      <4> HIDE DEF r1
      <4>2. QED
        BY <1>1, <2>1, <2>2, <2>3, <3>2, <4>1, SMT
    <3>3. QED
      BY <1>1, <3>1, <3>2
  <2>5. Contents(p, N)[i] = p.slot[SlotOf(p, i, N)]
    <3>1. i \in 1..Count(p, N)
      BY <1>5
    <3>2. QED
      BY <1>4, <3>1, ContentsAt
  <2>6. Contents(q, N)[k + i] = q.slot[SlotOf(q, k + i, N)]
    BY <2>1, ContentsAt DEF n
  <2>7. QED
    BY <1>4, <1>7, <2>4, <2>5, <2>6
<1>9. Contents(p, N) \in Seq(S) /\ Len(Contents(p, N)) = n - k
  BY <1>4, <1>5, ContentsAre
<1> HIDE DEF rest
<1>10. Contents(p, N) = rest
  BY <1>7, <1>8, <1>9
<1>11. QED
  BY <1>4, <1>5, <1>10 DEF n, rest, p

\* Filling a slot that no element lies in changes no element.
SlotFilled(q, c) == [q EXCEPT !.slot[q.w] = c]

LEMMA FreeSlotFilled ==
  ASSUME NEW N \in Nat, N > 1, NEW S, NEW q \in Rings(N, S), NEW c \in S
  PROVE  LET p == SlotFilled(q, c)
         IN  /\ p \in Rings(N, S) /\ p.w = q.w /\ p.r = q.r /\ p.slot[p.w] = c
             /\ Count(p, N) = Count(q, N) /\ IsFull(p, N) = IsFull(q, N)
             /\ Contents(p, N) = Contents(q, N)
<1> DEFINE p == SlotFilled(q, c)
<1>1. /\ q.w \in 0..(N - 1) /\ q.r \in 0..(N - 1) /\ q.slot \in [0..(N - 1) -> S]
      /\ Count(q, N) \in 0..(N - 1)
  BY RingTyped
<1>2. /\ p \in Rings(N, S) /\ p.w = q.w /\ p.r = q.r
      /\ p.slot = [q.slot EXCEPT ![q.w] = c] /\ p.slot[p.w] = c
  BY <1>1 DEF Rings, SlotFilled
<1> HIDE DEF p
<1>3. Count(p, N) = Count(q, N) /\ IsFull(p, N) = IsFull(q, N)
  BY <1>2 DEF Count, IsFull
<1>4. ASSUME NEW i \in 1..Count(q, N)
      PROVE  p.slot[SlotOf(p, i, N)] = q.slot[SlotOf(q, i, N)]
  <2>1. SlotOf(q, i, N) # q.w /\ SlotOf(q, i, N) \in 0..(N - 1)
    BY FreeSlot, ContentsAre
  <2>2. SlotOf(p, i, N) = SlotOf(q, i, N)
    BY <1>2 DEF SlotOf
  <2>3. QED
    BY <1>1, <1>2, <2>1, <2>2
<1>5. ASSUME NEW i \in 1..Count(q, N)
      PROVE  Contents(p, N)[i] = Contents(q, N)[i]
  <2>1. Contents(p, N)[i] = p.slot[SlotOf(p, i, N)]
    BY <1>2, <1>3, ContentsAt
  <2>2. Contents(q, N)[i] = q.slot[SlotOf(q, i, N)]
    BY ContentsAt
  <2>3. QED
    BY <1>4, <2>1, <2>2
<1>6. /\ Contents(p, N) \in Seq(S) /\ Len(Contents(p, N)) = Count(q, N)
      /\ Contents(q, N) \in Seq(S) /\ Len(Contents(q, N)) = Count(q, N)
  BY <1>2, <1>3, ContentsAre
<1>7. Contents(p, N) = Contents(q, N)
  BY <1>5, <1>6
<1>8. QED
  BY <1>2, <1>3, <1>7 DEF p

\* A ring without elements.
LEMMA EmptyContents ==
  ASSUME NEW N \in Nat, N > 1, NEW S, NEW q \in Rings(N, S)
  PROVE  IsEmpty(q) <=> Contents(q, N) = <<>>
<1>1. /\ IsEmpty(q) <=> Count(q, N) = 0
      /\ Contents(q, N) \in Seq(S) /\ Len(Contents(q, N)) = Count(q, N)
  BY RingTyped, ContentsAre
<1>2. QED
  BY <1>1

-----------------------------------------------------------------------------
(* The handler: what its parts do to the state it works on.                *)

Handling == [tx : Rings(TxSize, Char), rx : Rings(RxSize, Char),
             fifo : BoundedSeq(Char, FifoSize), cr : BOOLEAN, on : BOOLEAN]

Out(u) == u.fifo \o Contents(u.tx, TxSize)
In(u)  == Contents(u.rx, RxSize)

LEMMA Sizes ==
  /\ TxSize \in Nat /\ TxSize > 1 /\ RxSize \in Nat /\ RxSize > 1
  /\ FifoSize \in Nat /\ TxLevel \in Nat /\ TxLevel < FifoSize
  /\ LineSize \in Nat /\ LineSize > 0 /\ MaxTyped \in Nat /\ MaxCalls \in Nat
BY SizesAssumption, BoundsAssumption

LEMMA HandlingTyped ==
  ASSUME NEW u \in Handling
  PROVE  /\ u.tx \in Rings(TxSize, Char) /\ u.rx \in Rings(RxSize, Char)
         /\ u.fifo \in Seq(Char) /\ Len(u.fifo) <= FifoSize /\ Len(u.fifo) \in Nat
         /\ Contents(u.tx, TxSize) \in Seq(Char)
         /\ Len(Contents(u.tx, TxSize)) = Count(u.tx, TxSize)
         /\ Count(u.tx, TxSize) \in Nat
         /\ Contents(u.rx, RxSize) \in Seq(Char)
         /\ Len(Contents(u.rx, RxSize)) = Count(u.rx, RxSize)
         /\ Count(u.rx, RxSize) \in Nat
         /\ Out(u) \in Seq(Char) /\ In(u) \in Seq(Char)
         /\ u.cr \in BOOLEAN /\ u.on \in BOOLEAN
<1>1. /\ u.tx \in Rings(TxSize, Char) /\ u.rx \in Rings(RxSize, Char)
      /\ u.fifo \in BoundedSeq(Char, FifoSize) /\ u.cr \in BOOLEAN /\ u.on \in BOOLEAN
  BY DEF Handling
<1>2. u.fifo \in Seq(Char) /\ Len(u.fifo) <= FifoSize
  BY <1>1, Sizes, BoundedSeqIs
<1>3. /\ Contents(u.tx, TxSize) \in Seq(Char)
      /\ Len(Contents(u.tx, TxSize)) = Count(u.tx, TxSize)
  BY <1>1, Sizes, ContentsAre
<1>4. /\ Contents(u.rx, RxSize) \in Seq(Char)
      /\ Len(Contents(u.rx, RxSize)) = Count(u.rx, RxSize)
  BY <1>1, Sizes, ContentsAre
<1>5. Len(u.fifo) \in Nat /\ Count(u.tx, TxSize) \in Nat /\ Count(u.rx, RxSize) \in Nat
  BY <1>2, <1>3, <1>4, LenProperties
<1>6. Out(u) \in Seq(Char) /\ In(u) \in Seq(Char)
  BY <1>2, <1>3, <1>4 DEF Out, In
<1>7. QED
  BY <1>1, <1>2, <1>3, <1>4, <1>5, <1>6

\* UARTPrimeTransmit moves the front of the ring to the end of the FIFO, which then
\* is full or has all of it.
LEMMA PrimedKeeps ==
  ASSUME NEW u \in Handling
  PROVE  /\ Primed(u) \in Handling
         /\ Out(Primed(u)) = Out(u)
         /\ Primed(u).rx = u.rx /\ Primed(u).cr = u.cr /\ Primed(u).on = u.on
         /\ Primed(u).tx.w = u.tx.w /\ Primed(u).tx.slot = u.tx.slot
         /\ Count(Primed(u).tx, TxSize) <= Count(u.tx, TxSize)
         /\ IsEmpty(Primed(u).tx) \/ Len(Primed(u).fifo) = FifoSize
<1> DEFINE c == Contents(u.tx, TxSize)
           n == Count(u.tx, TxSize)
           m == Len(u.fifo)
           k == IF n < FifoSize - m THEN n ELSE FifoSize - m
           v == Primed(u)
           front == SubSeq(c, 1, k)
<1>1. /\ u.tx \in Rings(TxSize, Char) /\ u.fifo \in Seq(Char)
      /\ m \in Nat /\ m <= FifoSize /\ n \in Nat
      /\ c \in Seq(Char) /\ Len(c) = n
  BY HandlingTyped
<1>2. k \in 0..n /\ k \in Nat /\ m + k <= FifoSize /\ (k = n \/ m + k = FifoSize)
  <2> HIDE DEF n, m, c
  <2>1. n \in Nat /\ m \in Nat /\ FifoSize \in Nat /\ m <= FifoSize
    BY <1>1, Sizes
  <2>2. CASE n < FifoSize - m
    BY <2>1, <2>2
  <2>3. CASE ~(n < FifoSize - m)
    <3>1. k = FifoSize - m
      BY <2>3
    <3> HIDE DEF k
    <3>2. QED
      BY <2>1, <2>3, <3>1
  <2>4. QED
    BY <2>2, <2>3
<1>3. v = [u EXCEPT !.fifo = @ \o front, !.tx = Taken(@, k, TxSize)]
  BY Zenon DEF Primed, Taken
<1>4. front \in Seq(Char) /\ Len(front) = k
  <2> HIDE DEF k, c, n
  <2>1. QED
    BY <1>1, <1>2
<1> DEFINE p == Taken(u.tx, k, TxSize)
<1>5. /\ p \in Rings(TxSize, Char) /\ p.w = u.tx.w /\ p.slot = u.tx.slot
      /\ Count(p, TxSize) = n - k
      /\ Contents(p, TxSize) = SubSeq(c, k + 1, n)
  <2> HIDE DEF k
  <2>1. QED
    BY <1>1, <1>2, Sizes, TakeMany
<1>6. /\ v.fifo = u.fifo \o front /\ v.tx = p /\ v.rx = u.rx /\ v.cr = u.cr /\ v.on = u.on
  <2> HIDE DEF k, front, v
  <2>1. QED
    BY <1>3 DEF Handling
<1> HIDE DEF k, p, front
<1>7. v.fifo \in BoundedSeq(Char, FifoSize) /\ Len(v.fifo) = m + k
  <2>1. v.fifo \in Seq(Char) /\ Len(v.fifo) = m + k
    BY <1>1, <1>4, <1>6, ConcatProperties
  <2> HIDE DEF m, v
  <2>2. QED
    BY <1>2, <2>1, Sizes, BoundedSeqIs
<1>8. v \in Handling
  BY <1>3, <1>5, <1>6, <1>7 DEF Handling
<1>9. Out(v) = Out(u)
  <2>1. front \o SubSeq(c, k + 1, n) = c
    <3>1. 1 \in 1..(Len(c) + 1) /\ k \in (1 - 1)..Len(c) /\ n \in k..Len(c)
      BY <1>1, <1>2
    <3>2. SubSeq(c, 1, k) \o SubSeq(c, k + 1, n) = SubSeq(c, 1, n)
      BY <1>1, <3>1, ConcatAdjacentSubSeq
    <3>3. QED
      BY <1>1, <3>2, SubSeqFull DEF front
  <2>2. SubSeq(c, k + 1, n) \in Seq(Char)
    BY <1>5, Sizes, ContentsAre
  <2>3. (u.fifo \o front) \o SubSeq(c, k + 1, n) = u.fifo \o c
    <3> DEFINE rest == SubSeq(c, k + 1, n)
    <3>0. /\ rest \in Seq(Char) /\ u.fifo \in Seq(Char) /\ front \in Seq(Char)
      BY <1>1, <1>4, <2>2
    <3> HIDE DEF c, n, rest, m, v
    <3>1. \A x, y, z \in Seq(Char) : (x \o y) \o z = x \o (y \o z)
      BY Regrouped
    <3>2. (u.fifo \o front) \o rest = u.fifo \o (front \o rest)
      BY <3>0, <3>1, Zenon
    <3>3. front \o rest = c
      BY <2>1 DEF rest
    <3>4. QED
      BY <3>2, <3>3 DEF rest
  <2>4. QED
    BY <1>5, <1>6, <2>3 DEF Out
<1>10. IsEmpty(v.tx) \/ Len(v.fifo) = FifoSize
  <2>1. k = n => Count(p, TxSize) = 0
    BY <1>1, <1>5
  <2>2. k = n => IsEmpty(p)
    BY <1>5, <2>1, Sizes, RingTyped
  <2>3. QED
    BY <1>2, <1>6, <1>7, <2>2
<1>11. Count(v.tx, TxSize) <= n
  BY <1>1, <1>2, <1>5, <1>6
<1>12. QED
  BY <1>5, <1>6, <1>8, <1>9, <1>10, <1>11
\* A character queued goes to the end, or is left out.
LEMMA QueuedExtends ==
  ASSUME NEW q \in Rings(TxSize, Char), NEW c \in Char
  PROVE  /\ Queued(q, c) \in Rings(TxSize, Char)
         /\ IsPrefix(Contents(q, TxSize), Contents(Queued(q, c), TxSize))
<1>1. Contents(q, TxSize) \in Seq(Char)
  BY Sizes, ContentsAre
<1>2. CASE IsFull(q, TxSize)
  BY <1>1, <1>2, PrefixRefl DEF Queued
<1>3. CASE ~IsFull(q, TxSize)
  <2>1. /\ Put(q, c, TxSize) \in Rings(TxSize, Char)
        /\ Contents(Put(q, c, TxSize), TxSize) = Append(Contents(q, TxSize), c)
    BY <1>3, Sizes, PutAppends
  <2>2. IsPrefix(Contents(q, TxSize), Append(Contents(q, TxSize), c))
    BY <1>1, PrefixOfAppend
  <2>3. QED
    BY <1>3, <2>1, <2>2 DEF Queued
<1>4. QED
  BY <1>2, <1>3

\* A text queued goes to the end, as far as there is room.
LEMMA AllQueuedExtends ==
  ASSUME NEW q \in Rings(TxSize, Char), NEW text \in Seq(Char)
  PROVE  /\ FoldLeft(Queued, q, text) \in Rings(TxSize, Char)
         /\ IsPrefix(Contents(q, TxSize), Contents(FoldLeft(Queued, q, text), TxSize))
<1> DEFINE N == Len(text)
           X == Rings(TxSize, Char)
           F == [p \in X \X Char |-> Queued(p[1], p[2])]
           IsFold(it) == it = [s \in SUBSET (DOMAIN text) |->
                                 IF s = {} THEN q
                                 ELSE Queued(it[s \ {Max(s)}], text[Max(s)])]
           iter == CHOOSE it : IsFold(it)
<1>1. N \in Nat /\ text \in [1..N -> Char] /\ DOMAIN text = 1..N
  BY LenProperties, SMT
<1>2. F \in [X \X Char -> X]
  <2>1. \A p \in X \X Char : p[1] \in X /\ p[2] \in Char
    OBVIOUS
  <2>2. \A p \in X \X Char : Queued(p[1], p[2]) \in X
    BY <2>1, QueuedExtends
  <2>3. QED
    BY <2>2
<1>3. \A x \in X, y \in Char : F[<<x, y>>] = Queued(x, y)
  OBVIOUS
<1> HIDE DEF N, F, X
<1>4. q \in X
  BY DEF X
<1>5. IsFold(iter)
  <2>1. PICK g \in [SUBSET (1..N) -> X] : IsFoldOn(g, F, q, text, N)
    BY <1>1, <1>2, <1>4, FoldExists
  <2>2. ASSUME NEW s \in SUBSET (1..N)
        PROVE  g[s] = IF s = {} THEN q ELSE Queued(g[s \ {Max(s)}], text[Max(s)])
    <3>1. CASE s = {}
      BY <2>1, <3>1 DEF IsFoldOn
    <3>2. CASE s # {}
      <4>1. Max(s) \in 1..N /\ g[s] = F[<<g[s \ {Max(s)}], text[Max(s)]>>]
        BY <2>1, <3>2 DEF IsFoldOn
      <4>2. s \ {Max(s)} \in SUBSET (1..N)
        OBVIOUS
      <4>3. g[s \ {Max(s)}] \in X /\ text[Max(s)] \in Char
        BY <1>1, <4>1, <4>2
      <4>4. QED
        BY <1>3, <3>2, <4>1, <4>3
    <3>3. QED
      BY <3>1, <3>2
  <2>3. IsFold(g)
    BY <1>1, <2>2
  <2> HIDE DEF IsFold
  <2>4. QED
    BY <2>3, Zenon
<1>6. FoldLeft(Queued, q, text) = iter[1..N]
  BY <1>1, Zenon DEF FoldLeft, MapThenFoldSet, IsFold
<1> HIDE DEF iter
<1>7. iter[{}] = q
  BY <1>1, <1>5
<1>8. StepsOn(iter, X, Char, F, q, text, N)
  BY <1>1, <1>3, <1>5, <1>7 DEF StepsOn
<1>9. PICK a \in [0..N -> X] : IsRun(a, F, q, text, N) /\ a[N] = iter[1..N]
  <2> HIDE DEF IsFold
  <2>1. HasRun(iter[1..N], X, F, q, text, N)
    BY <1>1, <1>2, <1>4, <1>8, FoldRuns
  <2>2. QED
    BY <2>1 DEF HasRun
<1> DEFINE T == {k \in 0..N : IsPrefix(Contents(q, TxSize), Contents(a[k], TxSize))}
<1>10. \A x \in X : Contents(x, TxSize) \in Seq(Char)
  BY Sizes, ContentsAre DEF X
<1>11. 0 \in T
  BY <1>1, <1>4, <1>9, <1>10, PrefixRefl DEF IsRun
<1>12. \A k \in 1..N : k - 1 \in T => k \in T
  <2>1. SUFFICES ASSUME NEW k \in 1..N, k - 1 \in T PROVE k \in T
    BY Zenon
  <2>2. k \in 0..N /\ k - 1 \in 0..N
    BY <1>1
  <2>3. a[k - 1] \in X /\ a[k] \in X /\ text[k] \in Char
    BY <1>1, <2>2
  <2>4. a[k] = Queued(a[k - 1], text[k])
    BY <1>3, <1>9, <2>3 DEF IsRun
  <2>5. IsPrefix(Contents(a[k - 1], TxSize), Contents(a[k], TxSize))
    BY <2>3, <2>4, QueuedExtends DEF X
  <2>6. IsPrefix(Contents(q, TxSize), Contents(a[k - 1], TxSize))
    BY <2>1
  <2>7. IsPrefix(Contents(q, TxSize), Contents(a[k], TxSize))
    BY <1>4, <1>10, <2>3, <2>5, <2>6, PrefixTrans
  <2>8. QED
    BY <2>2, <2>7
<1>13. N \in T
  <2> HIDE DEF T
  <2>1. N \in 0..N
    BY <1>1
  <2>2. QED
    BY <1>1, <1>11, <1>12, <2>1, UpTo
<1>14. a[N] \in X
  BY <1>1
<1>15. QED
  BY <1>6, <1>9, <1>13, <1>14 DEF X
LEMMA CharsAre == CR \in Char /\ LF \in Char /\ ESC \in Char /\ BS \in Char /\ " " \in Char
BY DEF Char, Ends

LEMMA ShortSeqs ==
  ASSUME NEW S, NEW a \in S, NEW b \in S, NEW c \in S
  PROVE  <<a>> \in Seq(S) /\ <<a, b>> \in Seq(S) /\ <<a, b, c>> \in Seq(S)
OBVIOUS

LEMMA ExpandedTyped ==
  ASSUME NEW text \in Seq(Char)
  PROVE  Expanded(text) \in Seq(Char)
<1> DEFINE seqs == [i \in 1..Len(text) |-> IF text[i] = LF THEN <<CR, LF>> ELSE <<text[i]>>]
<1>1. ASSUME NEW i \in 1..Len(text)
      PROVE  seqs[i] \in Seq(Char)
  <2>1. text[i] \in Char
    OBVIOUS
  <2>2. <<CR, LF>> \in Seq(Char) /\ <<text[i]>> \in Seq(Char)
    BY <2>1, CharsAre, ShortSeqs, Zenon
  <2>3. QED
    BY <2>2
<1>2. seqs \in Seq(Seq(Char))
  <2>1. seqs \in [1..Len(text) -> Seq(Char)] /\ Len(text) \in Nat
    BY <1>1
  <2> HIDE DEF seqs
  <2>2. QED
    BY <2>1
<1> HIDE DEF seqs
<1>3. FlattenSeq(seqs) \in Seq(Char)
  BY <1>2, FlattenTyped
<1>4. QED
  BY <1>3 DEF Expanded, seqs

\* UARTwrite within the handler puts all it queues behind what was to go out.
LEMMA WroteKeeps ==
  ASSUME NEW u \in Handling, NEW text \in Seq(Char)
  PROVE  /\ Wrote(u, text) \in Handling
         /\ IsPrefix(Out(u), Out(Wrote(u, text)))
         /\ Wrote(u, text).rx = u.rx /\ Wrote(u, text).cr = u.cr
<1> DEFINE q == FoldLeft(Queued, u.tx, Expanded(text))
           v == [u EXCEPT !.tx = q]
<1>1. u.tx \in Rings(TxSize, Char) /\ u.fifo \in Seq(Char) /\ Expanded(text) \in Seq(Char)
  BY HandlingTyped, ExpandedTyped
<1>2. /\ q \in Rings(TxSize, Char)
      /\ IsPrefix(Contents(u.tx, TxSize), Contents(q, TxSize))
  BY <1>1, AllQueuedExtends
<1>3. Wrote(u, text) = IF IsEmpty(v.tx) THEN v ELSE [Primed(v) EXCEPT !.on = TRUE]
  BY Zenon DEF Wrote
<1> HIDE DEF q
<1>4. v \in Handling /\ v.tx = q /\ v.fifo = u.fifo /\ v.rx = u.rx /\ v.cr = u.cr
  BY <1>2 DEF Handling
<1> HIDE DEF v
<1>5. Contents(u.tx, TxSize) \in Seq(Char) /\ Contents(q, TxSize) \in Seq(Char)
  BY <1>1, <1>2, Sizes, ContentsAre
<1>6. IsPrefix(Out(u), Out(v))
  BY <1>1, <1>2, <1>4, <1>5, PrefixOfConcat DEF Out
<1>7. CASE IsEmpty(v.tx)
  BY <1>3, <1>4, <1>6, <1>7
<1>8. CASE ~IsEmpty(v.tx)
  <2> DEFINE p == Primed(v)
             x == [p EXCEPT !.on = TRUE]
  <2>1. p \in Handling /\ Out(p) = Out(v) /\ p.rx = v.rx /\ p.cr = v.cr
    BY <1>4, PrimedKeeps
  <2>2. Wrote(u, text) = x
    BY <1>3, <1>8
  <2> HIDE DEF p
  <2>3. /\ x \in Handling /\ x.tx = p.tx /\ x.fifo = p.fifo /\ x.rx = p.rx
        /\ x.cr = p.cr
    BY <2>1 DEF Handling
  <2>4. Out(x) = Out(p)
    BY <2>3 DEF Out
  <2>5. QED
    BY <1>4, <1>6, <2>1, <2>2, <2>3, <2>4
<1>9. QED
  BY <1>7, <1>8

\* What one character received does to the two queues.
Adds(u, v) ==
  /\ v \in Handling
  /\ IsPrefix(Out(u), Out(v)) /\ IsPrefix(In(u), In(v)) /\ Len(In(v)) <= Len(In(u)) + 1

Erased(u, v) ==
  /\ v \in Handling
  /\ IsPrefix(Out(u), Out(v))
  /\ In(u) # <<>> /\ In(v) = SubSeq(In(u), 1, Len(In(u)) - 1)

SameOut(u, v) == v.tx = u.tx /\ v.fifo = u.fifo

LEMMA StoredKeeps ==
  ASSUME NEW u \in Handling, NEW c \in Char
  PROVE  Adds(u, Stored(u, c)) /\ SameOut(u, Stored(u, c))
<1>1. Out(u) \in Seq(Char) /\ In(u) \in Seq(Char) /\ u.rx \in Rings(RxSize, Char)
  BY HandlingTyped
<1>2. Len(In(u)) \in Nat
  BY <1>1, LenProperties
<1>3. CASE IsFull(u.rx, RxSize)
  <2>1. Stored(u, c) = u
    BY <1>3 DEF Stored
  <2>2. QED
    BY <1>1, <1>2, <2>1, PrefixRefl DEF Adds, SameOut
<1>4. CASE ~IsFull(u.rx, RxSize)
  <2> DEFINE q == Put(u.rx, c, RxSize)
             v == [u EXCEPT !.rx = q]
  <2>1. Stored(u, c) = v
    BY <1>4 DEF Stored
  <2>2. q \in Rings(RxSize, Char) /\ Contents(q, RxSize) = Append(In(u), c)
    BY <1>1, <1>4, Sizes, PutAppends DEF In
  <2> HIDE DEF q
  <2>3. v \in Handling /\ v.rx = q /\ v.tx = u.tx /\ v.fifo = u.fifo
    BY <2>2 DEF Handling
  <2> HIDE DEF v
  <2>4. Out(v) = Out(u) /\ In(v) = Append(In(u), c)
    BY <2>2, <2>3 DEF Out, In
  <2>5. IsPrefix(In(u), In(v)) /\ Len(In(v)) = Len(In(u)) + 1
    BY <1>1, <2>4, PrefixOfAppend, AppendProperties
  <2>6. IsPrefix(Out(u), Out(v))
    BY <1>1, <2>4, PrefixRefl
  <2>7. Len(In(v)) <= Len(In(u)) + 1
    BY <1>2, <2>5
  <2>8. QED
    BY <2>1, <2>3, <2>5, <2>6, <2>7 DEF Adds, SameOut
<1>5. QED
  BY <1>3, <1>4

\* What is written first, and after it, goes behind what was to go out.
LEMMA WroteThenAdds ==
  ASSUME NEW u \in Handling, NEW v \in Handling, NEW x,
         IsPrefix(Out(u), Out(v)), v.rx = u.rx, Adds(v, x)
  PROVE  Adds(u, x)
<1>1. In(v) = In(u)
  BY DEF In
<1>2. /\ x \in Handling /\ IsPrefix(Out(v), Out(x))
      /\ IsPrefix(In(u), In(x)) /\ Len(In(x)) <= Len(In(u)) + 1
  BY <1>1 DEF Adds
<1>3. Out(u) \in Seq(Char) /\ Out(v) \in Seq(Char) /\ Out(x) \in Seq(Char)
  BY <1>2, HandlingTyped
<1>4. IsPrefix(Out(u), Out(x))
  BY <1>2, <1>3, PrefixTrans
<1>5. QED
  BY <1>2, <1>4 DEF Adds

LEMMA AddsThenWrote ==
  ASSUME NEW u \in Handling, NEW v, NEW x \in Handling,
         Adds(u, v), IsPrefix(Out(v), Out(x)), x.rx = v.rx
  PROVE  Adds(u, x)
<1>1. In(x) = In(v)
  BY DEF In
<1>2. /\ v \in Handling /\ IsPrefix(Out(u), Out(v))
      /\ IsPrefix(In(u), In(x)) /\ Len(In(x)) <= Len(In(u)) + 1
  BY <1>1 DEF Adds
<1>3. Out(u) \in Seq(Char) /\ Out(v) \in Seq(Char) /\ Out(x) \in Seq(Char)
  BY <1>2, HandlingTyped
<1>4. IsPrefix(Out(u), Out(x))
  BY <1>2, <1>3, PrefixTrans
<1>5. QED
  BY <1>2, <1>4 DEF Adds

LEMMA StaysAdds ==
  ASSUME NEW u \in Handling
  PROVE  Adds(u, u)
<1>1. Out(u) \in Seq(Char) /\ In(u) \in Seq(Char) /\ Len(In(u)) \in Nat
  BY HandlingTyped, LenProperties
<1>2. QED
  BY <1>1, PrefixRefl DEF Adds

LEMMA StoredAndShownKeeps ==
  ASSUME NEW u \in Handling, NEW c \in Char, NEW shown \in Char
  PROVE  Adds(u, StoredAndShown(u, c, shown))
<1>1. CASE IsFull(u.rx, RxSize)
  BY <1>1, StaysAdds DEF StoredAndShown
<1>2. CASE ~IsFull(u.rx, RxSize)
  <2> DEFINE v == Stored(u, c)
             x == Wrote(v, <<shown>>)
  <2>1. Adds(u, v) /\ v \in Handling
    BY StoredKeeps DEF Adds
  <2>2. <<shown>> \in Seq(Char)
    OBVIOUS
  <2> HIDE DEF v
  <2>3. x \in Handling /\ IsPrefix(Out(v), Out(x)) /\ x.rx = v.rx
    BY <2>1, <2>2, WroteKeeps
  <2> HIDE DEF x
  <2>4. Adds(u, x)
    BY <2>1, <2>3, AddsThenWrote
  <2>5. QED
    BY <1>2, <2>4 DEF StoredAndShown, x, v
<1>3. QED
  BY <1>1, <1>2

\* A character with the echo on.
LEMMA EchoKeeps ==
  ASSUME NEW u \in Handling, NEW c \in Char
  PROVE  \/ Adds(u, ReceivedWithEcho(u, c))
         \/ c = BS /\ Erased(u, ReceivedWithEcho(u, c))
<1>1. CASE c = BS /\ IsEmpty(u.rx)
  BY <1>1, StaysAdds DEF ReceivedWithEcho
<1>2. CASE c = BS /\ ~IsEmpty(u.rx)
  <2> DEFINE w == Wrote(u, <<BS, " ", BS>>)
             q == DropNewest(u.rx, RxSize)
             x == [w EXCEPT !.rx = q]
  <2>1. <<BS, " ", BS>> \in Seq(Char)
    BY CharsAre, ShortSeqs, Zenon
  <2>2. w \in Handling /\ IsPrefix(Out(u), Out(w)) /\ w.rx = u.rx
    BY <2>1, WroteKeeps
  <2>3. ReceivedWithEcho(u, c) = [w EXCEPT !.rx = DropNewest(@, RxSize)]
    BY <1>2 DEF ReceivedWithEcho
  <2> HIDE DEF w
  <2>4. ReceivedWithEcho(u, c) = x
    BY <2>2, <2>3
  <2>5. u.rx \in Rings(RxSize, Char)
    BY HandlingTyped
  <2>6. /\ q \in Rings(RxSize, Char)
        /\ Contents(q, RxSize) = SubSeq(In(u), 1, Len(In(u)) - 1)
    BY <1>2, <2>5, Sizes, DropNewestLeavesFront DEF In
  <2> HIDE DEF q
  <2>7. x \in Handling /\ x.rx = q /\ x.tx = w.tx /\ x.fifo = w.fifo
    BY <2>2, <2>6 DEF Handling
  <2> HIDE DEF x
  <2>8. Out(x) = Out(w) /\ In(x) = SubSeq(In(u), 1, Len(In(u)) - 1)
    BY <2>6, <2>7 DEF Out, In
  <2>9. In(u) # <<>>
    BY <1>2, <2>5, Sizes, EmptyContents DEF In
  <2>10. QED
    BY <1>2, <2>2, <2>4, <2>7, <2>8, <2>9 DEF Erased
<1>3. CASE c # BS /\ c = LF /\ u.cr
  <2> DEFINE x == [u EXCEPT !.cr = FALSE]
  <2>1. x \in Handling /\ x.rx = u.rx /\ x.tx = u.tx /\ x.fifo = u.fifo
    BY DEF Handling
  <2>2. ReceivedWithEcho(u, c) = x
    BY <1>3 DEF ReceivedWithEcho
  <2> HIDE DEF x
  <2>3. Out(x) = Out(u) /\ In(x) = In(u)
    BY <2>1 DEF Out, In
  <2>4. Adds(u, x)
    BY <2>1, <2>3, StaysAdds DEF Adds
  <2>5. QED
    BY <2>2, <2>4
<1>4. CASE c # BS /\ ~(c = LF /\ u.cr) /\ c \in Ends
  <2> DEFINE v == [u EXCEPT !.cr = @ \/ c = CR]
             w == Wrote(v, <<LF>>)
             x == StoredAndShown(w, c, CR)
  <2>1. v \in Handling /\ v.rx = u.rx /\ v.tx = u.tx /\ v.fifo = u.fifo
    BY DEF Handling
  <2>2. ReceivedWithEcho(u, c) = x
    BY <1>4, Zenon DEF ReceivedWithEcho
  <2>3. Out(v) = Out(u)
    BY <2>1 DEF Out
  <2>4. <<LF>> \in Seq(Char) /\ CR \in Char
    BY CharsAre, ShortSeqs, Zenon
  <2> HIDE DEF v
  <2>5. w \in Handling /\ IsPrefix(Out(u), Out(w)) /\ w.rx = u.rx
    BY <2>1, <2>3, <2>4, WroteKeeps
  <2> HIDE DEF w
  <2>6. Adds(w, x)
    BY <2>4, <2>5, StoredAndShownKeeps
  <2> HIDE DEF x
  <2>7. Adds(u, x)
    BY <2>5, <2>6, WroteThenAdds
  <2>8. QED
    BY <2>2, <2>7
<1>5. CASE c # BS /\ ~(c = LF /\ u.cr) /\ c \notin Ends
  <2>1. ReceivedWithEcho(u, c) = StoredAndShown(u, c, c)
    BY <1>5, Zenon DEF ReceivedWithEcho
  <2>2. QED
    BY <2>1, StoredAndShownKeeps
<1>6. QED
  BY <1>1, <1>2, <1>3, <1>4, <1>5

LEMMA ReceivedKeeps ==
  ASSUME NEW u \in Handling, NEW c \in Char
  PROVE  /\ \/ Adds(u, Received(u, c))
            \/ echo /\ c = BS /\ Erased(u, Received(u, c))
         /\ ~echo => SameOut(u, Received(u, c))
         /\ Received(u, c) \in Handling
<1>1. CASE echo
  <2>1. Received(u, c) = ReceivedWithEcho(u, c)
    BY <1>1 DEF Received
  <2>2. QED
    BY <1>1, <2>1, EchoKeeps DEF Adds, Erased
<1>2. CASE ~echo
  <2>1. Received(u, c) = Stored(u, c)
    BY <1>2 DEF Received
  <2>2. QED
    BY <1>2, <2>1, StoredKeeps DEF Adds
<1>3. QED
  BY <1>1, <1>2
\* After k characters: at most k are added, and at most k of the newest taken back,
\* none when quiet; with the echo off nothing is sent.
Kept(s, t, j) == j <= Len(s) /\ j <= Len(t) /\ \A i \in 1..j : s[i] = t[i]

After(u, v, k, quiet) ==
  /\ IsPrefix(Out(u), Out(v)) /\ Len(In(v)) <= Len(In(u)) + k
  /\ \E j \in Nat : Kept(In(u), In(v), j) /\ j >= Len(In(u)) - k /\ (quiet => j = Len(In(u)))
  /\ ~echo => SameOut(u, v)

LEMMA NoneReceived ==
  ASSUME NEW u \in Handling, NEW quiet
  PROVE  After(u, u, 0, quiet)
<1>1. Out(u) \in Seq(Char) /\ In(u) \in Seq(Char) /\ Len(In(u)) \in Nat
  BY HandlingTyped, LenProperties
<1>2. Kept(In(u), In(u), Len(In(u)))
  BY <1>1 DEF Kept
<1>3. IsPrefix(Out(u), Out(u)) /\ SameOut(u, u)
  BY <1>1, PrefixRefl DEF SameOut
<1>4. Len(In(u)) <= Len(In(u)) + 0 /\ Len(In(u)) >= Len(In(u)) - 0
  BY <1>1
<1>5. QED
  BY <1>1, <1>2, <1>3, <1>4, Zenon DEF After

LEMMA OneMoreReceived ==
  ASSUME NEW u \in Handling, NEW v \in Handling, NEW k \in Nat, NEW c \in Char,
         NEW quiet \in BOOLEAN, quiet => ~echo \/ c # BS, After(u, v, k, quiet)
  PROVE  After(u, Received(v, c), k + 1, quiet)
<1> DEFINE x == Received(v, c)
<1>1. /\ x \in Handling
      /\ Adds(v, x) \/ (echo /\ c = BS /\ Erased(v, x))
      /\ ~echo => SameOut(v, x)
  BY ReceivedKeeps, Zenon
<1> HIDE DEF x
<1> DEFINE a == In(u)
           b == In(v)
           d == In(x)
<1>2. /\ a \in Seq(Char) /\ b \in Seq(Char) /\ d \in Seq(Char)
      /\ Out(u) \in Seq(Char) /\ Out(v) \in Seq(Char) /\ Out(x) \in Seq(Char)
      /\ Len(a) \in Nat /\ Len(b) \in Nat /\ Len(d) \in Nat
  BY <1>1, HandlingTyped, LenProperties
<1>3. IsPrefix(Out(u), Out(x))
  <2>1. IsPrefix(Out(u), Out(v)) /\ IsPrefix(Out(v), Out(x))
    BY <1>1 DEF After, Adds, Erased
  <2>2. QED
    BY <1>2, <2>1, PrefixTrans
<1>4. ~echo => SameOut(u, x)
  BY <1>1 DEF After, SameOut
<1>5. Len(b) <= Len(a) + k
  BY DEF After
<1>6. PICK j \in Nat : Kept(a, b, j) /\ j >= Len(a) - k /\ (quiet => j = Len(a))
  BY DEF After
<1> HIDE DEF a, b, d
<1>7. CASE Adds(v, x)
  <2>1. IsPrefix(b, d) /\ Len(d) <= Len(b) + 1
    BY <1>7 DEF Adds, b, d
  <2>2. Len(b) <= Len(d) /\ \A i \in 1..Len(b) : b[i] = d[i]
    BY <1>2, <2>1, PrefixIs
  <2>3. Kept(a, d, j)
    <3>1. j <= Len(a) /\ j <= Len(b) /\ \A i \in 1..j : a[i] = b[i]
      BY <1>6 DEF Kept
    <3>2. j <= Len(d) /\ \A i \in 1..j : i \in 1..Len(b)
      BY <1>2, <2>2, <3>1
    <3>3. \A i \in 1..j : a[i] = d[i]
      BY <2>2, <3>1, <3>2
    <3>4. QED
      BY <3>1, <3>2, <3>3 DEF Kept
  <2>4. Len(d) <= Len(a) + (k + 1) /\ j >= Len(a) - (k + 1)
    BY <1>2, <1>5, <1>6, <2>1
  <2>5. QED
    BY <1>3, <1>4, <1>6, <2>3, <2>4, Zenon DEF After, a, d, x
<1>8. CASE echo /\ c = BS /\ Erased(v, x)
  <2>1. b # <<>> /\ d = SubSeq(b, 1, Len(b) - 1)
    BY <1>8 DEF Erased, b, d
  <2>2. Len(b) > 0 /\ Len(d) = Len(b) - 1 /\ \A i \in 1..Len(d) : d[i] = b[i]
    <3>1. Len(b) > 0
      BY <1>2, <2>1
    <3> DEFINE m == Len(b) - 1
    <3>2. m \in Nat /\ m <= Len(b) /\ d = SubSeq(b, 1, m)
      BY <1>2, <2>1, <3>1
    <3> HIDE DEF m
    <3>3. Len(d) = m /\ \A i \in 1..m : d[i] = b[i]
      BY <1>2, <3>2, FrontIs
    <3>4. QED
      BY <3>1, <3>3 DEF m
  <2> DEFINE m == IF j <= Len(d) THEN j ELSE Len(d)
  <2>3. m \in Nat /\ m <= j /\ m <= Len(d) /\ m >= j - 1
    <3>1. j <= Len(b)
      BY <1>6 DEF Kept
    <3>2. QED
      BY <1>2, <2>2, <3>1
  <2> HIDE DEF m
  <2>4. Kept(a, d, m)
    BY <1>2, <1>6, <2>2, <2>3 DEF Kept
  <2>5. Len(d) <= Len(a) + (k + 1) /\ m >= Len(a) - (k + 1)
    BY <1>2, <1>5, <1>6, <2>2, <2>3
  <2>6. ~quiet
    BY <1>8
  <2>7. QED
    BY <1>3, <1>4, <2>3, <2>4, <2>5, <2>6, Zenon DEF After, a, d, x
<1>9. QED
  BY <1>1, <1>7, <1>8

\* The characters of the FIFO, one after the other.
LEMMA AllReceivedKeeps ==
  ASSUME NEW u \in Handling, NEW keys \in Seq(Char), NEW quiet \in BOOLEAN,
         quiet => ~echo \/ \A i \in 1..Len(keys) : keys[i] # BS
  PROVE  /\ FoldLeft(Received, u, keys) \in Handling
         /\ After(u, FoldLeft(Received, u, keys), Len(keys), quiet)
<1> DEFINE N == Len(keys)
           X == Handling
           F == [p \in X \X Char |-> Received(p[1], p[2])]
           IsFold(it) == it = [s \in SUBSET (DOMAIN keys) |->
                                 IF s = {} THEN u
                                 ELSE Received(it[s \ {Max(s)}], keys[Max(s)])]
           iter == CHOOSE it : IsFold(it)
<1>1. N \in Nat /\ keys \in [1..N -> Char] /\ DOMAIN keys = 1..N
  BY LenProperties, SMT
<1>2. F \in [X \X Char -> X]
  <2>1. \A p \in X \X Char : p[1] \in X /\ p[2] \in Char
    OBVIOUS
  <2>2. \A p \in X \X Char : Received(p[1], p[2]) \in X
    BY <2>1, ReceivedKeeps
  <2>3. QED
    BY <2>2
<1>3. \A x \in X, y \in Char : F[<<x, y>>] = Received(x, y)
  OBVIOUS
<1> HIDE DEF N, F, X
<1>4. u \in X
  BY DEF X
<1>5. IsFold(iter)
  <2>1. PICK g \in [SUBSET (1..N) -> X] : IsFoldOn(g, F, u, keys, N)
    BY <1>1, <1>2, <1>4, FoldExists
  <2>2. ASSUME NEW s \in SUBSET (1..N)
        PROVE  g[s] = IF s = {} THEN u ELSE Received(g[s \ {Max(s)}], keys[Max(s)])
    <3>1. CASE s = {}
      BY <2>1, <3>1 DEF IsFoldOn
    <3>2. CASE s # {}
      <4>1. Max(s) \in 1..N /\ g[s] = F[<<g[s \ {Max(s)}], keys[Max(s)]>>]
        BY <2>1, <3>2 DEF IsFoldOn
      <4>2. s \ {Max(s)} \in SUBSET (1..N)
        OBVIOUS
      <4>3. g[s \ {Max(s)}] \in X /\ keys[Max(s)] \in Char
        BY <1>1, <4>1, <4>2
      <4>4. QED
        BY <1>3, <3>2, <4>1, <4>3
    <3>3. QED
      BY <3>1, <3>2
  <2>3. IsFold(g)
    BY <1>1, <2>2
  <2> HIDE DEF IsFold
  <2>4. QED
    BY <2>3, Zenon
<1>6. FoldLeft(Received, u, keys) = iter[1..N]
  BY <1>1, Zenon DEF FoldLeft, MapThenFoldSet, IsFold
<1> HIDE DEF iter
<1>7. iter[{}] = u
  BY <1>1, <1>5
<1>8. StepsOn(iter, X, Char, F, u, keys, N)
  BY <1>1, <1>3, <1>5, <1>7 DEF StepsOn
<1>9. PICK a \in [0..N -> X] : IsRun(a, F, u, keys, N) /\ a[N] = iter[1..N]
  <2> HIDE DEF IsFold
  <2>1. HasRun(iter[1..N], X, F, u, keys, N)
    BY <1>1, <1>2, <1>4, <1>8, FoldRuns
  <2>2. QED
    BY <2>1 DEF HasRun
<1> DEFINE T == {k \in 0..N : After(u, a[k], k, quiet)}
<1>10. 0 \in T
  BY <1>1, <1>9, NoneReceived DEF IsRun
<1>11. \A k \in 1..N : k - 1 \in T => k \in T
  <2>1. SUFFICES ASSUME NEW k \in 1..N, k - 1 \in T PROVE k \in T
    BY Zenon
  <2>2. k \in 0..N /\ k - 1 \in 0..N /\ k - 1 \in Nat /\ (k - 1) + 1 = k
    BY <1>1
  <2>3. a[k - 1] \in Handling /\ a[k] \in Handling /\ keys[k] \in Char
    BY <1>1, <2>2 DEF X
  <2>4. a[k] = Received(a[k - 1], keys[k])
    BY <1>3, <1>9, <2>3 DEF IsRun, X
  <2>5. After(u, a[k - 1], k - 1, quiet)
    BY <2>1
  <2>6. quiet => ~echo \/ keys[k] # BS
    BY DEF N
  <2>7. After(u, Received(a[k - 1], keys[k]), (k - 1) + 1, quiet)
    BY <2>2, <2>3, <2>5, <2>6, OneMoreReceived
  <2>8. After(u, a[k], k, quiet)
    BY <2>2, <2>4, <2>7
  <2>9. QED
    BY <2>2, <2>8
<1>12. N \in T
  <2> HIDE DEF T
  <2>1. N \in 0..N
    BY <1>1
  <2>2. QED
    BY <1>1, <1>10, <1>11, <2>1, UpTo
<1>13. a[N] \in X
  BY <1>1
<1>14. QED
  BY <1>6, <1>9, <1>12, <1>13 DEF X, N
\* What the two halves of the handler leave alone of the transmit ring.
TxKept(u, v) ==
  /\ v.tx.slot = u.tx.slot /\ v.tx.w = u.tx.w
  /\ Count(v.tx, TxSize) <= Count(u.tx, TxSize)

LEMMA ServedTransmitKeeps ==
  ASSUME NEW u \in Handling, NEW t \in BOOLEAN
  PROVE  LET v == ServedTransmit(u, t)
         IN  /\ v \in Handling /\ Out(v) = Out(u) /\ v.rx = u.rx
             /\ TxKept(u, v)
             /\ t => IsEmpty(v.tx) \/ Len(v.fifo) = FifoSize
             /\ v.on = (u.on /\ (t => ~IsEmpty(v.tx)))
             /\ ~t => v = u
<1> DEFINE p == Primed(u)
           x == [p EXCEPT !.on = p.on /\ ~IsEmpty(p.tx)]
<1>1. CASE ~t
  <2>1. ServedTransmit(u, t) = u
    BY <1>1 DEF ServedTransmit
  <2>2. Count(u.tx, TxSize) <= Count(u.tx, TxSize) /\ u.on \in BOOLEAN
    BY HandlingTyped
  <2>3. QED
    BY <1>1, <2>1, <2>2 DEF TxKept
<1>2. CASE t
  <2>1. /\ p \in Handling /\ Out(p) = Out(u) /\ p.rx = u.rx /\ p.on = u.on
        /\ TxKept(u, p)
        /\ IsEmpty(p.tx) \/ Len(p.fifo) = FifoSize
    BY PrimedKeeps DEF TxKept
  <2>2. ServedTransmit(u, t) = x
    BY <1>2, Zenon DEF ServedTransmit
  <2> HIDE DEF p
  <2>3. (p.on /\ ~IsEmpty(p.tx)) \in BOOLEAN
    OBVIOUS
  <2> DEFINE on == p.on /\ ~IsEmpty(p.tx)
  <2> HIDE DEF on
  <2>4. /\ [p EXCEPT !.on = on] \in Handling
        /\ [p EXCEPT !.on = on].tx = p.tx /\ [p EXCEPT !.on = on].fifo = p.fifo
        /\ [p EXCEPT !.on = on].rx = p.rx /\ [p EXCEPT !.on = on].on = on
    BY <2>1, <2>3 DEF Handling, on
  <2>5. x = [p EXCEPT !.on = on]
    BY DEF on
  <2> HIDE DEF x
  <2>6. /\ x \in Handling /\ x.tx = p.tx /\ x.fifo = p.fifo /\ x.rx = p.rx
        /\ x.on = (p.on /\ ~IsEmpty(p.tx))
    BY <2>4, <2>5 DEF on
  <2>7. Out(x) = Out(p) /\ TxKept(u, x)
    BY <2>1, <2>6 DEF Out, TxKept
  <2>8. QED
    BY <1>2, <2>1, <2>2, <2>6, <2>7
<1>3. QED
  BY <1>1, <1>2

LEMMA ServedReceiveKeeps ==
  ASSUME NEW u \in Handling, rxFifo \in Seq(Char), NEW quiet \in BOOLEAN,
         quiet => ~echo \/ \A i \in 1..Len(rxFifo) : rxFifo[i] # BS
  PROVE  LET v == ServedReceive(u, TRUE)
         IN  /\ v \in Handling /\ IsPrefix(Out(u), Out(v))
             /\ Len(In(v)) <= Len(In(u)) + Len(rxFifo)
             /\ \E j \in Nat : /\ Kept(In(u), In(v), j) /\ j >= Len(In(u)) - Len(rxFifo)
                               /\ quiet => j = Len(In(u))
             /\ IsEmpty(v.tx) \/ Len(v.fifo) = FifoSize
             /\ v.on
             /\ ~echo => TxKept(u, v)
<1> DEFINE f == FoldLeft(Received, u, rxFifo)
           p == Primed(f)
           x == [p EXCEPT !.on = TRUE]
<1>1. f \in Handling /\ After(u, f, Len(rxFifo), quiet)
  BY AllReceivedKeeps
<1>2. ServedReceive(u, TRUE) = x
  BY Zenon DEF ServedReceive
<1> HIDE DEF f
<1>3. /\ p \in Handling /\ Out(p) = Out(f) /\ p.rx = f.rx
      /\ TxKept(f, p)
      /\ IsEmpty(p.tx) \/ Len(p.fifo) = FifoSize
  BY <1>1, PrimedKeeps DEF TxKept
<1> HIDE DEF p
<1>4. x \in Handling /\ x.tx = p.tx /\ x.fifo = p.fifo /\ x.rx = p.rx /\ x.on = TRUE
  BY <1>3 DEF Handling
<1> HIDE DEF x
<1>5. Out(x) = Out(f) /\ In(x) = In(f) /\ TxKept(f, x)
  BY <1>3, <1>4 DEF Out, In, TxKept
<1>6. ~echo => TxKept(u, x)
  BY <1>1, <1>5 DEF After, SameOut, TxKept
<1>7. /\ IsPrefix(Out(u), Out(x)) /\ Len(In(x)) <= Len(In(u)) + Len(rxFifo)
      /\ \E j \in Nat : /\ Kept(In(u), In(x), j) /\ j >= Len(In(u)) - Len(rxFifo)
                        /\ quiet => j = Len(In(u))
  BY <1>1, <1>5, Zenon DEF After
<1>8. IsEmpty(x.tx) \/ Len(x.fifo) = FifoSize
  BY <1>3, <1>4
<1>9. QED
  BY <1>2, <1>4, <1>6, <1>7, <1>8, Zenon

\* The state the handler starts from, and the one it leaves.
Found == [tx |-> tx, rx |-> rx, fifo |-> txFifo, cr |-> lastWasCR, on |-> txEnabled]
Served(t, r) == ServedReceive(ServedTransmit(Found, t), r)

LEMMA FoundIsHandling ==
  ASSUME TypeOK
  PROVE  /\ Found \in Handling
         /\ Found.tx = tx /\ Found.rx = rx /\ Found.fifo = txFifo
         /\ Found.cr = lastWasCR /\ Found.on = txEnabled
         /\ Out(Found) = txFifo \o Contents(tx, TxSize) /\ In(Found) = Contents(rx, RxSize)
BY DEF TypeOK, Found, Handling, Out, In

\* What one run of the handler does, in terms of the queues and of the transmit ring.
LEMMA HandlerDoes ==
  ASSUME TypeOK, NEW t \in BOOLEAN, NEW r \in BOOLEAN, t \/ r, NEW quiet \in BOOLEAN,
         quiet => ~r \/ ~echo \/ \A i \in 1..Len(rxFifo) : rxFifo[i] # BS
  PROVE  LET v == Served(t, r)
         IN  /\ v \in Handling
             /\ IsPrefix(Out(Found), Out(v))
             /\ Len(In(v)) <= Len(In(Found)) + Len(rxFifo)
             /\ \E j \in Nat : /\ Kept(In(Found), In(v), j)
                               /\ j >= Len(In(Found)) - Len(rxFifo)
                               /\ quiet => j = Len(In(Found))
             /\ IsEmpty(v.tx) \/ Len(v.fifo) = FifoSize
             /\ v.on = (r \/ (txEnabled /\ ~IsEmpty(v.tx)))
             /\ ~echo \/ ~r => TxKept(Found, v)
             /\ ~r => Out(v) = Out(Found) /\ v.rx = rx
<1> DEFINE s == ServedTransmit(Found, t)
           v == Served(t, r)
<1>1. rxFifo \in Seq(Char) /\ Len(rxFifo) \in Nat
  BY Sizes, BoundedSeqIs, LenProperties DEF TypeOK
<1>2. Found \in Handling /\ Found.rx = rx /\ Found.on = txEnabled
  BY FoundIsHandling
<1>3. /\ s \in Handling /\ Out(s) = Out(Found) /\ s.rx = rx
      /\ TxKept(Found, s)
      /\ t => IsEmpty(s.tx) \/ Len(s.fifo) = FifoSize
      /\ s.on = (txEnabled /\ (t => ~IsEmpty(s.tx)))
  BY <1>2, ServedTransmitKeeps
<1>4. v = ServedReceive(s, r)
  BY Zenon DEF Served
<1> HIDE DEF s, v
<1>5. In(s) = In(Found)
  BY <1>2, <1>3 DEF In
<1>6. /\ Out(Found) \in Seq(Char) /\ In(Found) \in Seq(Char) /\ Len(In(Found)) \in Nat
      /\ Count(Found.tx, TxSize) \in Nat /\ Count(s.tx, TxSize) \in Nat
  BY <1>2, <1>3, HandlingTyped, LenProperties
<1>7. CASE ~r
  <2>1. v = s /\ t
    BY <1>4, <1>7 DEF ServedReceive
  <2>2. IsPrefix(Out(Found), Out(v)) /\ Out(v) = Out(Found)
    BY <1>3, <1>6, <2>1, PrefixRefl
  <2>3. Kept(In(Found), In(v), Len(In(Found)))
    BY <1>5, <1>6, <2>1 DEF Kept
  <2>4. /\ Len(In(v)) <= Len(In(Found)) + Len(rxFifo)
        /\ Len(In(Found)) >= Len(In(Found)) - Len(rxFifo)
    BY <1>1, <1>5, <1>6, <2>1
  <2>5. v.on = (r \/ (txEnabled /\ ~IsEmpty(v.tx)))
    BY <1>3, <1>7, <2>1
  <2>6. \E j \in Nat : /\ Kept(In(Found), In(v), j)
                       /\ j >= Len(In(Found)) - Len(rxFifo)
                       /\ quiet => j = Len(In(Found))
    BY <1>6, <2>3, <2>4, Zenon
  <2>7. QED
    BY <1>3, <1>7, <2>1, <2>2, <2>4, <2>5, <2>6, Zenon DEF v
<1>8. CASE r
  <2>1. r = TRUE
    BY <1>8
  <2>2. v = ServedReceive(s, TRUE)
    BY <1>4, <2>1
  <2>3. quiet => ~echo \/ \A i \in 1..Len(rxFifo) : rxFifo[i] # BS
    BY <1>8
  <2>4. /\ v \in Handling /\ IsPrefix(Out(s), Out(v))
        /\ Len(In(v)) <= Len(In(s)) + Len(rxFifo)
        /\ \E j \in Nat : /\ Kept(In(s), In(v), j) /\ j >= Len(In(s)) - Len(rxFifo)
                          /\ quiet => j = Len(In(s))
        /\ IsEmpty(v.tx) \/ Len(v.fifo) = FifoSize
        /\ v.on
        /\ ~echo => TxKept(s, v)
    BY <1>1, <1>3, <2>2, <2>3, ServedReceiveKeeps, Zenon
  <2>5. ~echo => TxKept(Found, v)
    <3>1. Count(v.tx, TxSize) \in Nat
      BY <2>4, HandlingTyped
    <3>2. QED
      BY <1>3, <1>6, <2>4, <3>1 DEF TxKept
  <2>6. v.on = (r \/ (txEnabled /\ ~IsEmpty(v.tx)))
    <3>1. v.on \in BOOLEAN
      BY <2>4, HandlingTyped
    <3>2. QED
      BY <1>8, <2>4, <3>1, Zenon
  <2>7. QED
    BY <1>3, <1>5, <1>8, <2>4, <2>5, <2>6, Zenon DEF v
<1>9. QED
  BY <1>7, <1>8
-----------------------------------------------------------------------------
(***************************************************************************)
(* The invariant.                                                          *)
(***************************************************************************)

\* Reading at the read index stays within the ring, whatever is in it.
LEMMA DropTyped ==
  ASSUME NEW N \in Nat, N > 1, NEW S, NEW q \in Rings(N, S)
  PROVE  DropOldest(q, N) \in Rings(N, S) /\ Oldest(q) \in S
<1>1. q.r \in 0..(N - 1) /\ q.slot \in [0..(N - 1) -> S]
  BY DEF Rings
<1>2. Advance(q.r, N) \in 0..(N - 1)
  BY <1>1, AdvanceIs
<1>3. QED
  BY <1>1, <1>2 DEF DropOldest, Oldest, Rings

LEMMA EmptiedIsEmpty ==
  ASSUME NEW N \in Nat, N > 1, NEW S, NEW q \in Rings(N, S)
  PROVE  /\ Emptied(q) \in Rings(N, S) /\ IsEmpty(Emptied(q))
         /\ Contents(Emptied(q), N) = <<>>
<1>1. Emptied(q) \in Rings(N, S) /\ IsEmpty(Emptied(q))
  <2>1. 0 \in 0..(N - 1)
    OBVIOUS
  <2>2. QED
    BY <2>1 DEF Emptied, Rings, IsEmpty
<1>2. QED
  BY <1>1, EmptyContents

LEMMA InitEmpty ==
  ASSUME Init
  PROVE  /\ tx \in Rings(TxSize, Char) /\ rx \in Rings(RxSize, Char)
         /\ IsEmpty(tx) /\ IsEmpty(rx)
<1>1. " " \in Char
  BY CharsAre
<1>2. Rings(TxSize, {" "}) \subseteq Rings(TxSize, Char)
  BY <1>1 DEF Rings
<1>3. Rings(RxSize, {" "}) \subseteq Rings(RxSize, Char)
  BY <1>1 DEF Rings
<1>4. /\ tx \in Rings(TxSize, {" "}) /\ tx = Emptied(tx)
      /\ rx \in Rings(RxSize, {" "}) /\ IsEmpty(rx)
  BY DEF Init
<1>5. IsEmpty(Emptied(tx))
  BY <1>2, <1>4, Sizes, EmptiedIsEmpty
<1>6. QED
  BY <1>2, <1>3, <1>4, <1>5

LEMMA InitHolds == Init => IInv
<1> SUFFICES ASSUME Init PROVE IInv
  OBVIOUS
<1>1. /\ tx \in Rings(TxSize, Char) /\ rx \in Rings(RxSize, Char)
      /\ IsEmpty(tx) /\ IsEmpty(rx)
  BY InitEmpty
<1>2. /\ <<>> \in BoundedSeq(Char, FifoSize) /\ <<>> \in Seq(Char)
      /\ <<>> \in BoundedSeq(Char, LineSize - 1)
  <2>1. <<>> \in Seq(Char) /\ Len(<<>>) = 0 /\ LineSize - 1 \in Nat
    BY Sizes
  <2>2. 0 <= FifoSize /\ 0 <= LineSize - 1
    BY Sizes
  <2>3. QED
    BY <2>1, <2>2, Sizes, BoundedSeqIs
<1>3. TypeOK
  <2>1. 0 \in 0..(TxSize - 1) /\ 0 \in 0..MaxCalls /\ 0 \in 0..MaxTyped
    BY Sizes
  <2>2. QED
    BY <1>1, <1>2, <2>1 DEF Init, TypeOK
<1>4. MaskedInFill /\ TextLeft /\ Fetched /\ FoundHolds /\ RoomKept
  BY <1>1 DEF Init, MaskedInFill, TextLeft, Fetched, FoundHolds, RoomKept, Storing,
              Queueing, Priming
<1>5. QED
  BY <1>3, <1>4 DEF IInv

\* What the invariant says of the rings and FIFOs.
LEMMA Shapes ==
  ASSUME TypeOK
  PROVE  /\ tx \in Rings(TxSize, Char) /\ rx \in Rings(RxSize, Char)
         /\ txFifo \in Seq(Char) /\ Len(txFifo) \in Nat /\ Len(txFifo) <= FifoSize
         /\ rxFifo \in Seq(Char) /\ Len(rxFifo) \in Nat /\ Len(rxFifo) <= FifoSize
         /\ line \in Seq(Char) /\ Len(line) \in Nat /\ Len(line) <= LineSize - 1
         /\ todo \in Seq(Char) /\ Len(todo) \in Nat
         /\ tx.w \in 0..(TxSize - 1) /\ tx.r \in 0..(TxSize - 1)
         /\ tx.slot \in [0..(TxSize - 1) -> Char]
         /\ Count(tx, TxSize) \in 0..(TxSize - 1)
<1>1. LineSize - 1 \in Nat
  BY Sizes
<1>2. /\ tx \in Rings(TxSize, Char) /\ rx \in Rings(RxSize, Char)
      /\ txFifo \in Seq(Char) /\ Len(txFifo) <= FifoSize
      /\ rxFifo \in Seq(Char) /\ Len(rxFifo) <= FifoSize
      /\ line \in Seq(Char) /\ Len(line) <= LineSize - 1
      /\ todo \in Seq(Char)
  BY <1>1, Sizes, BoundedSeqIs DEF TypeOK
<1>3. QED
  BY <1>2, Sizes, RingTyped, LenProperties

LEMMA CallWriteKeeps ==
  ASSUME IInv, NEW text \in Texts, CallWrite(text)
  PROVE  IInv'
<1>1. todo' \in Seq(Char)
  BY ExpandedTyped, InputsAssumption DEF CallWrite
<1>2. TypeOK'
  BY <1>1, Sizes DEF IInv, TypeOK, CallWrite, Call, ringVars, uartVars, handlerVars
<1>3. MaskedInFill' /\ TextLeft' /\ Fetched' /\ FoundHolds'
  BY DEF IInv, CallWrite, Call, ringVars, uartVars, handlerVars, MaskedInFill,
         TextLeft, Fetched, FoundHolds, Storing, Queueing, Priming
<1>4. RoomKept'
  <2>1. fits' = (Len(todo') < TxSize - Count(tx, TxSize)) /\ tx' = tx
    BY DEF CallWrite, UARTTxBytesFree, ringVars
  <2>2. Len(todo') \in Nat /\ Count(tx, TxSize) \in Nat
    BY <1>1, Shapes, LenProperties DEF IInv
  <2>3. ASSUME fits' PROVE Len(todo') + Count(tx, TxSize) < TxSize
    <3>1. Len(todo') < TxSize - Count(tx, TxSize)
      BY <2>1, <2>3
    <3>2. QED
      BY <2>2, <3>1, Sizes
  <2>4. pc' = "test"
    BY DEF CallWrite, Call
  <2>5. QED
    BY <2>1, <2>3, <2>4 DEF RoomKept
<1>5. QED
  BY <1>2, <1>3, <1>4 DEF IInv

LEMMA TestRoomKeeps == ASSUME IInv, TestRoom PROVE IInv'
<1>1. TypeOK'
  BY DEF IInv, TypeOK, TestRoom, ringVars, uartVars, handlerVars, callVars
<1>2. MaskedInFill' /\ TextLeft' /\ Fetched' /\ FoundHolds'
  BY DEF IInv, TestRoom, ringVars, uartVars, handlerVars, callVars, MaskedInFill,
         TextLeft, Fetched, FoundHolds, Storing, Queueing, Priming
<1>3. RoomKept'
  <2>1. /\ pc = "test" /\ echo' = echo /\ fits' = fits /\ todo' = todo /\ tx' = tx
        /\ pc' = (IF todo = <<>> \/ IsFull(tx, TxSize) THEN "written" ELSE "put")
    BY DEF TestRoom, ringVars, handlerVars, callVars
  <2>2. ASSUME ~echo, fits
        PROVE  /\ Len(todo) + Count(tx, TxSize) < TxSize
               /\ pc' = "written" => todo = <<>>
    <3>1. Len(todo) + Count(tx, TxSize) < TxSize
      BY <2>1, <2>2 DEF IInv, RoomKept, Queueing
    <3>2. /\ todo \in Seq(Char) /\ Len(todo) \in Nat /\ tx \in Rings(TxSize, Char)
      BY Shapes DEF IInv
    <3>3. IsFull(tx, TxSize) => Count(tx, TxSize) = TxSize - 1
      BY <3>2, Sizes, RingTyped
    <3>4. IsFull(tx, TxSize) => Len(todo) = 0
      BY <3>1, <3>2, <3>3, Sizes
    <3>5. QED
      BY <2>1, <3>1, <3>2, <3>4
  <2>3. QED
    BY <2>1, <2>2 DEF RoomKept
<1>4. QED
  BY <1>1, <1>2, <1>3 DEF IInv

\* The character is stored where no element of the ring lies.
LEMMA CharStored ==
  ASSUME TypeOK, TextLeft, StoreChar
  PROVE  /\ tx' = SlotFilled(tx, Head(todo)) /\ tx' \in Rings(TxSize, Char)
         /\ tx'.w = tx.w /\ tx'.r = tx.r /\ tx'.slot[tx'.w] = Head(todo)
         /\ Count(tx', TxSize) = Count(tx, TxSize)
         /\ IsFull(tx', TxSize) = IsFull(tx, TxSize)
         /\ Contents(tx', TxSize) = Contents(tx, TxSize)
<1>1. todo # <<>> /\ todo \in Seq(Char) /\ tx \in Rings(TxSize, Char)
  BY DEF TextLeft, StoreChar, Storing, TypeOK
<1>2. Head(todo) \in Char
  BY <1>1
<1>3. tx' = SlotFilled(tx, Head(todo))
  BY DEF StoreChar, SlotFilled
<1> DEFINE p == SlotFilled(tx, Head(todo))
<1>4. /\ p \in Rings(TxSize, Char) /\ p.w = tx.w /\ p.r = tx.r /\ p.slot[p.w] = Head(todo)
      /\ Count(p, TxSize) = Count(tx, TxSize) /\ IsFull(p, TxSize) = IsFull(tx, TxSize)
      /\ Contents(p, TxSize) = Contents(tx, TxSize)
  BY <1>1, <1>2, Sizes, FreeSlotFilled
<1> HIDE DEF p
<1>5. tx' = p
  BY <1>3 DEF p
<1>6. QED
  BY <1>4, <1>5 DEF p

LEMMA StoreCharKeeps == ASSUME IInv, StoreChar PROVE IInv'
<1>1. /\ tx' \in Rings(TxSize, Char)
      /\ tx'.w = tx.w /\ tx'.slot[tx'.w] = Head(todo)
      /\ Count(tx', TxSize) = Count(tx, TxSize)
      /\ IsFull(tx', TxSize) = IsFull(tx, TxSize)
  BY CharStored DEF IInv
<1>2. TypeOK'
  BY <1>1 DEF IInv, TypeOK, StoreChar, uartVars, handlerVars, callVars
<1>3. MaskedInFill' /\ TextLeft' /\ Fetched'
  BY DEF IInv, StoreChar, uartVars, handlerVars, callVars, MaskedInFill,
         TextLeft, Fetched, Storing, Queueing, Priming
<1>4. FoundHolds' /\ RoomKept'
  BY <1>1 DEF IInv, StoreChar, uartVars, handlerVars, callVars, FoundHolds, RoomKept,
              Storing, Queueing
<1>5. QED
  BY <1>2, <1>3, <1>4 DEF IInv

LEMMA LoadIndexKeeps == ASSUME IInv, LoadIndex PROVE IInv'
<1>1. TypeOK'
  BY Shapes DEF IInv, TypeOK, LoadIndex, ringVars, uartVars, handlerVars
<1>2. MaskedInFill' /\ TextLeft' /\ Fetched' /\ FoundHolds' /\ RoomKept'
  BY DEF IInv, LoadIndex, ringVars, uartVars, handlerVars, MaskedInFill,
         TextLeft, Fetched, FoundHolds, RoomKept, Storing, Queueing, Priming
<1>3. QED
  BY <1>1, <1>2 DEF IInv

\* Unless the handler came between, the store of the index completes the queueing of
\* one character.
LEMMA IndexStored ==
  ASSUME IInv, StoreIndex
  PROVE  /\ tx' \in Rings(TxSize, Char)
         /\ ~echo \/ ~clash =>
              /\ Contents(tx', TxSize) = Append(Contents(tx, TxSize), Head(todo))
              /\ Count(tx', TxSize) = Count(tx, TxSize) + 1
         /\ todo' = Tail(todo) /\ todo' \in Seq(Char) /\ Len(todo') = Len(todo) - 1
<1>1. /\ tx \in Rings(TxSize, Char) /\ todo \in Seq(Char) /\ index \in 0..(TxSize - 1)
      /\ tx.slot \in [0..(TxSize - 1) -> Char] /\ tx.w \in 0..(TxSize - 1)
  BY Shapes DEF IInv, TypeOK
<1>2. Advance(index, TxSize) \in 0..(TxSize - 1)
  BY <1>1, Sizes, AdvanceIs
<1>3. tx' = [tx EXCEPT !.w = Advance(index, TxSize)]
  BY DEF StoreIndex
<1>4. tx' \in Rings(TxSize, Char)
  BY <1>1, <1>2, <1>3 DEF Rings
<1>5. pc = "step" /\ todo # <<>>
  BY DEF StoreIndex, IInv, TextLeft, Storing
<1>6. todo' = Tail(todo) /\ todo' \in Seq(Char) /\ Len(todo') = Len(todo) - 1
  BY <1>1, <1>5 DEF StoreIndex
<1>7. ASSUME ~echo \/ ~clash
      PROVE  /\ Contents(tx', TxSize) = Append(Contents(tx, TxSize), Head(todo))
             /\ Count(tx', TxSize) = Count(tx, TxSize) + 1
  <2>1. ~IsFull(tx, TxSize) /\ tx.slot[tx.w] = Head(todo) /\ index = tx.w
    BY <1>5, <1>7 DEF IInv, FoundHolds, Storing
  <2>2. Head(todo) \in Char
    BY <1>1, <1>5
  <2>3. [tx.slot EXCEPT ![tx.w] = Head(todo)] = tx.slot
    BY <1>1, <2>1
  <2>4. tx' = Put(tx, Head(todo), TxSize)
    BY <1>1, <1>3, <2>1, <2>3 DEF Put, Rings
  <2>5. Contents(tx', TxSize) = Append(Contents(tx, TxSize), Head(todo))
    BY <1>1, <2>1, <2>2, <2>4, Sizes, PutAppends
  <2>6. /\ Contents(tx, TxSize) \in Seq(Char)
        /\ Len(Contents(tx, TxSize)) = Count(tx, TxSize)
        /\ Len(Contents(tx', TxSize)) = Count(tx', TxSize)
    BY <1>1, <1>4, Sizes, ContentsAre
  <2>7. QED
    BY <2>2, <2>5, <2>6, AppendProperties
<1>8. QED
  BY <1>4, <1>6, <1>7

LEMMA StoreIndexKeeps == ASSUME IInv, StoreIndex PROVE IInv'
<1>1. tx' \in Rings(TxSize, Char) /\ todo' \in Seq(Char)
  BY IndexStored
<1>2. TypeOK'
  BY <1>1, Sizes DEF IInv, TypeOK, StoreIndex, uartVars, handlerVars
<1>3. MaskedInFill' /\ TextLeft' /\ Fetched' /\ FoundHolds'
  BY DEF IInv, StoreIndex, uartVars, handlerVars, MaskedInFill,
         TextLeft, Fetched, FoundHolds, Storing, Queueing, Priming
<1>4. RoomKept'
  <2>1. SUFFICES ASSUME ~echo, fits
                 PROVE  Len(todo') + Count(tx', TxSize) < TxSize
    BY DEF StoreIndex, RoomKept, handlerVars
  <2>2. Len(todo) + Count(tx, TxSize) < TxSize
    BY <2>1 DEF IInv, RoomKept, StoreIndex, Queueing, Storing
  <2>3. Len(todo') = Len(todo) - 1 /\ Count(tx', TxSize) = Count(tx, TxSize) + 1
    BY <2>1, IndexStored
  <2>4. Len(todo) \in Nat /\ Count(tx, TxSize) \in Nat
    BY Shapes DEF IInv
  <2>5. QED
    BY <2>2, <2>3, <2>4, Sizes
<1>5. QED
  BY <1>2, <1>3, <1>4 DEF IInv
LEMMA TestSendKeeps == ASSUME IInv, TestSend PROVE IInv'
<1>1. TypeOK'
  <2>1. <<>> \in Seq(Char)
    OBVIOUS
  <2>2. QED
    BY <2>1 DEF IInv, TypeOK, TestSend, ringVars, uartVars, handlerVars
<1>2. MaskedInFill' /\ TextLeft' /\ Fetched' /\ FoundHolds' /\ RoomKept'
  BY DEF IInv, TestSend, ringVars, uartVars, handlerVars, MaskedInFill,
         TextLeft, Fetched, FoundHolds, RoomKept, Storing, Queueing, Priming
<1>3. QED
  BY <1>1, <1>2 DEF IInv

LEMMA PrimeMaskKeeps == ASSUME IInv, PrimeMask PROVE IInv'
<1>1. TypeOK'
  BY DEF IInv, TypeOK, PrimeMask, ringVars, handlerVars, callVars
<1>2. MaskedInFill' /\ TextLeft' /\ Fetched' /\ FoundHolds' /\ RoomKept'
  BY DEF IInv, PrimeMask, ringVars, handlerVars, callVars, MaskedInFill,
         TextLeft, Fetched, FoundHolds, RoomKept, Storing, Queueing, Priming
<1>3. QED
  BY <1>1, <1>2 DEF IInv

\* Moving one character to the FIFO changes nothing of what goes out.
LEMMA OneMoved ==
  ASSUME TypeOK, Len(txFifo) < FifoSize, ~IsEmpty(tx),
         txFifo' = Append(txFifo, Oldest(tx)), tx' = DropOldest(tx, TxSize)
  PROVE  /\ tx' \in Rings(TxSize, Char) /\ txFifo' \in BoundedSeq(Char, FifoSize)
         /\ txFifo' \o Contents(tx', TxSize) = txFifo \o Contents(tx, TxSize)
<1> DEFINE c == Contents(tx, TxSize)
<1>1. /\ tx \in Rings(TxSize, Char) /\ txFifo \in Seq(Char) /\ Len(txFifo) \in Nat
      /\ c \in Seq(Char)
  BY Shapes, Sizes, ContentsAre
<1>2. /\ tx' \in Rings(TxSize, Char) /\ Oldest(tx) = Head(c)
      /\ Contents(tx', TxSize) = Tail(c) /\ Oldest(tx) \in Char
  BY <1>1, Sizes, DropOldestTakesHead, DropTyped
<1>3. c # <<>>
  BY <1>1, Sizes, EmptyContents
<1> HIDE DEF c
<1>4. txFifo' \in Seq(Char) /\ Len(txFifo') = Len(txFifo) + 1
  BY <1>1, <1>2
<1>5. txFifo' \in BoundedSeq(Char, FifoSize)
  <2>1. Len(txFifo') <= FifoSize
    BY <1>1, <1>4, Sizes
  <2>2. QED
    BY <1>4, <2>1, Sizes, BoundedSeqIs
<1>6. Append(txFifo, Head(c)) \o Tail(c) = txFifo \o c
  <2>1. /\ Tail(c) \in Seq(Char) /\ Len(Tail(c)) = Len(c) - 1 /\ Head(c) \in Char
        /\ Len(c) \in Nat /\ Len(c) > 0 /\ Head(c) = c[1]
        /\ \A i \in 1..(Len(c) - 1) : Tail(c)[i] = c[i + 1]
    BY <1>1, <1>3
  <2>2. c = <<Head(c)>> \o Tail(c)
    BY <1>1, <1>3
  <2>3. Append(txFifo, Head(c)) = txFifo \o <<Head(c)>>
    BY <1>1, <2>1
  <2>4. <<Head(c)>> \in Seq(Char)
    BY <2>1
  <2> DEFINE h == <<Head(c)>>
             t == Tail(c)
  <2>5. \A x, y, z \in Seq(Char) : (x \o y) \o z = x \o (y \o z)
    BY Regrouped
  <2>6. (txFifo \o h) \o t = txFifo \o (h \o t)
    BY <1>1, <2>1, <2>4, <2>5, Zenon
  <2>7. QED
    BY <2>2, <2>3, <2>6
<1>7. QED
  BY <1>2, <1>5, <1>6 DEF c

LEMMA PrimeFillKeeps == ASSUME IInv, PrimeFill PROVE IInv'
<1>1. CASE Len(txFifo) < FifoSize /\ ~IsEmpty(tx)
  <2>1. /\ txFifo' = Append(txFifo, Oldest(tx)) /\ tx' = DropOldest(tx, TxSize)
        /\ pc = "fill" /\ pc' = pc /\ enabled' = enabled
        /\ UNCHANGED <<rx, rxFifo, txRaised, txEnabled, handlerVars, callVars, clash,
                       calls, typed>>
    BY <1>1 DEF PrimeFill
  <2>2. tx' \in Rings(TxSize, Char) /\ txFifo' \in BoundedSeq(Char, FifoSize)
    BY <1>1, <2>1, OneMoved DEF IInv
  <2>3. TypeOK'
    BY <2>1, <2>2 DEF IInv, TypeOK, handlerVars, callVars
  <2>4. MaskedInFill' /\ TextLeft' /\ Fetched' /\ FoundHolds' /\ RoomKept'
    BY <2>1 DEF IInv, handlerVars, callVars, MaskedInFill,
         TextLeft, Fetched, FoundHolds, RoomKept, Storing, Queueing, Priming
  <2>5. QED
    BY <2>3, <2>4 DEF IInv
<1>2. CASE ~(Len(txFifo) < FifoSize /\ ~IsEmpty(tx))
  <2>1. /\ pc' = "arm" /\ enabled' = TRUE /\ pc = "fill"
        /\ UNCHANGED <<ringVars, txFifo, rxFifo, txRaised, txEnabled, handlerVars,
                       callVars, clash, calls, typed>>
    BY <1>2 DEF PrimeFill, ringVars
  <2>2. TypeOK'
    BY <2>1 DEF IInv, TypeOK, ringVars, handlerVars, callVars
  <2>3. IsEmpty(tx) \/ Len(txFifo) > TxLevel
    <3>1. IsEmpty(tx) \/ ~(Len(txFifo) < FifoSize)
      BY <1>2
    <3>2. Len(txFifo) \in Nat
      BY Shapes DEF IInv
    <3>3. QED
      BY <3>1, <3>2, Sizes
  <2>4. MaskedInFill' /\ TextLeft' /\ Fetched' /\ FoundHolds' /\ RoomKept'
    BY <2>1, <2>3 DEF IInv, ringVars, handlerVars, callVars, MaskedInFill,
         TextLeft, Fetched, FoundHolds, RoomKept, Storing, Queueing, Priming
  <2>5. QED
    BY <2>2, <2>4 DEF IInv
<1>3. QED
  BY <1>1, <1>2

LEMMA ArmKeeps == ASSUME IInv, Arm PROVE IInv'
<1>1. TypeOK'
  BY DEF IInv, TypeOK, Arm, ringVars, handlerVars, callVars
<1>2. MaskedInFill' /\ TextLeft' /\ Fetched' /\ FoundHolds' /\ RoomKept'
  BY DEF IInv, Arm, ringVars, handlerVars, callVars, MaskedInFill,
         TextLeft, Fetched, FoundHolds, RoomKept, Storing, Queueing, Priming
<1>3. QED
  BY <1>1, <1>2 DEF IInv

LEMMA CallReadKeeps ==
  ASSUME IInv, NEW what \in {"gets", "getc"}, CallRead(what)
  PROVE  IInv'
<1>1. TypeOK'
  BY Sizes DEF IInv, TypeOK, CallRead, Call, ringVars, uartVars, handlerVars, callVars
<1>2. MaskedInFill' /\ TextLeft' /\ Fetched' /\ FoundHolds' /\ RoomKept'
  BY DEF IInv, CallRead, Call, ringVars, uartVars, handlerVars, callVars, MaskedInFill,
         TextLeft, Fetched, FoundHolds, RoomKept, Storing, Queueing, Priming
<1>3. QED
  BY <1>1, <1>2 DEF IInv

LEMMA TestAvailKeeps == ASSUME IInv, TestAvail PROVE IInv'
<1>1. TypeOK'
  BY DEF IInv, TypeOK, TestAvail, ringVars, uartVars, handlerVars, callVars
<1>2. MaskedInFill' /\ TextLeft' /\ Fetched' /\ FoundHolds' /\ RoomKept'
  BY DEF IInv, TestAvail, ringVars, uartVars, handlerVars, callVars, MaskedInFill,
         TextLeft, Fetched, FoundHolds, RoomKept, Storing, Queueing, Priming
<1>3. QED
  BY <1>1, <1>2 DEF IInv

LEMMA ReadForLineKeeps == ASSUME IInv, ReadForLine PROVE IInv'
<1>1. /\ rx \in Rings(RxSize, Char) /\ line \in Seq(Char) /\ Len(line) \in Nat
      /\ Len(line) <= LineSize - 1 /\ LineSize - 1 \in Nat
  BY Shapes, Sizes DEF IInv
<1>2. DropOldest(rx, RxSize) \in Rings(RxSize, Char) /\ Oldest(rx) \in Char
  BY <1>1, Sizes, DropTyped
<1>3. line' \in BoundedSeq(Char, LineSize - 1)
  <2>1. CASE line' = <<>>
    <3>1. <<>> \in Seq(Char) /\ Len(<<>>) <= LineSize - 1
      BY <1>1
    <3>2. QED
      BY <1>1, <2>1, <3>1, BoundedSeqIs
  <2>2. CASE line' = line
    BY <1>1, <2>2, BoundedSeqIs
  <2>3. CASE Len(line) < LineSize - 1 /\ line' = Append(line, Oldest(rx))
    <3>1. line' \in Seq(Char) /\ Len(line') = Len(line) + 1
      BY <1>1, <1>2, <2>3
    <3>2. Len(line') <= LineSize - 1
      BY <1>1, <2>3, <3>1, Sizes
    <3>3. QED
      BY <1>1, <3>1, <3>2, BoundedSeqIs
  <2>4. QED
    BY <2>1, <2>2, <2>3 DEF ReadForLine
<1>4. TypeOK'
  BY <1>2, <1>3 DEF IInv, TypeOK, ReadForLine, uartVars, handlerVars
<1>5. MaskedInFill' /\ TextLeft' /\ Fetched' /\ FoundHolds' /\ RoomKept'
  BY DEF IInv, ReadForLine, uartVars, handlerVars, MaskedInFill,
         TextLeft, Fetched, FoundHolds, RoomKept, Storing, Queueing, Priming
<1>6. QED
  BY <1>4, <1>5 DEF IInv

LEMMA UARTgetcKeeps == ASSUME IInv, UARTgetc PROVE IInv'
<1>1. DropOldest(rx, RxSize) \in Rings(RxSize, Char)
  BY Sizes, DropTyped DEF IInv, TypeOK
<1>2. TypeOK'
  BY <1>1 DEF IInv, TypeOK, UARTgetc, uartVars, handlerVars, callVars
<1>3. MaskedInFill' /\ TextLeft' /\ Fetched' /\ FoundHolds' /\ RoomKept'
  BY DEF IInv, UARTgetc, uartVars, handlerVars, callVars, MaskedInFill,
         TextLeft, Fetched, FoundHolds, RoomKept, Storing, Queueing, Priming
<1>4. QED
  BY <1>2, <1>3 DEF IInv

LEMMA UARTFlushRxKeeps == ASSUME IInv, UARTFlushRx PROVE IInv'
<1>1. Emptied(rx) \in Rings(RxSize, Char)
  BY Sizes, EmptiedIsEmpty DEF IInv, TypeOK
<1>2. TypeOK'
  BY <1>1, Sizes DEF IInv, TypeOK, UARTFlushRx, Call, uartVars, handlerVars, callVars
<1>3. MaskedInFill' /\ TextLeft' /\ Fetched' /\ FoundHolds' /\ RoomKept'
  BY DEF IInv, UARTFlushRx, Call, uartVars, handlerVars, callVars, MaskedInFill,
         TextLeft, Fetched, FoundHolds, RoomKept, Storing, Queueing, Priming
<1>4. QED
  BY <1>2, <1>3 DEF IInv

LEMMA UARTFlushTxKeeps == ASSUME IInv, UARTFlushTx PROVE IInv'
<1>1. Emptied(tx) \in Rings(TxSize, Char) /\ IsEmpty(Emptied(tx))
  BY Sizes, EmptiedIsEmpty DEF IInv, TypeOK
<1>2. TypeOK'
  BY <1>1, Sizes DEF IInv, TypeOK, UARTFlushTx, Call, uartVars, handlerVars, callVars
<1>3. MaskedInFill' /\ TextLeft' /\ Fetched' /\ FoundHolds' /\ RoomKept'
  BY <1>1 DEF IInv, UARTFlushTx, Call, uartVars, handlerVars, callVars, MaskedInFill,
         TextLeft, Fetched, FoundHolds, RoomKept, Storing, Queueing, Priming
<1>4. QED
  BY <1>2, <1>3 DEF IInv

LEMMA CallDrainKeeps == ASSUME IInv, CallDrain PROVE IInv'
<1>1. TypeOK'
  BY Sizes DEF IInv, TypeOK, CallDrain, Call, ringVars, uartVars, handlerVars, callVars
<1>2. MaskedInFill' /\ TextLeft' /\ Fetched' /\ FoundHolds' /\ RoomKept'
  BY DEF IInv, CallDrain, Call, ringVars, uartVars, handlerVars, callVars, MaskedInFill,
         TextLeft, Fetched, FoundHolds, RoomKept, Storing, Queueing, Priming
<1>3. QED
  BY <1>1, <1>2 DEF IInv

LEMMA DrainedKeeps == ASSUME IInv, Drained PROVE IInv'
<1>1. TypeOK'
  BY DEF IInv, TypeOK, Drained, ringVars, uartVars, handlerVars, callVars
<1>2. MaskedInFill' /\ TextLeft' /\ Fetched' /\ FoundHolds' /\ RoomKept'
  BY DEF IInv, Drained, ringVars, uartVars, handlerVars, callVars, MaskedInFill,
         TextLeft, Fetched, FoundHolds, RoomKept, Storing, Queueing, Priming
<1>3. QED
  BY <1>1, <1>2 DEF IInv

LEMMA UARTEchoSetKeeps ==
  ASSUME IInv, NEW on \in BOOLEAN, UARTEchoSet(on)
  PROVE  IInv'
<1>1. TypeOK'
  BY DEF IInv, TypeOK, UARTEchoSet, ringVars, uartVars, callVars
<1>2. MaskedInFill' /\ TextLeft' /\ Fetched' /\ FoundHolds' /\ RoomKept'
  BY DEF IInv, UARTEchoSet, ringVars, uartVars, callVars, MaskedInFill,
         TextLeft, Fetched, FoundHolds, RoomKept, Storing, Queueing, Priming
<1>3. QED
  BY <1>1, <1>2 DEF IInv

LEMMA TransmitKeeps == ASSUME IInv, Transmit PROVE IInv'
<1>1. /\ txFifo \in Seq(Char) /\ txFifo # <<>> /\ Len(txFifo) \in Nat
      /\ Len(txFifo) <= FifoSize
  BY Shapes DEF IInv, Transmit
<1>2. txFifo' \in Seq(Char) /\ Len(txFifo') = Len(txFifo) - 1
  BY <1>1 DEF Transmit
<1>3. txFifo' \in BoundedSeq(Char, FifoSize)
  <2>1. Len(txFifo') <= FifoSize
    BY <1>1, <1>2, Sizes
  <2>2. QED
    BY <1>2, <2>1, Sizes, BoundedSeqIs
<1>4. TypeOK'
  BY <1>3 DEF IInv, TypeOK, Transmit, ringVars, handlerVars, callVars
<1>5. txRaised \/ Len(txFifo) > TxLevel => txRaised' \/ Len(txFifo') > TxLevel
  <2>1. txRaised' = (txRaised \/ Len(txFifo) = TxLevel + 1)
    BY DEF Transmit
  <2>2. CASE txRaised
    BY <2>1, <2>2
  <2>3. CASE Len(txFifo) = TxLevel + 1
    BY <2>1, <2>3
  <2>4. CASE Len(txFifo) > TxLevel /\ Len(txFifo) # TxLevel + 1
    BY <1>1, <1>2, <2>4, Sizes
  <2>5. QED
    BY <2>2, <2>3, <2>4
<1>6. MaskedInFill' /\ TextLeft' /\ Fetched' /\ FoundHolds' /\ RoomKept'
  BY <1>5 DEF IInv, Transmit, ringVars, handlerVars, callVars, MaskedInFill,
         TextLeft, Fetched, FoundHolds, RoomKept, Storing, Queueing, Priming
<1>7. QED
  BY <1>4, <1>6 DEF IInv

LEMMA TypeKeeps ==
  ASSUME IInv, NEW c \in Keys, Type(c)
  PROVE  IInv'
<1>1. rxFifo \in Seq(Char) /\ Len(rxFifo) < FifoSize /\ Len(rxFifo) \in Nat /\ c \in Char
  BY Shapes, InputsAssumption DEF IInv, Type
<1>2. rxFifo' \in Seq(Char) /\ Len(rxFifo') = Len(rxFifo) + 1
  BY <1>1 DEF Type
<1>3. rxFifo' \in BoundedSeq(Char, FifoSize)
  <2>1. Len(rxFifo') <= FifoSize
    BY <1>1, <1>2, Sizes
  <2>2. QED
    BY <1>2, <2>1, Sizes, BoundedSeqIs
<1>4. TypeOK'
  BY <1>3, Sizes DEF IInv, TypeOK, Type, ringVars, handlerVars, callVars
<1>5. MaskedInFill' /\ TextLeft' /\ Fetched' /\ FoundHolds' /\ RoomKept'
  BY DEF IInv, Type, ringVars, handlerVars, callVars, MaskedInFill,
         TextLeft, Fetched, FoundHolds, RoomKept, Storing, Queueing, Priming
<1>6. QED
  BY <1>4, <1>5 DEF IInv
\* The handler's assignments.
LEMMA HandlerSets ==
  ASSUME NEW t, NEW r, UARTStdioIntHandler(t, r)
  PROVE  LET v == Served(t, r)
         IN  /\ tx' = v.tx /\ rx' = v.rx /\ txFifo' = v.fifo
             /\ lastWasCR' = v.cr /\ txEnabled' = v.on
BY Zenon DEF UARTStdioIntHandler, Served, Found

LEMMA HandlerKeepsFound ==
  ASSUME IInv, NEW t \in BOOLEAN, NEW r \in BOOLEAN, UARTStdioIntHandler(t, r),
         ~echo' \/ ~clash'
  PROVE  /\ pc \in Storing => tx'.slot = tx.slot /\ tx'.w = tx.w
         /\ pc \in Storing => Count(tx', TxSize) <= Count(tx, TxSize)
         /\ pc \in {"read", "readc"} /\ ~IsEmpty(rx) => ~IsEmpty(rx')
         /\ ~echo \/ ~clash
<1> DEFINE v == Served(t, r)
           quiet == ~r \/ ~echo \/ \A i \in 1..Len(rxFifo) : rxFifo[i] # BS
<1>1. echo' = echo /\ clash' = (clash \/ Clashes(r)) /\ (r => rxFifo # <<>>) /\ (t \/ r)
  BY DEF UARTStdioIntHandler
<1>2. ~echo \/ (~clash /\ ~Clashes(r))
  BY <1>1
<1>3. /\ pc \in Storing => ~echo \/ ~r
      /\ pc \in {"read", "readc"} => quiet
  BY <1>1, <1>2 DEF Clashes, Storing
<1>4. quiet \in BOOLEAN
  OBVIOUS
<1>5. quiet => ~r \/ ~echo \/ \A i \in 1..Len(rxFifo) : rxFifo[i] # BS
  OBVIOUS
<1> HIDE DEF quiet
<1>6. TypeOK
  BY DEF IInv
<1>7. /\ v \in Handling
      /\ \E j \in Nat : /\ Kept(In(Found), In(v), j) /\ (quiet => j = Len(In(Found)))
      /\ ~echo \/ ~r => TxKept(Found, v)
  BY <1>1, <1>4, <1>5, <1>6, HandlerDoes, Zenon
<1>8. tx' = v.tx /\ rx' = v.rx
  BY HandlerSets, Zenon
<1> HIDE DEF v
<1>9. Found.tx = tx /\ In(Found) = Contents(rx, RxSize) /\ rx \in Rings(RxSize, Char)
  BY <1>6, FoundIsHandling DEF TypeOK
<1>10. pc \in Storing => /\ tx'.slot = tx.slot /\ tx'.w = tx.w
                         /\ Count(tx', TxSize) <= Count(tx, TxSize)
  BY <1>3, <1>7, <1>8, <1>9 DEF TxKept
<1>11. ASSUME quiet, ~IsEmpty(rx) PROVE ~IsEmpty(rx')
  <2>1. Len(In(Found)) <= Len(In(v))
    BY <1>7, <1>11 DEF Kept
  <2>2. /\ In(Found) \in Seq(Char) /\ In(Found) # <<>> /\ In(v) \in Seq(Char)
        /\ In(v) = Contents(rx', RxSize) /\ rx' \in Rings(RxSize, Char)
    <3>1. In(v) = Contents(rx', RxSize) /\ rx' \in Rings(RxSize, Char)
      BY <1>7, <1>8, HandlingTyped DEF In
    <3>2. In(v) \in Seq(Char)
      BY <1>7, HandlingTyped
    <3>3. In(Found) \in Seq(Char) /\ In(Found) # <<>>
      BY <1>9, <1>11, Sizes, EmptyContents, ContentsAre
    <3>4. QED
      BY <3>1, <3>2, <3>3
  <2>3. In(v) # <<>>
    BY <2>1, <2>2
  <2>4. QED
    BY <2>2, <2>3, Sizes, EmptyContents
<1>12. QED
  BY <1>2, <1>3, <1>10, <1>11

LEMMA HandlerKeeps ==
  ASSUME IInv, NEW t \in BOOLEAN, NEW r \in BOOLEAN, UARTStdioIntHandler(t, r)
  PROVE  IInv'
<1> DEFINE v == Served(t, r)
<1>1. TypeOK
  BY DEF IInv
<1>2. /\ enabled /\ (t \/ r) /\ t = (txRaised /\ txEnabled)
      /\ txRaised' = (txRaised /\ ~t)
      /\ rxFifo' = (IF r THEN <<>> ELSE rxFifo)
      /\ clash' = (clash \/ Clashes(r))
      /\ UNCHANGED <<enabled, echo, pc, todo, index, line, fits, calls, typed>>
  BY DEF UARTStdioIntHandler, callVars
<1>3. /\ v \in Handling
      /\ IsEmpty(v.tx) \/ Len(v.fifo) = FifoSize
      /\ v.on = (r \/ (txEnabled /\ ~IsEmpty(v.tx)))
      /\ ~echo \/ ~r => TxKept(Found, v)
  <2>1. FALSE \in BOOLEAN
    OBVIOUS
  <2>2. QED
    BY <1>1, <1>2, <2>1, HandlerDoes, Zenon
<1>4. tx' = v.tx /\ rx' = v.rx /\ txFifo' = v.fifo /\ lastWasCR' = v.cr /\ txEnabled' = v.on
  BY HandlerSets, Zenon
<1> HIDE DEF v
<1>5. TypeOK'
  <2>1. <<>> \in Seq(Char) /\ Len(<<>>) <= FifoSize
    BY Sizes
  <2>2. <<>> \in BoundedSeq(Char, FifoSize)
    BY <2>1, Sizes, BoundedSeqIs
  <2>3. Clashes(r) \in BOOLEAN
    BY DEF Clashes
  <2>4. /\ tx' \in Rings(TxSize, Char) /\ rx' \in Rings(RxSize, Char)
        /\ txFifo' \in BoundedSeq(Char, FifoSize)
        /\ lastWasCR' \in BOOLEAN /\ txEnabled' \in BOOLEAN
    BY <1>3, <1>4 DEF Handling
  <2>5. /\ rxFifo' \in BoundedSeq(Char, FifoSize) /\ txRaised' \in BOOLEAN
        /\ clash' \in BOOLEAN
    BY <1>1, <1>2, <2>2, <2>3 DEF TypeOK
  <2>6. QED
    BY <1>1, <1>2, <2>4, <2>5 DEF TypeOK
<1>6. MaskedInFill' /\ TextLeft'
  BY <1>2 DEF IInv, MaskedInFill, TextLeft
<1>7. Fetched'
  <2>1. IsEmpty(tx') \/ Len(txFifo') > TxLevel
    BY <1>3, <1>4, Sizes
  <2>2. ASSUME pc \notin Queueing \cup Priming \cup {"arm"}
        PROVE  IsEmpty(tx') \/ txEnabled'
    BY <1>2, <1>3, <1>4, <2>2
  <2>3. QED
    BY <1>2, <2>1, <2>2 DEF Fetched
<1>8. FoundHolds'
  <2>1. SUFFICES ASSUME ~echo' \/ ~clash'
                 PROVE  /\ pc' \in Storing => ~IsFull(tx', TxSize)
                        /\ pc' \in {"load", "step"} => tx'.slot[tx'.w] = Head(todo')
                        /\ pc' = "step" => index' = tx'.w
                        /\ pc' \in {"read", "readc"} => ~IsEmpty(rx')
    BY DEF FoundHolds
  <2>2. /\ pc \in Storing => tx'.slot = tx.slot /\ tx'.w = tx.w
        /\ pc \in Storing => Count(tx', TxSize) <= Count(tx, TxSize)
        /\ pc \in {"read", "readc"} /\ ~IsEmpty(rx) => ~IsEmpty(rx')
        /\ ~echo \/ ~clash
    BY <2>1, HandlerKeepsFound
  <2>3. /\ pc \in Storing => ~IsFull(tx, TxSize)
        /\ pc \in {"load", "step"} => tx.slot[tx.w] = Head(todo)
        /\ pc = "step" => index = tx.w
        /\ pc \in {"read", "readc"} => ~IsEmpty(rx)
    BY <2>2 DEF IInv, FoundHolds
  <2>4. pc \in Storing => ~IsFull(tx', TxSize)
    <3>1. tx \in Rings(TxSize, Char) /\ tx' \in Rings(TxSize, Char)
      BY <1>1, <1>5 DEF TypeOK
    <3>2. /\ Count(tx, TxSize) \in 0..(TxSize - 1) /\ Count(tx', TxSize) \in 0..(TxSize - 1)
          /\ IsFull(tx, TxSize) <=> Count(tx, TxSize) = TxSize - 1
          /\ IsFull(tx', TxSize) <=> Count(tx', TxSize) = TxSize - 1
      BY <3>1, Sizes, RingTyped
    <3>3. QED
      BY <2>2, <2>3, <3>2, Sizes
  <2>5. {"load", "step"} \subseteq Storing /\ "step" \in Storing
    BY DEF Storing
  <2>6. QED
    BY <1>2, <2>2, <2>3, <2>4, <2>5
<1>9. RoomKept'
  <2>1. SUFFICES ASSUME ~echo, fits, pc \in Queueing
                 PROVE  Len(todo) + Count(tx', TxSize) < TxSize
    BY <1>2 DEF IInv, RoomKept
  <2>2. Count(tx', TxSize) <= Count(tx, TxSize)
    BY <1>1, <1>3, <1>4, <2>1, FoundIsHandling DEF TxKept
  <2>3. Len(todo) + Count(tx, TxSize) < TxSize
    BY <2>1 DEF IInv, RoomKept
  <2>4. /\ Count(tx, TxSize) \in Nat /\ Count(tx', TxSize) \in Nat /\ Len(todo) \in Nat
        /\ TxSize \in Nat
    <3>1. tx \in Rings(TxSize, Char) /\ tx' \in Rings(TxSize, Char)
      BY <1>1, <1>5 DEF TypeOK
    <3>2. Count(tx, TxSize) \in 0..(TxSize - 1) /\ Count(tx', TxSize) \in 0..(TxSize - 1)
      BY <3>1, Sizes, RingTyped
    <3>3. QED
      BY <1>1, <3>2, Shapes, Sizes
  <2>5. QED
    BY <2>2, <2>3, <2>4
<1>10. QED
  BY <1>5, <1>6, <1>7, <1>8, <1>9 DEF IInv

LEMMA NextKeeps == ASSUME IInv, [Next]_vars PROVE IInv'
<1>1. CASE Next
  <2>1. CASE \E text \in Texts : CallWrite(text)
    BY <2>1, CallWriteKeeps
  <2>2. CASE TestRoom
    BY <2>2, TestRoomKeeps
  <2>3. CASE StoreChar
    BY <2>3, StoreCharKeeps
  <2>4. CASE LoadIndex
    BY <2>4, LoadIndexKeeps
  <2>5. CASE StoreIndex
    BY <2>5, StoreIndexKeeps
  <2>6. CASE TestSend
    BY <2>6, TestSendKeeps
  <2>7. CASE PrimeMask
    BY <2>7, PrimeMaskKeeps
  <2>8. CASE PrimeFill
    BY <2>8, PrimeFillKeeps
  <2>9. CASE Arm
    BY <2>9, ArmKeeps
  <2>10. CASE \E what \in {"gets", "getc"} : CallRead(what)
    BY <2>10, CallReadKeeps
  <2>11. CASE TestAvail
    BY <2>11, TestAvailKeeps
  <2>12. CASE ReadForLine
    BY <2>12, ReadForLineKeeps
  <2>13. CASE UARTgetc
    BY <2>13, UARTgetcKeeps
  <2>14. CASE UARTFlushRx
    BY <2>14, UARTFlushRxKeeps
  <2>15. CASE UARTFlushTx
    BY <2>15, UARTFlushTxKeeps
  <2>16. CASE CallDrain
    BY <2>16, CallDrainKeeps
  <2>17. CASE Drained
    BY <2>17, DrainedKeeps
  <2>18. CASE \E on \in BOOLEAN : UARTEchoSet(on)
    BY <2>18, UARTEchoSetKeeps
  <2>19. CASE Interrupt
    BY <2>19, HandlerKeeps DEF Interrupt
  <2>20. CASE Transmit
    BY <2>20, TransmitKeeps
  <2>21. CASE \E c \in Keys : Type(c)
    BY <2>21, TypeKeeps
  <2>22. QED
    BY <1>1, <2>1, <2>2, <2>3, <2>4, <2>5, <2>6, <2>7, <2>8, <2>9, <2>10, <2>11, <2>12,
       <2>13, <2>14, <2>15, <2>16, <2>17, <2>18, <2>19, <2>20, <2>21 DEF Next, Program
<1>2. CASE UNCHANGED vars
  BY <1>2 DEF IInv, TypeOK, MaskedInFill, TextLeft, Fetched, FoundHolds, RoomKept, vars,
              ringVars, uartVars, handlerVars, callVars
<1>3. QED
  BY <1>1, <1>2

\* The buffered console keeps its invariant: what the program found in a ring holds
\* until it acts on it, whatever the interrupt handler does between.
THEOREM ConsoleInvariance == Spec => []IInv
<1>1. Init => IInv
  BY InitHolds
<1>2. IInv /\ [Next]_vars => IInv'
  BY NextKeeps
<1>3. QED
  BY <1>1, <1>2, PTL DEF Spec

\* The indices of the rings, the FIFOs and the line stay in their ranges, for rings and
\* FIFOs of every size.
THEOREM ConsoleTypeCorrect == Spec => []TypeOK
<1>1. IInv => TypeOK
  BY DEF IInv
<1>2. QED
  BY <1>1, ConsoleInvariance, PTL

\* Text left in the ring outside UARTwrite always has its interrupt enabled and to come:
\* the output cannot stall.
THEOREM ConsoleNeverStalls == Spec => []NeverStalls
<1>1. IInv => NeverStalls
  BY DEF IInv, TypeOK, MaskedInFill, Fetched, NeverStalls, Storing, Queueing, Priming
<1>2. QED
  BY <1>1, ConsoleInvariance, PTL

\* A program that keeps within the room UARTTxBytesFree told it has its whole text
\* queued, for as long as nothing is echoed.
THEOREM ConsoleRoomHonoured == Spec => []RoomHonoured
<1>1. IInv => RoomHonoured
  BY DEF IInv, RoomKept, RoomHonoured
<1>2. QED
  BY <1>1, ConsoleInvariance, PTL
-----------------------------------------------------------------------------
(***************************************************************************)
(* The two queues of Pipe.                                                 *)
(***************************************************************************)
Going  == txFifo \o Contents(tx, TxSize)
Coming == Contents(rx, RxSize)

LEMMA QueuesTyped ==
  ASSUME TypeOK
  PROVE  /\ txFifo \in Seq(Char) /\ Contents(tx, TxSize) \in Seq(Char)
         /\ Going \in Seq(Char) /\ Coming \in Seq(Char)
         /\ Len(Going) <= FifoSize + TxSize - 1 /\ Len(Coming) <= RxSize - 1
<1>1. /\ tx \in Rings(TxSize, Char) /\ rx \in Rings(RxSize, Char)
      /\ txFifo \in Seq(Char) /\ Len(txFifo) <= FifoSize /\ Len(txFifo) \in Nat
  BY Shapes
<1>2. /\ Count(tx, TxSize) \in 0..(TxSize - 1) /\ Count(rx, RxSize) \in 0..(RxSize - 1)
  BY <1>1, Sizes, RingTyped
<1>3. /\ Contents(tx, TxSize) \in Seq(Char) /\ Coming \in Seq(Char)
      /\ Len(Contents(tx, TxSize)) = Count(tx, TxSize) /\ Len(Coming) = Count(rx, RxSize)
  BY <1>1, Sizes, ContentsAre DEF Coming
<1>4. Going \in Seq(Char) /\ Len(Going) = Len(txFifo) + Count(tx, TxSize)
  BY <1>1, <1>3, ConcatProperties DEF Going
<1>5. Len(Going) <= FifoSize + TxSize - 1 /\ Len(Coming) <= RxSize - 1
  BY <1>1, <1>2, <1>3, <1>4, Sizes
<1>6. QED
  BY <1>1, <1>3, <1>4, <1>5

LEMMA BoundedIfTyped == TypeOK => TheQueues!Bounded
BY QueuesTyped DEF TheQueues!Bounded, Going, Coming

LEMMA StaysBounded == TypeOK' => TheQueues!Bounded'
BY BoundedIfTyped, PTL
LEMMA SamePrefix == \A s, x : TheQueues!IsPrefix(s, x) <=> IsPrefix(s, x)
BY DEF TheQueues!IsPrefix, IsPrefix

LEMMA PipeInit == Init => TheQueues!Init
<1>1. SUFFICES ASSUME Init PROVE TheQueues!Init
  OBVIOUS
<1>2. /\ tx \in Rings(TxSize, Char) /\ rx \in Rings(RxSize, Char)
      /\ IsEmpty(tx) /\ IsEmpty(rx)
  BY <1>1, InitEmpty
<1>3. Contents(tx, TxSize) = <<>> /\ Contents(rx, RxSize) = <<>>
  BY <1>2, Sizes, EmptyContents
<1>4. txFifo = <<>> /\ clash = FALSE
  BY <1>1 DEF Init
<1>5. <<>> \o <<>> = <<>>
  OBVIOUS
<1>6. QED
  BY <1>3, <1>4, <1>5 DEF TheQueues!Init

\* A step of the program that leaves both queues as they are.
LEMMA QueuesStay ==
  ASSUME Going' = Going, Coming' = Coming
  PROVE  UNCHANGED TheQueues!vars
BY DEF TheQueues!vars, Going, Coming

LEMMA StoreIndexAccepts ==
  ASSUME IInv, TypeOK', StoreIndex, ~clash
  PROVE  TheQueues!Step
<1> DEFINE c == Contents(tx, TxSize)
           d == Contents(tx', TxSize)
<1>1. /\ txFifo \in Seq(Char) /\ c \in Seq(Char) /\ todo \in Seq(Char) /\ todo # <<>>
  BY QueuesTyped, Shapes DEF IInv, TextLeft, StoreIndex, Storing
<1>2. d = Append(c, Head(todo)) /\ Head(todo) \in Char
  BY <1>1, IndexStored
<1>3. txFifo' = txFifo /\ rx' = rx
  BY DEF StoreIndex, uartVars
<1> HIDE DEF c, d
<1>4. d \in Seq(Char) /\ IsPrefix(c, d)
  BY <1>1, <1>2, PrefixOfAppend
<1>5. IsPrefix(txFifo \o c, txFifo \o d)
  BY <1>1, <1>4, PrefixOfConcat
<1>6. TheQueues!Accept
  <2>1. Going = txFifo \o c /\ Going' = txFifo \o d /\ Coming' = Coming
    BY <1>3 DEF Going, Coming, c, d
  <2>2. IsPrefix(Going, Going') /\ Coming' = Coming
    BY <1>5, <2>1
  <2>3. QED
    BY <2>2, SamePrefix DEF TheQueues!Accept, Going, Coming
<1>7. QED
  BY <1>6, StaysBounded DEF TheQueues!Step

LEMMA TransmitSends ==
  ASSUME IInv, TypeOK', Transmit
  PROVE  TheQueues!Step
<1> DEFINE c == Contents(tx, TxSize)
<1>1. txFifo \in Seq(Char) /\ txFifo # <<>> /\ c \in Seq(Char)
  BY QueuesTyped DEF IInv, Transmit
<1>2. txFifo' = Tail(txFifo) /\ tx' = tx /\ rx' = rx
  BY DEF Transmit, ringVars
<1> HIDE DEF c
<1>3. txFifo \o c # <<>> /\ Tail(txFifo \o c) = Tail(txFifo) \o c
  BY <1>1
<1>4. TheQueues!Send
  BY <1>2, <1>3 DEF TheQueues!Send, c
<1>5. QED
  BY <1>4, StaysBounded DEF TheQueues!Step

LEMMA FlushDiscards ==
  ASSUME IInv, TypeOK', UARTFlushTx
  PROVE  TheQueues!Step
<1>1. txFifo \in Seq(Char) /\ txFifo' = txFifo /\ rx' = rx
  BY QueuesTyped DEF IInv, UARTFlushTx, uartVars
<1>2. Contents(tx', TxSize) = <<>>
  BY Sizes, EmptiedIsEmpty DEF IInv, TypeOK, UARTFlushTx
<1>3. txFifo \o <<>> = txFifo
  BY <1>1
<1>4. TheQueues!Discard
  BY <1>1, <1>2, <1>3 DEF TheQueues!Discard
<1>5. QED
  BY <1>4, StaysBounded DEF TheQueues!Step

LEMMA ReadTakes ==
  ASSUME IInv, TypeOK', pc \in {"read", "readc"}, ~clash,
         rx' = DropOldest(rx, RxSize), tx' = tx, txFifo' = txFifo
  PROVE  TheQueues!Step
<1>1. rx \in Rings(RxSize, Char) /\ ~IsEmpty(rx)
  BY DEF IInv, TypeOK, FoundHolds
<1>2. /\ Contents(rx, RxSize) # <<>>
      /\ Contents(rx', RxSize) = Tail(Contents(rx, RxSize))
  BY <1>1, Sizes, EmptyContents, DropOldestTakesHead
<1>3. TheQueues!Take
  BY <1>2 DEF TheQueues!Take
<1>4. QED
  BY <1>3, StaysBounded DEF TheQueues!Step

LEMMA FlushForgets ==
  ASSUME IInv, TypeOK', UARTFlushRx
  PROVE  TheQueues!Step
<1>1. Contents(rx', RxSize) = <<>> /\ tx' = tx /\ txFifo' = txFifo
  BY Sizes, EmptiedIsEmpty DEF IInv, TypeOK, UARTFlushRx, uartVars
<1>2. TheQueues!Forget
  BY <1>1 DEF TheQueues!Forget
<1>3. QED
  BY <1>2, StaysBounded DEF TheQueues!Step

\* The handler receives what was typed, or only fetches what goes out.
LEMMA HandlerReceives ==
  ASSUME IInv, TypeOK', NEW t \in BOOLEAN, NEW r \in BOOLEAN, UARTStdioIntHandler(t, r)
  PROVE  TheQueues!Step \/ UNCHANGED TheQueues!vars
<1> DEFINE v == Served(t, r)
           quiet == ~echo
<1>1. TypeOK /\ (t \/ r) /\ (r => rxFifo' = <<>>)
  BY DEF IInv, UARTStdioIntHandler
<1>2. quiet \in BOOLEAN
  BY <1>1 DEF TypeOK
<1>3. quiet => ~r \/ ~echo \/ \A i \in 1..Len(rxFifo) : rxFifo[i] # BS
  OBVIOUS
<1>4. /\ v \in Handling
      /\ IsPrefix(Out(Found), Out(v))
      /\ Len(In(v)) <= Len(In(Found)) + Len(rxFifo)
      /\ \E j \in Nat : /\ Kept(In(Found), In(v), j)
                        /\ j >= Len(In(Found)) - Len(rxFifo)
                        /\ quiet => j = Len(In(Found))
      /\ ~r => Out(v) = Out(Found) /\ v.rx = rx
  BY <1>1, <1>2, <1>3, HandlerDoes, Zenon
<1>5. tx' = v.tx /\ rx' = v.rx /\ txFifo' = v.fifo
  BY HandlerSets, Zenon
<1> HIDE DEF v
<1>6. Out(Found) = Going /\ In(Found) = Coming /\ Out(v) = Going' /\ In(v) = Coming'
  BY <1>1, <1>5, FoundIsHandling DEF Going, Coming, Out, In
<1>7. CASE ~r
  <2>1. Going' = Going /\ Coming' = Coming
    BY <1>4, <1>5, <1>6, <1>7 DEF Coming
  <2>2. QED
    BY <2>1, QueuesStay
<1>8. CASE r
  <2>1. /\ Coming \in Seq(Char) /\ Len(Coming) \in Nat
        /\ Coming' \in Seq(Char) /\ Len(Coming') \in Nat
    <3>1. In(v) \in Seq(Char) /\ Coming \in Seq(Char)
      BY <1>1, <1>4, HandlingTyped, QueuesTyped
    <3>2. QED
      BY <1>6, <3>1, LenProperties
  <2>2. PICK j \in Nat : /\ Kept(Coming, Coming', j)
                         /\ j >= Len(Coming) - Len(rxFifo)
                         /\ quiet => j = Len(Coming)
    BY <1>4, <1>6
  <2>3. IsPrefix(SubSeq(Coming, 1, j), Coming')
    <3>1. j <= Len(Coming) /\ j <= Len(Coming') /\ \A i \in 1..j : Coming[i] = Coming'[i]
      BY <2>2 DEF Kept
    <3> DEFINE s == SubSeq(Coming, 1, j)
    <3>2. s \in Seq(Char) /\ Len(s) = j /\ \A i \in 1..j : s[i] = Coming[i]
      BY <2>1, <3>1, FrontIs
    <3> HIDE DEF s
    <3>3. Len(s) <= Len(Coming') /\ \A i \in 1..Len(s) : s[i] = Coming'[i]
      BY <3>1, <3>2
    <3>4. QED
      BY <2>1, <3>2, <3>3, PrefixIs DEF s
  <2>4. \/ IsPrefix(Coming, Coming')
        \/ echo /\ \E k \in 0..Len(Coming) :
             k >= Len(Coming) - Len(rxFifo) /\ IsPrefix(SubSeq(Coming, 1, k), Coming')
    <3>1. CASE echo
      <4>1. j \in 0..Len(Coming)
        BY <2>1, <2>2 DEF Kept
      <4>2. QED
        BY <2>2, <2>3, <3>1, <4>1
    <3>2. CASE ~echo
      <4>1. SubSeq(Coming, 1, Len(Coming)) = Coming
        BY <2>1
      <4>2. QED
        BY <2>2, <2>3, <3>2, <4>1
    <3>3. QED
      BY <3>1, <3>2
  <2>5. rxFifo' = <<>> /\ IsPrefix(Going, Going')
        /\ Len(Coming') <= Len(Coming) + Len(rxFifo)
    BY <1>1, <1>4, <1>6, <1>8
  <2>6. TheQueues!Receive
    BY <2>4, <2>5, SamePrefix DEF TheQueues!Receive, Going, Coming
  <2>7. QED
    BY <2>6, StaysBounded DEF TheQueues!Step
<1>9. QED
  BY <1>7, <1>8

\* Every step of the console is a step of the pipe or none, until the first clash.
LEMMA PipeStep == IInv /\ IInv' /\ [Next]_vars => [TheQueues!Next]_(TheQueues!vars)
<1>1. SUFFICES ASSUME IInv, TypeOK', [Next]_vars, ~clash
               PROVE  TheQueues!Step \/ UNCHANGED TheQueues!vars
  BY DEF TheQueues!Next, IInv
<1>2. ASSUME tx' = tx, rx' = rx, txFifo' = txFifo
      PROVE  UNCHANGED TheQueues!vars
  BY <1>2 DEF TheQueues!vars
<1>3. CASE Program
  <2>1. CASE StoreChar
    <3>1. Contents(tx', TxSize) = Contents(tx, TxSize)
      BY <1>1, <2>1, CharStored DEF IInv
    <3>2. txFifo' = txFifo /\ rx' = rx
      BY <2>1 DEF StoreChar, uartVars
    <3>3. Going' = Going /\ Coming' = Coming
      BY <3>1, <3>2 DEF Going, Coming
    <3>4. QED
      BY <3>3, QueuesStay
  <2>2. CASE StoreIndex
    BY <1>1, <2>2, StoreIndexAccepts
  <2>3. CASE PrimeFill
    <3>1. CASE Len(txFifo) < FifoSize /\ ~IsEmpty(tx)
      <4>1. txFifo' = Append(txFifo, Oldest(tx)) /\ tx' = DropOldest(tx, TxSize) /\ rx' = rx
        BY <2>3, <3>1 DEF PrimeFill
      <4>2. Going' = Going
        BY <1>1, <3>1, <4>1, OneMoved DEF IInv, Going
      <4>3. Coming' = Coming
        BY <4>1 DEF Coming
      <4>4. QED
        BY <4>2, <4>3, QueuesStay
    <3>2. CASE ~(Len(txFifo) < FifoSize /\ ~IsEmpty(tx))
      <4>1. tx' = tx /\ rx' = rx /\ txFifo' = txFifo
        BY <2>3, <3>2 DEF PrimeFill
      <4>2. QED
        BY <1>2, <4>1
    <3>3. QED
      BY <3>1, <3>2
  <2>4. CASE ReadForLine
    <3>1. pc = "read" /\ rx' = DropOldest(rx, RxSize) /\ tx' = tx /\ txFifo' = txFifo
      BY <2>4 DEF ReadForLine, uartVars
    <3>2. QED
      BY <1>1, <3>1, ReadTakes
  <2>5. CASE UARTgetc
    <3>1. pc = "readc" /\ rx' = DropOldest(rx, RxSize) /\ tx' = tx /\ txFifo' = txFifo
      BY <2>5 DEF UARTgetc, uartVars
    <3>2. QED
      BY <1>1, <3>1, ReadTakes
  <2>6. CASE UARTFlushRx
    BY <1>1, <2>6, FlushForgets
  <2>7. CASE UARTFlushTx
    BY <1>1, <2>7, FlushDiscards
  <2>8. CASE \/ \E text \in Texts : CallWrite(text)
             \/ TestRoom \/ LoadIndex \/ TestSend
    BY <1>2, <2>8 DEF CallWrite, TestRoom, LoadIndex, TestSend, ringVars, uartVars
  <2>9. CASE PrimeMask \/ Arm
    BY <1>2, <2>9 DEF PrimeMask, Arm, ringVars
  <2>10. CASE \/ \E what \in {"gets", "getc"} : CallRead(what)
              \/ TestAvail \/ CallDrain \/ Drained
              \/ \E on \in BOOLEAN : UARTEchoSet(on)
    BY <1>2, <2>10 DEF CallRead, TestAvail, CallDrain, Drained, UARTEchoSet, ringVars,
                       uartVars
  <2>11. QED
    BY <1>3, <2>1, <2>2, <2>3, <2>4, <2>5, <2>6, <2>7, <2>8, <2>9, <2>10 DEF Program
<1>4. CASE Interrupt
  BY <1>1, <1>4, HandlerReceives DEF Interrupt
<1>5. CASE Transmit
  BY <1>1, <1>5, TransmitSends
<1>6. CASE \E c \in Keys : Type(c)
  BY <1>2, <1>6 DEF Type, ringVars
<1>7. CASE UNCHANGED vars
  BY <1>2, <1>7 DEF vars, ringVars, uartVars
<1>8. QED
  BY <1>1, <1>3, <1>4, <1>5, <1>6, <1>7 DEF Next

\* Until the echo first meets the program inside a ring, the buffered console is the
\* two queues of Pipe: nothing written or typed is lost, repeated or reordered, for
\* rings, FIFOs, texts and keys of every kind and in every interleaving with the
\* interrupt handler.
THEOREM ConsoleIsPipe == Spec => ImplementsPipe
<1>1. QED
  BY PipeInit, PipeStep, ConsoleInvariance, PTL DEF Spec, ImplementsPipe, TheQueues!Spec
=============================================================================
