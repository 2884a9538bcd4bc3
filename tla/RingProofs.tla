----------------------------- MODULE RingProofs -----------------------------
(***************************************************************************)
(* Proofs about the buffers of uartstdio.c, for every size: what the       *)
(* macros do to the indices is what a queue of n - 1 elements does.  Before *)
(* them come induction on numbers and the folds over sequences, with which *)
(* the loops over a text are modelled.                                     *)
(***************************************************************************)
EXTENDS Ring, SequencesExt, SequenceTheorems, WellFoundedInduction, TLAPS

-----------------------------------------------------------------------------
(***************************************************************************)
(* Induction, without an operator for what is shown: a set of numbers that *)
(* has 0 and each successor has them all.                                  *)
(***************************************************************************)

\* A set of natural numbers that is not empty has a least element.
LEMMA LeastNat ==
  ASSUME NEW T \in SUBSET Nat, T # {}
  PROVE  \E m \in T : \A n \in T : m <= n
<1> DEFINE R == OpToRel(<, Nat)
<1>1. IsWellFoundedOn(R, Nat)
  BY NatLessThanWellFounded
<1>2. \A n, m \in Nat : n < m => <<n, m>> \in R
  BY Zenon DEF OpToRel
<1> HIDE DEF R
<1>3. PICK m \in T : \A n \in T : ~ (<<n, m>> \in R)
  BY <1>1, WFMin
<1>4. \A n \in T : ~ (n < m)
  BY <1>2, <1>3
<1>5. QED
  BY <1>4

\* What holds of 0 and of each number after one it holds of holds up to N.
LEMMA UpTo ==
  ASSUME NEW N \in Nat, NEW T, 0 \in T, \A k \in 1..N : k - 1 \in T => k \in T
  PROVE  \A k \in 0..N : k \in T
<1> DEFINE U == (0..N) \ T
<1>1. SUFFICES ASSUME U # {} PROVE FALSE
  OBVIOUS
<1>2. U \in SUBSET Nat
  OBVIOUS
<1>3. PICK m \in U : \A n \in U : m <= n
  <2> HIDE DEF U
  <2>1. QED
    BY <1>1, <1>2, LeastNat
<1>4. m \in 1..N /\ m - 1 \in 0..N /\ m - 1 \notin U
  BY <1>3
<1>5. QED
  BY <1>3, <1>4

\* A quotient is the only number of whole divisors below.
LEMMA Quotient ==
  ASSUME NEW a \in Nat, NEW b \in Nat, NEW q \in Nat, NEW r \in Nat,
         r < b, a = q * b + r
  PROVE  a \div b = q
OBVIOUS

-----------------------------------------------------------------------------
(***************************************************************************)
(* FoldLeft of the community modules, with the step as a function F: it is *)
(* the last of the values a[0], a[1], ... that the steps go through.       *)
(***************************************************************************)
LEMMA MaxOfTop ==
  ASSUME NEW n \in Nat, NEW s \in SUBSET (1..n), n \in s
  PROVE  Max(s) = n
<1>1. \A y \in s : n >= y
  OBVIOUS
<1>2. \A x \in s : (\A y \in s : x >= y) => x = n
  OBVIOUS
<1>3. QED
  BY <1>1, <1>2 DEF Max

IsFoldOn(g, F, base, seq, n) ==
  \A s \in SUBSET (1..n) :
    /\ s # {} => Max(s) \in 1..n
    /\ g[s] = IF s = {} THEN base ELSE F[<<g[s \ {Max(s)}], seq[Max(s)]>>]

\* The recursion of the fold has a solution.
LEMMA FoldExists ==
  ASSUME NEW X, NEW Y, NEW base \in X, NEW F \in [X \X Y -> X], NEW N \in Nat,
         NEW seq \in [1..N -> Y]
  PROVE  \E g \in [SUBSET (1..N) -> X] : IsFoldOn(g, F, base, seq, N)
<1> DEFINE T == {n \in 0..N : \E g \in [SUBSET (1..n) -> X] : IsFoldOn(g, F, base, seq, n)}
<1>1. 0 \in T
  <2> DEFINE g == [s \in SUBSET (1..0) |-> base]
  <2>1. g \in [SUBSET (1..0) -> X]
    OBVIOUS
  <2>2. \A s \in SUBSET (1..0) : s = {} /\ g[s] = base
    OBVIOUS
  <2> HIDE DEF g
  <2>3. IsFoldOn(g, F, base, seq, 0)
    BY <2>2 DEF IsFoldOn
  <2>4. 0 \in 0..N
    OBVIOUS
  <2>5. QED
    BY <2>1, <2>3, <2>4, Zenon
<1>2. ASSUME NEW m \in 1..N, m - 1 \in T
      PROVE  m \in T
  <2> DEFINE n == m - 1
  <2>1. m \in Nat /\ n \in Nat /\ 1..m = (1..n) \cup {m} /\ m \notin 1..n
    BY SMT
  <2>2. PICK g \in [SUBSET (1..n) -> X] : IsFoldOn(g, F, base, seq, n)
    BY <1>2
  <2> HIDE DEF n
  <2> DEFINE h == [s \in SUBSET (1..m) |->
                     IF m \in s THEN F[<<g[s \ {m}], seq[m]>>] ELSE g[s]]
  <2>3. ASSUME NEW s \in SUBSET (1..m)
        PROVE  /\ s # {} => Max(s) \in 1..m
               /\ h[s] \in X
               /\ h[s] = IF s = {} THEN base ELSE F[<<h[s \ {Max(s)}], seq[Max(s)]>>]
    <3>1. CASE m \in s
      <4>1. Max(s) = m
        BY <2>1, <3>1, MaxOfTop
      <4>2. s \ {m} \in SUBSET (1..n) /\ s \ {m} \in SUBSET (1..m)
        BY <2>1
      <4>3. h[s \ {m}] = g[s \ {m}] /\ h[s] = F[<<g[s \ {m}], seq[m]>>]
        BY <3>1, <4>2
      <4>4. g[s \ {m}] \in X /\ seq[m] \in Y
        BY <2>1, <4>2
      <4>5. h[s] \in X
        BY <4>3, <4>4
      <4>6. QED
        BY <2>1, <3>1, <4>1, <4>3, <4>5
    <3>2. CASE m \notin s
      <4>1. /\ s \in SUBSET (1..n) /\ s \ {Max(s)} \in SUBSET (1..n)
            /\ s \ {Max(s)} \in SUBSET (1..m)
        BY <2>1, <3>2
      <4>2. h[s] = g[s] /\ h[s \ {Max(s)}] = g[s \ {Max(s)}] /\ g[s] \in X
        BY <3>2, <4>1
      <4>3. QED
        BY <2>1, <2>2, <4>1, <4>2 DEF IsFoldOn
    <3>3. QED
      BY <3>1, <3>2
  <2>4. h \in [SUBSET (1..m) -> X]
    BY <2>3
  <2> HIDE DEF h
  <2>5. IsFoldOn(h, F, base, seq, m)
    BY <2>3 DEF IsFoldOn
  <2>6. QED
    BY <2>4, <2>5
<1>3. N \in T
  <2>1. \A m \in 1..N : m - 1 \in T => m \in T
    BY <1>2
  <2>2. N \in 0..N
    OBVIOUS
  <2> HIDE DEF T
  <2>3. QED
    BY <1>1, <2>1, <2>2, UpTo
<1>4. QED
  BY <1>3

StepsOn(it, X, Y, F, base, seq, n) ==
  /\ it[{}] = base
  /\ \A s \in SUBSET (1..n) :
       s # {} /\ it[s \ {Max(s)}] \in X /\ seq[Max(s)] \in Y =>
         it[s] = F[<<it[s \ {Max(s)}], seq[Max(s)]>>]

IsRun(a, F, base, seq, n) ==
  a[0] = base /\ \A k \in 1..n : a[k] = F[<<a[k - 1], seq[k]>>]

HasRun(last, X, F, base, seq, n) ==
  \E a \in [0..n -> X] : IsRun(a, F, base, seq, n) /\ a[n] = last

\* Along the prefixes of the sequence a solution takes one step after the other,
\* and it stays in X.
LEMMA FoldRuns ==
  ASSUME NEW X, NEW Y, NEW base \in X, NEW F \in [X \X Y -> X], NEW N \in Nat,
         NEW seq \in [1..N -> Y], NEW it, StepsOn(it, X, Y, F, base, seq, N)
  PROVE  HasRun(it[1..N], X, F, base, seq, N)
<1>1. ASSUME NEW k \in 1..N, it[1..(k - 1)] \in X
      PROVE  it[1..k] = F[<<it[1..(k - 1)], seq[k]>>] /\ it[1..k] \in X
  <2>1. k \in Nat /\ k \in 1..k /\ 1..k \in SUBSET (1..N) /\ 1..k \in SUBSET (1..k)
    BY SMT
  <2>2. (1..k) \ {k} = 1..(k - 1)
    <3>1. \A j : j \in (1..k) \ {k} <=> j \in 1..(k - 1)
      BY <2>1
    <3>2. QED
      BY <3>1
  <2>3. Max(1..k) = k
    BY <2>1, MaxOfTop
  <2>4. seq[k] \in Y /\ 1..k # {}
    BY <2>1
  <2>5. QED
    BY <1>1, <2>1, <2>2, <2>3, <2>4 DEF StepsOn
<1> DEFINE T == {k \in 0..N : it[1..k] \in X}
<1>2. 1..0 = {}
  OBVIOUS
<1>3. 0 \in T
  BY <1>2 DEF StepsOn
<1>4. \A k \in 1..N : k - 1 \in T => k \in T
  <2>1. SUFFICES ASSUME NEW k \in 1..N, k - 1 \in T PROVE k \in T
    BY Zenon
  <2>2. it[1..(k - 1)] \in X
    BY <2>1
  <2>3. it[1..k] \in X
    BY <1>1, <2>2, Zenon
  <2>4. k \in 0..N
    OBVIOUS
  <2>5. QED
    BY <2>3, <2>4
<1>5. \A k \in 0..N : it[1..k] \in X
  <2> HIDE DEF T
  <2>1. \A k \in 0..N : k \in T
    BY <1>3, <1>4, UpTo
  <2>2. QED
    BY <2>1 DEF T
<1> DEFINE a == [k \in 0..N |-> it[1..k]]
<1>6. a \in [0..N -> X]
  BY <1>5
<1>7. a[0] = base /\ a[N] = it[1..N]
  BY <1>2 DEF StepsOn
<1>8. \A k \in 1..N : a[k] = F[<<a[k - 1], seq[k]>>]
  <2>1. \A k \in 1..N : k \in 0..N /\ k - 1 \in 0..N
    OBVIOUS
  <2>2. QED
    BY <1>1, <1>5, <2>1
<1> HIDE DEF a
<1>9. QED
  BY <1>6, <1>7, <1>8 DEF IsRun, HasRun

\* Two runs over the same elements end alike.
LEMMA RunsAgree ==
  ASSUME NEW F, NEW base, NEW n \in Nat, NEW s, NEW t, NEW a, NEW b,
         IsRun(a, F, base, s, n), IsRun(b, F, base, t, n), \A k \in 1..n : s[k] = t[k]
  PROVE  a[n] = b[n]
<1> DEFINE T == {k \in 0..n : a[k] = b[k]}
<1>1. 0 \in T
  <2>1. 0 \in 0..n
    OBVIOUS
  <2>2. QED
    BY <2>1 DEF IsRun
<1>2. ASSUME NEW k \in 1..n, k - 1 \in T PROVE k \in T
  <2>1. k \in 0..n
    OBVIOUS
  <2>2. QED
    BY <1>2, <2>1 DEF IsRun
<1>3. \A k \in 0..n : k \in T
  <2>1. \A k \in 1..n : k - 1 \in T => k \in T
    BY <1>2
  <2> HIDE DEF T
  <2>2. QED
    BY <1>1, <2>1, UpTo
<1>4. n \in 0..n
  OBVIOUS
<1>5. QED
  BY <1>3, <1>4

\* A loop of n steps has its intermediate values.
HasLoop(X, base, N, F) ==
  \E a \in [0..N -> X] : a[0] = base /\ \A k \in 1..N : a[k] = F[<<a[k - 1], k>>]

LEMMA LoopExists ==
  ASSUME NEW X, NEW base \in X, NEW N \in Nat, NEW F \in [X \X (1..N) -> X]
  PROVE  HasLoop(X, base, N, F)
<1> DEFINE seq == [k \in 1..N |-> k]
<1>1. seq \in [1..N -> 1..N] /\ \A k \in 1..N : seq[k] = k
  OBVIOUS
<1> HIDE DEF seq
<1> DEFINE Y == 1..N
<1>2. PICK g \in [SUBSET (1..N) -> X] : IsFoldOn(g, F, base, seq, N)
  <2>1. seq \in [1..N -> Y] /\ F \in [X \X Y -> X]
    BY <1>1
  <2> HIDE DEF Y
  <2>2. QED
    BY <2>1, FoldExists
<1>3. StepsOn(g, X, 1..N, F, base, seq, N)
  BY <1>2 DEF IsFoldOn, StepsOn
<1>4. HasRun(g[1..N], X, F, base, seq, N)
  BY <1>1, <1>3, FoldRuns
<1>5. PICK a \in [0..N -> X] : IsRun(a, F, base, seq, N)
  BY <1>4 DEF HasRun
<1>6. QED
  BY <1>1, <1>5 DEF IsRun, HasLoop

-----------------------------------------------------------------------------
\* FlattenSeq puts the sequences one behind the other.
LEMMA FlattenRuns ==
  ASSUME NEW S, NEW seqs \in Seq(Seq(S))
  PROVE  \E a \in [0..Len(seqs) -> Seq(S)] :
           /\ a[0] = <<>> /\ FlattenSeq(seqs) = a[Len(seqs)]
           /\ \A k \in 1..Len(seqs) : a[k] = a[k - 1] \o seqs[k]
<1> DEFINE N == Len(seqs)
           IsFlat(f, n) == f = [i \in 1..n |-> IF i = 1 THEN seqs[i]
                                               ELSE f[i - 1] \o seqs[i]]
           T == {n \in 0..N : \E f \in [1..n -> Seq(S)] : IsFlat(f, n)}
<1>1. N \in Nat /\ seqs \in [1..N -> Seq(S)]
  OBVIOUS
<1> HIDE DEF N
<1>2. 0 \in T
  <2>1. [i \in 1..0 |-> <<>>] \in [1..0 -> Seq(S)] /\ IsFlat([i \in 1..0 |-> <<>>], 0)
    OBVIOUS
  <2>2. 0 \in 0..N
    BY <1>1
  <2>3. QED
    BY <2>1, <2>2, Zenon
<1>3. ASSUME NEW m \in 1..N, m - 1 \in T
      PROVE  m \in T
  <2>1. PICK f \in [1..(m - 1) -> Seq(S)] : IsFlat(f, m - 1)
    BY <1>3
  <2> DEFINE g == [i \in 1..m |-> IF i = 1 THEN seqs[i]
                                  ELSE IF i = m THEN f[m - 1] \o seqs[m] ELSE f[i]]
  <2>2. ASSUME NEW i \in 1..m
        PROVE  g[i] \in Seq(S) /\ g[i] = IF i = 1 THEN seqs[i] ELSE g[i - 1] \o seqs[i]
    <3>1. i \in 1..N /\ seqs[i] \in Seq(S) /\ seqs[m] \in Seq(S)
      BY <1>1
    <3>2. CASE i = 1
      BY <3>1, <3>2
    <3>3. CASE i # 1 /\ i = m
      <4>1. m - 1 \in 1..(m - 1) /\ m - 1 \in 1..m /\ m - 1 # m
        BY <3>3
      <4>2. f[m - 1] \in Seq(S) /\ g[i] = f[m - 1] \o seqs[m]
        BY <3>3, <4>1
      <4>3. g[m - 1] = f[m - 1]
        BY <2>1, <4>1
      <4> HIDE DEF g
      <4>4. g[i] = g[i - 1] \o seqs[i]
        BY <3>3, <4>2, <4>3
      <4>5. g[i] \in Seq(S)
        BY <3>1, <4>2
      <4>6. QED
        BY <3>3, <4>4, <4>5
    <3>4. CASE i # 1 /\ i # m
      <4>1. i \in 1..(m - 1) /\ i - 1 \in 1..(m - 1) /\ i - 1 \in 1..m /\ i - 1 # m
        BY <3>4
      <4>2. g[i] = f[i] /\ f[i] \in Seq(S) /\ f[i] = f[i - 1] \o seqs[i]
        BY <2>1, <3>4, <4>1
      <4>3. g[i - 1] = f[i - 1]
        BY <2>1, <4>1
      <4>4. QED
        BY <3>4, <4>2, <4>3
    <3>5. QED
      BY <3>2, <3>3, <3>4
  <2>3. g \in [1..m -> Seq(S)] /\ IsFlat(g, m)
    BY <2>2
  <2>4. m \in 0..N
    BY <1>1
  <2> HIDE DEF g, IsFlat
  <2>5. QED
    BY <2>3, <2>4, Zenon
<1>4. PICK f \in [1..N -> Seq(S)] : IsFlat(f, N)
  <2>1. N \in T
    <3>1. \A m \in 1..N : m - 1 \in T => m \in T
      BY <1>3
    <3>2. N \in 0..N
      BY <1>1
    <3> HIDE DEF T
    <3>3. QED
      BY <1>1, <1>2, <3>1, <3>2, UpTo
  <2>2. QED
    BY <2>1
<1> DEFINE flat == CHOOSE it : IsFlat(it, N)
<1>5. IsFlat(flat, N)
  <2> HIDE DEF IsFlat
  <2>1. QED
    BY <1>4, Zenon
<1>6. N # 0 => FlattenSeq(seqs) = flat[N]
  BY Zenon DEF FlattenSeq, N
<1>7. N = 0 => FlattenSeq(seqs) = <<>>
  BY DEF FlattenSeq, N
<1> HIDE DEF flat
<1> DEFINE a == [k \in 0..N |-> IF k = 0 THEN <<>> ELSE flat[k]]
<1>8. \A k \in 1..N : flat[k] = IF k = 1 THEN seqs[k] ELSE flat[k - 1] \o seqs[k]
  BY <1>5
<1>9. ASSUME NEW k \in 1..N
      PROVE  a[k] = a[k - 1] \o seqs[k]
  <2>1. k \in 0..N /\ k - 1 \in 0..N /\ seqs[k] \in Seq(S)
    BY <1>1
  <2>2. CASE k = 1
    BY <1>8, <2>1, <2>2
  <2>3. CASE k # 1
    <3>1. flat[k] = flat[k - 1] \o seqs[k]
      BY <1>8, <2>3
    <3>2. k # 0 /\ k - 1 # 0
      BY <2>3
    <3>3. a[k] = flat[k] /\ a[k - 1] = flat[k - 1]
      BY <2>1, <3>2
    <3>4. QED
      BY <3>1, <3>3
  <2>4. QED
    BY <2>2, <2>3
<1>10. \A k \in 0..N : a[k] \in Seq(S)
  <2> DEFINE U == {k \in 0..N : a[k] \in Seq(S)}
  <2>1. 0 \in U
    BY <1>1
  <2>2. \A k \in 1..N : k - 1 \in U => k \in U
    <3> HIDE DEF a
    <3>1. SUFFICES ASSUME NEW k \in 1..N, k - 1 \in U PROVE k \in U
      BY Zenon
    <3>2. a[k - 1] \in Seq(S) /\ seqs[k] \in Seq(S)
      BY <1>1, <3>1
    <3>3. a[k] = a[k - 1] \o seqs[k]
      BY <1>9
    <3>4. a[k] \in Seq(S) /\ k \in 0..N
      BY <1>1, <3>2, <3>3
    <3>5. QED
      BY <3>4
  <2> HIDE DEF U, a
  <2>3. QED
    BY <1>1, <2>1, <2>2, UpTo DEF U
<1>11. a \in [0..N -> Seq(S)] /\ a[0] = <<>> /\ FlattenSeq(seqs) = a[N]
  BY <1>1, <1>6, <1>7, <1>10
<1> HIDE DEF a
<1>12. QED
  BY <1>9, <1>11 DEF N

LEMMA FlattenTyped ==
  ASSUME NEW S, NEW seqs \in Seq(Seq(S))
  PROVE  FlattenSeq(seqs) \in Seq(S)
<1>1. PICK a \in [0..Len(seqs) -> Seq(S)] : FlattenSeq(seqs) = a[Len(seqs)]
  BY FlattenRuns
<1>2. Len(seqs) \in 0..Len(seqs)
  OBVIOUS
<1>3. QED
  BY <1>1, <1>2

\* What FlattenSeq gives is at the end of every such run.
IsFlatRun(a, seqs, n) == a[0] = <<>> /\ \A k \in 1..n : a[k] = a[k - 1] \o seqs[k]

LEMMA FlattenIs ==
  ASSUME NEW S, NEW seqs \in Seq(Seq(S)), NEW b, IsFlatRun(b, seqs, Len(seqs))
  PROVE  FlattenSeq(seqs) = b[Len(seqs)]
<1> DEFINE N == Len(seqs)
<1>1. N \in Nat /\ N \in 0..N
  BY LenProperties
<1>2. PICK a \in [0..N -> Seq(S)] :
        /\ a[0] = <<>> /\ FlattenSeq(seqs) = a[N]
        /\ \A k \in 1..N : a[k] = a[k - 1] \o seqs[k]
  BY FlattenRuns
<1> DEFINE T == {k \in 0..N : a[k] = b[k]}
<1>3. b[0] = <<>> /\ \A k \in 1..N : b[k] = b[k - 1] \o seqs[k]
  BY DEF IsFlatRun
<1> HIDE DEF N
<1>4. 0 \in T
  BY <1>1, <1>2, <1>3
<1>5. ASSUME NEW k \in 1..N, k - 1 \in T PROVE k \in T
  <2>1. k \in 0..N
    BY <1>1
  <2>2. QED
    BY <1>2, <1>3, <1>5, <2>1
<1>6. N \in T
  <2>1. \A k \in 1..N : k - 1 \in T => k \in T
    BY <1>5
  <2> HIDE DEF T
  <2>2. QED
    BY <1>1, <1>4, <2>1, UpTo
<1>7. QED
  BY <1>2, <1>6 DEF N

LEMMA GroupedEitherWay ==
  \A S : \A x, y, z \in Seq(S) : (x \o y) \o z = x \o (y \o z)
BY ConcatAssociative, SMTT(60)

\* Two sequences of sequences can be joined before or after.
LEMMA FlattenConcat ==
  ASSUME NEW S, NEW s \in Seq(Seq(S)), NEW t \in Seq(Seq(S))
  PROVE  FlattenSeq(s \o t) = FlattenSeq(s) \o FlattenSeq(t)
<1> DEFINE M == Len(s)
           N == Len(t)
<1>assoc. \A x, y, z \in Seq(S) : (x \o y) \o z = x \o (y \o z)
  BY GroupedEitherWay, SMTT(60)
<1>1. M \in Nat /\ N \in Nat
  BY LenProperties
<1>2. PICK a \in [0..M -> Seq(S)] :
        /\ a[0] = <<>> /\ FlattenSeq(s) = a[M]
        /\ \A k \in 1..M : a[k] = a[k - 1] \o s[k]
  BY FlattenRuns
<1>3. PICK b \in [0..N -> Seq(S)] :
        /\ b[0] = <<>> /\ FlattenSeq(t) = b[N]
        /\ \A k \in 1..N : b[k] = b[k - 1] \o t[k]
  BY FlattenRuns
<1>4. /\ s \o t \in Seq(Seq(S)) /\ Len(s \o t) = M + N
      /\ \A k \in 1..(M + N) : (s \o t)[k] = IF k <= M THEN s[k] ELSE t[k - M]
  BY ConcatProperties
<1>5. \A k \in 1..N : t[k] \in Seq(S)
  BY ElementOfSeq
<1> DEFINE c == [k \in 0..(M + N) |-> IF k <= M THEN a[k] ELSE a[M] \o b[k - M]]
<1> HIDE DEF M, N
<1>6. a[M] \in Seq(S)
  BY <1>1, <1>2
<1>7. \A k \in 0..N : k + M \in 0..(M + N) /\ c[k + M] = a[M] \o b[k]
  <2>1. ASSUME NEW k \in 0..N PROVE k + M \in 0..(M + N) /\ c[k + M] = a[M] \o b[k]
    <3>1. k + M \in 0..(M + N) /\ (k + M) - M = k /\ (k + M <= M => k = 0 /\ k + M = M)
      BY <1>1
    <3>2. a[M] \o <<>> = a[M]
      BY <1>6, ConcatEmptySeq
    <3>3. QED
      BY <1>3, <3>1, <3>2
  <2>2. QED
    BY <2>1
<1>8. \A k \in 0..M : k \in 0..(M + N) /\ c[k] = a[k]
  BY <1>1
<1> HIDE DEF c
<1>9. c[0] = <<>>
  BY <1>1, <1>2, <1>8
<1>10. ASSUME NEW k \in 1..(M + N) PROVE c[k] = c[k - 1] \o (s \o t)[k]
  <2>1. CASE k <= M
    <3>1. k \in 1..M /\ k \in 0..M /\ k - 1 \in 0..M
      BY <1>1, <2>1
    <3>2. QED
      BY <1>2, <1>4, <1>8, <2>1, <3>1
  <2>2. CASE ~(k <= M)
    <3>1. k - M \in 1..N /\ k - M \in 0..N /\ (k - M) - 1 \in 0..N
          /\ (k - M) + M = k /\ ((k - M) - 1) + M = k - 1
      BY <1>1, <2>2
    <3>2. c[k] = a[M] \o b[k - M] /\ c[k - 1] = a[M] \o b[(k - M) - 1]
      BY <1>7, <3>1
    <3>3. b[k - M] = b[(k - M) - 1] \o t[k - M] /\ (s \o t)[k] = t[k - M]
      BY <1>3, <1>4, <2>2, <3>1
    <3>4. b[(k - M) - 1] \in Seq(S) /\ t[k - M] \in Seq(S)
      BY <1>3, <1>5, <3>1
    <3>5. (a[M] \o b[(k - M) - 1]) \o t[k - M] = a[M] \o (b[(k - M) - 1] \o t[k - M])
      BY <1>assoc, <1>6, <3>4, Zenon
    <3>6. QED
      BY <3>2, <3>3, <3>5
  <2>3. QED
    BY <2>1, <2>2
<1>11. IsFlatRun(c, s \o t, Len(s \o t))
  BY <1>4, <1>9, <1>10 DEF IsFlatRun, M, N
<1>12. FlattenSeq(s \o t) = c[M + N]
  BY <1>4, <1>11, FlattenIs DEF M, N
<1>13. N \in 0..N /\ N + M = M + N
  BY <1>1
<1>14. QED
  BY <1>2, <1>3, <1>7, <1>12, <1>13

LEMMA FlattenSmall ==
  ASSUME NEW S, NEW x \in Seq(S)
  PROVE  FlattenSeq(<<>>) = <<>> /\ FlattenSeq(<<x>>) = x
<1>1. <<>> \in Seq(Seq(S)) /\ Len(<<>>) = 0 /\ <<x>> \in Seq(Seq(S)) /\ Len(<<x>>) = 1
  OBVIOUS
<1> DEFINE b == [k \in 0..1 |-> IF k = 0 THEN <<>> ELSE x]
<1>2. b[0] = <<>> /\ b[1] = x /\ <<x>>[1] = x
  OBVIOUS
<1> HIDE DEF b
<1>3. <<>> \o x = x
  BY ConcatEmptySeq
<1>4. IsFlatRun(b, <<>>, 0) /\ IsFlatRun(b, <<x>>, 1)
  BY <1>2, <1>3 DEF IsFlatRun
<1>5. QED
  BY <1>1, <1>2, <1>4, FlattenIs

LEMMA BoundedSeqIs ==
  ASSUME NEW S, NEW n \in Nat, NEW s
  PROVE  s \in BoundedSeq(S, n) <=> s \in Seq(S) /\ Len(s) <= n
<1>1. ASSUME s \in BoundedSeq(S, n) PROVE s \in Seq(S) /\ Len(s) <= n
  BY <1>1 DEF BoundedSeq, SeqOf
<1>2. ASSUME s \in Seq(S), Len(s) <= n PROVE s \in BoundedSeq(S, n)
  <2>1. Len(s) \in 0..n /\ s \in [1..Len(s) -> S]
    BY <1>2
  <2>2. QED
    BY <2>1 DEF BoundedSeq, SeqOf
<1>3. QED
  BY <1>1, <1>2

-----------------------------------------------------------------------------

\* The remainder of an index that wrapped at most once.
LEMMA WrapsOnce ==
  ASSUME NEW N \in Nat, N > 1, NEW a \in 0..(2 * N - 1)
  PROVE  a % N = IF a < N THEN a ELSE a - N
<1>1. N \in Nat /\ N > 1 /\ a \in Nat
  OBVIOUS
<1>2. CASE a < N
  BY <1>1, <1>2, SMT
<1>3. CASE a >= N
  <2>1. a % N = (a - N) % N
    BY <1>1, <1>3, SMT
  <2>2. (a - N) % N = a - N
    BY <1>1, <1>3, SMT
  <2>3. QED
    BY <1>1, <1>3, <2>1, <2>2
<1>4. QED
  BY <1>1, <1>2, <1>3

LEMMA AdvanceIs ==
  ASSUME NEW N \in Nat, N > 1, NEW i \in 0..(N - 1)
  PROVE  /\ Advance(i, N) \in 0..(N - 1)
         /\ Advance(i, N) = IF i = N - 1 THEN 0 ELSE i + 1
<1>1. i + 1 \in 0..(2 * N - 1)
  BY SMT
<1>2. (i + 1) % N = IF i + 1 < N THEN i + 1 ELSE i + 1 - N
  <2> DEFINE a == i + 1
  <2>1. a \in 0..(2 * N - 1)
    BY <1>1
  <2> HIDE DEF a
  <2>2. a % N = IF a < N THEN a ELSE a - N
    BY <2>1, WrapsOnce
  <2>3. QED
    BY <2>2 DEF a
<1>3. QED
  BY <1>2, SMT DEF Advance

\* Where the k-th element lies.
SlotOf(q, k, N) == IF q.r + k - 1 < N THEN q.r + k - 1 ELSE q.r + k - 1 - N

LEMMA RingTyped ==
  ASSUME NEW N \in Nat, N > 1, NEW S, NEW q \in Rings(N, S)
  PROVE  /\ q.w \in 0..(N - 1) /\ q.r \in 0..(N - 1) /\ q.slot \in [0..(N - 1) -> S]
         /\ Count(q, N) \in 0..(N - 1)
         /\ IsEmpty(q) <=> Count(q, N) = 0
         /\ IsFull(q, N) <=> Count(q, N) = N - 1
<1>1. q.w \in 0..(N - 1) /\ q.r \in 0..(N - 1) /\ q.slot \in [0..(N - 1) -> S]
  BY DEF Rings
<1>2. Advance(q.w, N) = IF q.w = N - 1 THEN 0 ELSE q.w + 1
  BY <1>1, AdvanceIs
<1>3. QED
  BY <1>1, <1>2, SMT DEF Count, IsEmpty, IsFull

LEMMA ContentsAre ==
  ASSUME NEW N \in Nat, N > 1, NEW S, NEW q \in Rings(N, S)
  PROVE  /\ Contents(q, N) = [k \in 1..Count(q, N) |-> q.slot[SlotOf(q, k, N)]]
         /\ Contents(q, N) \in Seq(S) /\ Len(Contents(q, N)) = Count(q, N)
         /\ \A k \in 1..Count(q, N) : SlotOf(q, k, N) \in 0..(N - 1)
<1>1. q.r \in 0..(N - 1) /\ Count(q, N) \in 0..(N - 1) /\ q.slot \in [0..(N - 1) -> S]
  BY RingTyped
<1>2. ASSUME NEW k \in 1..Count(q, N)
      PROVE  (q.r + k - 1) % N = SlotOf(q, k, N) /\ SlotOf(q, k, N) \in 0..(N - 1)
  <2>1. q.r + k - 1 \in 0..(2 * N - 1)
    BY <1>1, SMT
  <2>2. (q.r + k - 1) % N = SlotOf(q, k, N)
    <3> DEFINE a == q.r + k - 1
    <3>1. a % N = IF a < N THEN a ELSE a - N
      <4>1. a \in 0..(2 * N - 1)
        BY <2>1
      <4> HIDE DEF a
      <4>2. QED
        BY <4>1, WrapsOnce
    <3>2. a < N <=> q.r + k - 1 < N
      OBVIOUS
    <3>3. CASE a < N
      BY <3>1, <3>3 DEF SlotOf
    <3>4. CASE ~(a < N)
      <4>1. SlotOf(q, k, N) = a - N
        BY <1>1, <3>4 DEF SlotOf
      <4>2. a % N = a - N
        BY <3>1, <3>4
      <4>3. QED
        BY <4>1, <4>2
    <3>5. QED
      BY <3>3, <3>4
  <2>3. SlotOf(q, k, N) \in 0..(N - 1)
    BY <1>1, SMT DEF SlotOf
  <2>4. QED
    BY <2>2, <2>3
<1>3. Contents(q, N) = [k \in 1..Count(q, N) |-> q.slot[SlotOf(q, k, N)]]
  BY <1>2 DEF Contents
<1>4. Contents(q, N) \in Seq(S) /\ Len(Contents(q, N)) = Count(q, N)
  <2>1. Contents(q, N) \in [1..Count(q, N) -> S]
    BY <1>1, <1>2, <1>3
  <2>2. Count(q, N) \in Nat
    BY <1>1
  <2>3. QED
    BY <2>1, <2>2
<1>5. QED
  BY <1>2, <1>3, <1>4

\* The next slot to fill is the one after the newest element, and no element's.
LEMMA FreeSlot ==
  ASSUME NEW N \in Nat, N > 1, NEW S, NEW q \in Rings(N, S)
  PROVE  /\ SlotOf(q, Count(q, N) + 1, N) = q.w
         /\ \A k \in 1..Count(q, N) : SlotOf(q, k, N) # q.w
<1> DEFINE w == q.w
           r == q.r
           n == Count(q, N)
<1>1. /\ w \in Int /\ 0 <= w /\ w < N
      /\ r \in Int /\ 0 <= r /\ r < N
  BY RingTyped, SMT
<1>2. n = IF w >= r THEN w - r ELSE N - (r - w)
  BY DEF Count
<1>3. ASSUME NEW k \in Int
      PROVE  SlotOf(q, k, N) = IF r + k - 1 < N THEN r + k - 1 ELSE r + k - 1 - N
  BY DEF SlotOf
<1> HIDE DEF w, r, n
<1>4. n \in Int
  BY <1>1, <1>2, SMT
<1>5. SlotOf(q, n + 1, N) = w
  <2>1. SlotOf(q, n + 1, N) = IF r + (n + 1) - 1 < N THEN r + (n + 1) - 1
                                                     ELSE r + (n + 1) - 1 - N
    BY <1>3, <1>4
  <2>2. QED
    BY <1>1, <1>2, <2>1, SMT
<1>6. ASSUME NEW k \in 1..n
      PROVE  SlotOf(q, k, N) # w
  <2>1. k \in Int /\ 1 <= k /\ k <= n
    BY <1>4, SMT
  <2>2. SlotOf(q, k, N) = IF r + k - 1 < N THEN r + k - 1 ELSE r + k - 1 - N
    BY <1>3, <2>1
  <2>3. QED
    BY <1>1, <1>2, <2>1, <2>2, SMT
<1>7. QED
  BY <1>5, <1>6 DEF w, n

-----------------------------------------------------------------------------
\* WRITE_BUFFER and ADVANCE index on a buffer that is not full append a character.
THEOREM PutAppends ==
  ASSUME NEW N \in Nat, N > 1, NEW S, NEW q \in Rings(N, S), NEW c \in S, ~IsFull(q, N)
  PROVE  /\ Put(q, c, N) \in Rings(N, S)
         /\ Contents(Put(q, c, N), N) = Append(Contents(q, N), c)
<1> DEFINE p == Put(q, c, N)
<1>1. /\ q.w \in 0..(N - 1) /\ q.r \in 0..(N - 1) /\ q.slot \in [0..(N - 1) -> S]
      /\ Count(q, N) \in 0..(N - 1) /\ Count(q, N) # N - 1
  BY RingTyped
<1>2. /\ p.slot = [q.slot EXCEPT ![q.w] = c] /\ p.r = q.r
      /\ p.w = IF q.w = N - 1 THEN 0 ELSE q.w + 1
  BY <1>1, AdvanceIs DEF Put, Rings
<1>3. p \in Rings(N, S)
  BY <1>1, AdvanceIs DEF Put, Rings
<1> HIDE DEF p
<1>4. Count(p, N) = Count(q, N) + 1
  BY <1>1, <1>2, SMT DEF Count
<1>5. ASSUME NEW k \in 1..Count(p, N)
      PROVE  Contents(p, N)[k] = Append(Contents(q, N), c)[k]
  <2>1. Contents(p, N)[k] = p.slot[SlotOf(p, k, N)]
    BY <1>3, ContentsAre
  <2>2. SlotOf(p, k, N) = SlotOf(q, k, N)
    BY <1>2 DEF SlotOf
  <2>3. k \in Int
    BY <1>1, <1>4
  <2>4. CASE k <= Count(q, N)
    <3>1. k \in 1..Count(q, N)
      BY <1>1, <2>4, SMT
    <3>2. SlotOf(q, k, N) # q.w /\ SlotOf(q, k, N) \in 0..(N - 1)
      BY <3>1, FreeSlot, ContentsAre
    <3>3. p.slot[SlotOf(q, k, N)] = q.slot[SlotOf(q, k, N)]
      BY <1>1, <1>2, <3>2
    <3>4. Append(Contents(q, N), c)[k] = Contents(q, N)[k]
      BY <3>1, ContentsAre
    <3>5. QED
      BY <2>1, <2>2, <3>1, <3>3, <3>4, ContentsAre
  <2>5. CASE k = Count(q, N) + 1
    <3>1. SlotOf(q, Count(q, N) + 1, N) = q.w
      BY FreeSlot
    <3>2. p.slot[q.w] = c
      BY <1>1, <1>2
    <3>3. Append(Contents(q, N), c)[k] = c
      BY <2>5, ContentsAre
    <3>4. QED
      BY <2>1, <2>2, <2>5, <3>1, <3>2, <3>3
  <2>6. k <= Count(q, N) \/ k = Count(q, N) + 1
    <3>1. k \in 1..(Count(q, N) + 1)
      BY <1>4
    <3>2. QED
      BY <1>1, <3>1, SMT
  <2>7. QED
    BY <2>4, <2>5, <2>6
<1>6. /\ Contents(p, N) \in Seq(S) /\ Len(Contents(p, N)) = Count(p, N)
      /\ Append(Contents(q, N), c) \in Seq(S)
      /\ Len(Append(Contents(q, N), c)) = Count(p, N)
  BY <1>3, <1>4, ContentsAre
<1>7. Contents(p, N) = Append(Contents(q, N), c)
  BY <1>5, <1>6
<1>8. QED
  BY <1>3, <1>7 DEF p

\* Reading at the read index and advancing it takes the oldest character.
THEOREM DropOldestTakesHead ==
  ASSUME NEW N \in Nat, N > 1, NEW S, NEW q \in Rings(N, S), ~IsEmpty(q)
  PROVE  /\ DropOldest(q, N) \in Rings(N, S)
         /\ Oldest(q) = Head(Contents(q, N))
         /\ Contents(DropOldest(q, N), N) = Tail(Contents(q, N))
<1> DEFINE p == DropOldest(q, N)
<1>1. /\ q.w \in 0..(N - 1) /\ q.r \in 0..(N - 1) /\ q.slot \in [0..(N - 1) -> S]
      /\ Count(q, N) \in 0..(N - 1) /\ Count(q, N) # 0
  BY RingTyped
<1>2. /\ p.slot = q.slot /\ p.w = q.w
      /\ p.r = IF q.r = N - 1 THEN 0 ELSE q.r + 1
  BY <1>1, AdvanceIs DEF DropOldest, Rings
<1>3. p \in Rings(N, S)
  BY <1>1, AdvanceIs DEF DropOldest, Rings
<1> HIDE DEF p
<1>4. Count(p, N) = Count(q, N) - 1
  BY <1>1, <1>2, SMT DEF Count
<1>5. Oldest(q) = Head(Contents(q, N))
  <2>1. 1 \in 1..Count(q, N) /\ SlotOf(q, 1, N) = q.r
    BY <1>1, SMT DEF SlotOf
  <2>2. Contents(q, N)[1] = q.slot[q.r]
    BY <2>1, ContentsAre
  <2>3. QED
    BY <1>1, <2>2, ContentsAre DEF Oldest
<1>6. ASSUME NEW k \in 1..Count(p, N)
      PROVE  Contents(p, N)[k] = Tail(Contents(q, N))[k]
  <2>1. k + 1 \in 1..Count(q, N) /\ SlotOf(p, k, N) = SlotOf(q, k + 1, N)
    BY <1>1, <1>2, <1>4, SMT DEF SlotOf
  <2>2. Contents(p, N)[k] = q.slot[SlotOf(q, k + 1, N)]
    BY <1>2, <1>3, <2>1, ContentsAre
  <2>3. Tail(Contents(q, N))[k] = Contents(q, N)[k + 1]
    BY <1>1, <1>4, ContentsAre
  <2>4. QED
    BY <2>1, <2>2, <2>3, ContentsAre
<1>7. /\ Contents(p, N) \in Seq(S) /\ Len(Contents(p, N)) = Count(p, N)
      /\ Tail(Contents(q, N)) \in Seq(S)
      /\ Len(Tail(Contents(q, N))) = Count(p, N)
  BY <1>1, <1>3, <1>4, ContentsAre
<1>8. Contents(p, N) = Tail(Contents(q, N))
  BY <1>6, <1>7
<1>9. QED
  BY <1>3, <1>5, <1>8 DEF p

\* A backspace steps the write index back, over the end of the buffer if need be,
\* and takes the newest character away, and that only.
THEOREM DropNewestLeavesFront ==
  ASSUME NEW N \in Nat, N > 1, NEW S, NEW q \in Rings(N, S), ~IsEmpty(q)
  PROVE  /\ DropNewest(q, N) \in Rings(N, S)
         /\ Contents(DropNewest(q, N), N)
              = SubSeq(Contents(q, N), 1, Len(Contents(q, N)) - 1)
<1> DEFINE p == DropNewest(q, N)
<1>1. /\ q.w \in 0..(N - 1) /\ q.r \in 0..(N - 1) /\ q.slot \in [0..(N - 1) -> S]
      /\ Count(q, N) \in 0..(N - 1) /\ Count(q, N) # 0
  BY RingTyped
<1>2. /\ p.slot = q.slot /\ p.r = q.r
      /\ p.w = IF q.w = 0 THEN N - 1 ELSE q.w - 1
  BY <1>1 DEF DropNewest, Rings
<1>3. p \in Rings(N, S)
  <2>1. (IF q.w = 0 THEN N - 1 ELSE q.w - 1) \in 0..(N - 1)
    BY <1>1, SMT
  <2>2. QED
    BY <2>1 DEF DropNewest, Rings
<1> HIDE DEF p
<1>4. Count(p, N) = Count(q, N) - 1
  <2>1. CASE q.w = 0
    BY <1>1, <1>2, <2>1, SMT DEF Count
  <2>2. CASE q.w # 0
    BY <1>1, <1>2, <2>2, SMT DEF Count
  <2>3. QED
    BY <2>1, <2>2
<1> DEFINE front == SubSeq(Contents(q, N), 1, Len(Contents(q, N)) - 1)
<1>5. /\ front \in Seq(S) /\ Len(front) = Count(p, N)
      /\ \A k \in 1..Count(p, N) : front[k] = Contents(q, N)[k]
  BY <1>1, <1>4, ContentsAre
<1>6. ASSUME NEW k \in 1..Count(p, N)
      PROVE  Contents(p, N)[k] = front[k]
  <2>1. k \in 1..Count(q, N) /\ SlotOf(p, k, N) = SlotOf(q, k, N)
    BY <1>1, <1>2, <1>4, SMT DEF SlotOf
  <2>2. Contents(p, N)[k] = p.slot[SlotOf(p, k, N)]
    BY <1>3, ContentsAre
  <2>3. Contents(q, N)[k] = q.slot[SlotOf(q, k, N)]
    BY <2>1, ContentsAre
  <2>4. front[k] = Contents(q, N)[k]
    BY <1>5
  <2>5. QED
    BY <1>2, <2>1, <2>2, <2>3, <2>4, Zenon
<1>7. Contents(p, N) \in Seq(S) /\ Len(Contents(p, N)) = Count(p, N)
  BY <1>3, ContentsAre
<1>8. Contents(p, N) = front
  BY <1>5, <1>6, <1>7
<1>9. QED
  BY <1>3, <1>8 DEF p
=============================================================================
