-------------------------- MODULE AcquisitionProofs --------------------------
(***************************************************************************)
(* Proofs about sample acquisition, for every range of the converter and   *)
(* every number of samples in a cycle: no sum overflows, and what is       *)
(* published is the energy of its cycle about the average of the cycle     *)
(* before, never less than the energy about its own.                       *)
(***************************************************************************)
EXTENDS Acquisition, TLAPS

\* Adding channel by channel, squaring channel by channel.
LEMMA PlusAt == \A f, g : \A c \in Channel : Plus(f, g)[c] = f[c] + g[c]
BY DEF Plus

LEMMA SquareAt == \A f : \A c \in Channel : Square(f)[c] = f[c] * f[c]
BY DEF Square

\* Two numbers of at most m are no further apart than m.
LEMMA DeviationBound ==
  ASSUME NEW m \in Nat, NEW x \in 0..m, NEW a \in 0..m
  PROVE  (x - a) * (x - a) \in 0..(m * m)
BY SMT

LEMMA SquareBound == ASSUME NEW m \in Nat, NEW x \in 0..m
                     PROVE  x * x \in 0..(m * m)
BY SMT

\* A sum of n terms with another term has n + 1.
LEMMA OneMore ==
  ASSUME NEW n \in Nat, NEW m \in Nat, NEW s \in 0..(n * m), NEW x \in 0..m
  PROVE  s + x \in 0..((n + 1) * m)
BY SMT

\* The average of a full cycle is a count.
LEMMA AverageRange ==
  ASSUME NEW s \in 0..(SamplesPerCycle * MaxCount)
  PROVE  Average(s) \in 0..MaxCount
<1>1. /\ SamplesPerCycle \in Nat /\ SamplesPerCycle > 0 /\ AverageDivisor = SamplesPerCycle
      /\ MaxCount \in Nat
  BY CycleAssumption, ConverterAssumption
<1>2. s \in Nat /\ s <= SamplesPerCycle * MaxCount
  BY <1>1
<1>3. s \div SamplesPerCycle \in Nat /\ (s \div SamplesPerCycle) <= MaxCount
  BY <1>1, <1>2, SMT
<1>4. QED
  BY <1>1, <1>3 DEF Average

\* No average makes the energy of a cycle smaller than its own, but for what the
\* truncation takes: E(a) - E(m) = n (a - m)^2 - 2 (a - m) r with r < n.
LEMMA LeastEnergy ==
  ASSUME NEW n \in Nat, n > 0, NEW s \in Nat, NEW q \in Int, NEW a \in Int
  PROVE  (q - 2 * a * s + n * a * a) + n
           > q - 2 * (s \div n) * s + n * (s \div n) * (s \div n)
<1> DEFINE m == s \div n
           r == s % n
           d == a - m
<1>1. m \in Nat /\ r \in Nat /\ r < n /\ s = n * m + r
  BY SMT
<1>2. d \in Int
  BY <1>1
<1> HIDE DEF m, r
<1>3. (q - 2 * a * s + n * a * a) - (q - 2 * m * s + n * m * m) = n * d * d - 2 * d * r
  BY <1>1, SMT
<1> HIDE DEF d
<1>4. n * d * d - 2 * d * r > 0 - n
  <2>1. CASE d <= 0
    <3>1. d * r <= 0 /\ d * d >= 0
      BY <1>1, <1>2, <2>1, SMT
    <3>2. n * (d * d) >= 0
      BY <1>2, <3>1, SMT
    <3>3. n * (d * d) - 2 * (d * r) > 0 - n
      BY <1>1, <1>2, <3>1, <3>2, SMT
    <3>4. QED
      BY <1>1, <1>2, <3>3, SMT
  <2>2. CASE d > 0
    <3>1. d * r <= d * (n - 1) /\ (d - 1) * (d - 1) >= 0
      BY <1>1, <1>2, <2>2, SMT
    <3>2. n * ((d - 1) * (d - 1)) >= 0
      BY <1>2, <3>1, SMT
    <3>3. n * (d * d) - 2 * (d * (n - 1)) >= 2 * d - n
      BY <1>2, <3>2, SMT
    <3>4. n * (d * d) - 2 * (d * r) > 0 - n
      BY <1>1, <1>2, <2>2, <3>1, <3>3, SMT
    <3>5. QED
      BY <1>1, <1>2, <3>4, SMT
  <2>3. QED
    BY <1>2, <2>1, <2>2
<1>5. QED
  BY <1>1, <1>3, <1>4 DEF m, d

-----------------------------------------------------------------------------
LEMMA Constants ==
  /\ MaxCount \in Nat /\ FirstAverage \in 0..MaxCount
  /\ SamplesPerCycle \in Nat /\ SamplesPerCycle > 0 /\ AverageDivisor = SamplesPerCycle
  /\ \A x \in Inputs : \A c \in Channel : x[c] \in 0..MaxCount
<1>1. MaxCount \in Nat /\ SamplesPerCycle \in Nat /\ SamplesPerCycle > 0
      /\ AverageDivisor = SamplesPerCycle
  BY ConverterAssumption, CycleAssumption
<1>2. FirstAverage \in 0..MaxCount
  BY <1>1, ConverterAssumption, SMT DEF FirstAverage
<1>3. \A x \in Inputs : \A c \in Channel : x[c] \in 0..MaxCount
  BY ConverterAssumption
<1>4. QED
  BY <1>1, <1>2, <1>3

\* Nothing is the sum of any number of samples.
LEMMA ZeroSums == \A n \in Nat : Zero \in SumsOf(n) /\ Zero \in SquaresOf(n)
<1>1. TAKE n \in Nat
<1>2. 0 <= n * MaxCount
  BY Constants, SMT
<1>3. 0 <= n * MaxCount * MaxCount
  BY <1>2, Constants, SMT
<1>4. n * MaxCount \in Nat /\ n * MaxCount * MaxCount \in Nat
  BY <1>2, <1>3, Constants, SMT
<1>5. QED
  BY <1>2, <1>3, <1>4 DEF Zero, SumsOf, SquaresOf

\* One more sample gives the sums of one more sample.
LEMMA OneMoreSample ==
  ASSUME NEW x \in Inputs, NEW n \in Nat,
         NEW s \in SumsOf(n), NEW q \in SquaresOf(n), NEW e \in SquaresOf(n),
         NEW a \in [Channel -> 0..MaxCount]
  PROVE  /\ Plus(s, x) \in SumsOf(n + 1)
         /\ Plus(q, Square(x)) \in SquaresOf(n + 1)
         /\ Plus(e, Square([c \in Channel |-> x[c] - a[c]])) \in SquaresOf(n + 1)
<1>1. n * MaxCount * MaxCount = n * (MaxCount * MaxCount)
      /\ (n + 1) * MaxCount * MaxCount = (n + 1) * (MaxCount * MaxCount)
      /\ MaxCount * MaxCount \in Nat
  BY Constants, SMT
<1>2. ASSUME NEW c \in Channel
      PROVE  /\ s[c] + x[c] \in 0..((n + 1) * MaxCount)
             /\ q[c] + x[c] * x[c] \in 0..((n + 1) * MaxCount * MaxCount)
             /\ e[c] + (x[c] - a[c]) * (x[c] - a[c])
                  \in 0..((n + 1) * MaxCount * MaxCount)
  <2>1. x[c] \in 0..MaxCount /\ a[c] \in 0..MaxCount /\ MaxCount \in Nat
    BY Constants
  <2>2. s[c] \in 0..(n * MaxCount) /\ q[c] \in 0..(n * (MaxCount * MaxCount))
        /\ e[c] \in 0..(n * (MaxCount * MaxCount))
    BY <1>1 DEF SumsOf, SquaresOf
  <2>3. x[c] * x[c] \in 0..(MaxCount * MaxCount)
        /\ (x[c] - a[c]) * (x[c] - a[c]) \in 0..(MaxCount * MaxCount)
    BY <2>1, SquareBound, DeviationBound
  <2>4. s[c] + x[c] \in 0..((n + 1) * MaxCount)
    BY <2>1, <2>2, OneMore
  <2>5. q[c] + x[c] * x[c] \in 0..((n + 1) * (MaxCount * MaxCount))
    BY <1>1, <2>2, <2>3, OneMore
  <2>6. e[c] + (x[c] - a[c]) * (x[c] - a[c]) \in 0..((n + 1) * (MaxCount * MaxCount))
    BY <1>1, <2>2, <2>3, OneMore
  <2>7. QED
    BY <1>1, <2>4, <2>5, <2>6
<1>3. QED
  BY <1>2 DEF Plus, Square, SumsOf, SquaresOf

LEMMA InitIInv == Init => IInv
<1>1. SUFFICES ASSUME Init PROVE IInv
  OBVIOUS
<1>2. TypeOK
  <2>1. 0 \in 0..(SamplesPerCycle - 1) /\ 0 \in Nat
    BY Constants
  <2>2. average \in [Channel -> 0..MaxCount] /\ Zero \in [Channel -> 0..MaxCount]
    BY <1>1, Constants DEF Init, Zero
  <2>3. NoCycle \in [sum : SumsOf(SamplesPerCycle), squares : SquaresOf(SamplesPerCycle),
                     about : [Channel -> 0..MaxCount]]
    BY <2>2, ZeroSums, Constants DEF NoCycle
  <2>4. QED
    BY <1>1, <2>1, <2>2, <2>3, ZeroSums, Constants DEF Init, TypeOK
<1>3. RunningEnergy
  <2>1. SUFFICES ASSUME NEW c \in Channel
                 PROVE  sumSqr[c] = squares[c] - 2 * average[c] * sumSamples[c]
                                      + count * average[c] * average[c]
    BY DEF RunningEnergy
  <2>2. /\ sumSqr[c] = 0 /\ squares[c] = 0 /\ sumSamples[c] = 0 /\ count = 0
        /\ average[c] \in Int
    BY <1>1, Constants DEF Init, Zero
  <2>3. QED
    BY <2>2, SMT
<1>4. PublishedEnergy
  BY <1>1 DEF Init, PublishedEnergy
<1>5. QED
  BY <1>2, <1>3, <1>4 DEF IInv

\* The sums with one more sample x, and how they relate.
LEMMA NextSums ==
  ASSUME IInv, NEW x \in Inputs
  PROVE  /\ Plus(sumSamples, x) \in SumsOf(count + 1)
         /\ Plus(squares, Square(x)) \in SquaresOf(count + 1)
         /\ Plus(sumSqr, Square(Deviation(x))) \in SquaresOf(count + 1)
         /\ \A c \in Channel :
              Plus(sumSqr, Square(Deviation(x)))[c]
                = Plus(squares, Square(x))[c]
                    - 2 * average[c] * Plus(sumSamples, x)[c]
                    + (count + 1) * average[c] * average[c]
<1>1. /\ count \in Nat /\ sumSamples \in SumsOf(count) /\ squares \in SquaresOf(count)
      /\ sumSqr \in SquaresOf(count) /\ average \in [Channel -> 0..MaxCount]
  BY Constants DEF IInv, TypeOK
<1>2. /\ Plus(sumSamples, x) \in SumsOf(count + 1)
      /\ Plus(squares, Square(x)) \in SquaresOf(count + 1)
      /\ Plus(sumSqr, Square(Deviation(x))) \in SquaresOf(count + 1)
  BY <1>1, OneMoreSample DEF Deviation
<1>3. ASSUME NEW c \in Channel
      PROVE  Plus(sumSqr, Square(Deviation(x)))[c]
                = Plus(squares, Square(x))[c]
                    - 2 * average[c] * Plus(sumSamples, x)[c]
                    + (count + 1) * average[c] * average[c]
  <2>1. /\ Plus(sumSqr, Square(Deviation(x)))[c]
             = sumSqr[c] + (x[c] - average[c]) * (x[c] - average[c])
        /\ Plus(squares, Square(x))[c] = squares[c] + x[c] * x[c]
        /\ Plus(sumSamples, x)[c] = sumSamples[c] + x[c]
    BY DEF Plus, Square, Deviation
  <2>2. sumSqr[c] = squares[c] - 2 * average[c] * sumSamples[c]
                      + count * average[c] * average[c]
    BY DEF IInv, RunningEnergy
  <2>3. /\ squares[c] \in Int /\ average[c] \in Int /\ sumSamples[c] \in Int
        /\ count \in Int /\ x[c] \in Int
    BY <1>1, Constants DEF SumsOf, SquaresOf
  <2>4. (squares[c] - 2 * average[c] * sumSamples[c] + count * average[c] * average[c])
           + (x[c] - average[c]) * (x[c] - average[c])
         = (squares[c] + x[c] * x[c]) - 2 * average[c] * (sumSamples[c] + x[c])
             + (count + 1) * average[c] * average[c]
    <3> DEFINE q == squares[c]
               a == average[c]
               s == sumSamples[c]
               y == x[c]
    <3>1. q \in Int /\ a \in Int /\ s \in Int /\ count \in Int /\ y \in Int
      BY <2>3
    <3> HIDE DEF q, a, s, y
    <3>2. (q - 2 * a * s + count * a * a) + (y - a) * (y - a)
            = (q + y * y) - 2 * a * (s + y) + (count + 1) * a * a
      BY <3>1, SMT
    <3>3. QED
      BY <3>2 DEF q, a, s, y
  <2>5. Plus(sumSqr, Square(Deviation(x)))[c]
         = (squares[c] - 2 * average[c] * sumSamples[c] + count * average[c] * average[c])
             + (x[c] - average[c]) * (x[c] - average[c])
    BY <2>1, <2>2, Zenon
  <2>6. QED
    BY <2>1, <2>4, <2>5, Zenon
<1>4. QED
  BY <1>2, <1>3

LEMMA TakeIInv == ASSUME IInv, NEW x \in Inputs, TakeSample(x) PROVE IInv'
<1>1. /\ count' = count + 1 /\ count' \in 0..(SamplesPerCycle - 1)
      /\ sumSamples' = Plus(sumSamples, x)
      /\ sumSqr' = Plus(sumSqr, Square(Deviation(x)))
      /\ squares' = Plus(squares, Square(x))
      /\ UNCHANGED <<average, meas, last>>
  BY Constants DEF TakeSample, IInv, TypeOK
<1>2. TypeOK'
  BY <1>1, NextSums DEF IInv, TypeOK
<1>3. RunningEnergy'
  BY <1>1, NextSums DEF RunningEnergy
<1>4. PublishedEnergy'
  BY <1>1 DEF IInv, PublishedEnergy, Energy
<1>5. QED
  BY <1>2, <1>3, <1>4 DEF IInv

LEMMA EndIInv == ASSUME IInv, NEW x \in Inputs, EndCycle(x) PROVE IInv'
<1>1. /\ count + 1 = SamplesPerCycle /\ count' = 0
      /\ average' = [c \in Channel |-> Average(sumSamples[c] + x[c])]
      /\ meas' = Plus(sumSqr, Square(Deviation(x)))
      /\ sumSamples' = Zero /\ sumSqr' = Zero /\ squares' = Zero
      /\ last' = [sum |-> Plus(sumSamples, x), squares |-> Plus(squares, Square(x)),
                  about |-> average]
  BY DEF EndCycle, Cycle
<1>2. average' \in [Channel -> 0..MaxCount]
  <2>1. ASSUME NEW c \in Channel
        PROVE  Average(sumSamples[c] + x[c]) \in 0..MaxCount
    <3>1. sumSamples[c] + x[c] \in 0..(SamplesPerCycle * MaxCount)
      BY <1>1, NextSums DEF SumsOf, Plus
    <3>2. QED
      BY <3>1, AverageRange
  <2>2. QED
    BY <1>1, <2>1
<1>3. TypeOK'
  <2>1. 0 \in 0..(SamplesPerCycle - 1) /\ 0 \in Nat
    BY Constants
  <2>2. meas' \in SquaresOf(SamplesPerCycle)
    BY <1>1, NextSums
  <2>3. last' \in [sum : SumsOf(SamplesPerCycle), squares : SquaresOf(SamplesPerCycle),
                   about : [Channel -> 0..MaxCount]]
    BY <1>1, NextSums DEF IInv, TypeOK
  <2>4. QED
    BY <1>1, <1>2, <2>1, <2>2, <2>3, ZeroSums DEF TypeOK
<1>4. RunningEnergy'
  <2>1. SUFFICES ASSUME NEW c \in Channel
                 PROVE  sumSqr'[c] = squares'[c] - 2 * average'[c] * sumSamples'[c]
                                      + count' * average'[c] * average'[c]
    BY DEF RunningEnergy
  <2>2. /\ sumSqr'[c] = 0 /\ squares'[c] = 0 /\ sumSamples'[c] = 0 /\ count' = 0
        /\ average'[c] \in Int
    BY <1>1, <1>2, Constants DEF Zero
  <2>3. QED
    BY <2>2, SMT
<1>5. PublishedEnergy'
  <2>1. ASSUME NEW c \in Channel
        PROVE  meas'[c] = last'.squares[c] - 2 * last'.about[c] * last'.sum[c]
                            + SamplesPerCycle * last'.about[c] * last'.about[c]
    BY <1>1, NextSums
  <2>2. QED
    BY <2>1 DEF PublishedEnergy, Energy
<1>6. QED
  BY <1>3, <1>4, <1>5 DEF IInv

\* The inductive invariant holds in every reachable state.
THEOREM Invariance == Spec => []IInv
<1>1. Init => IInv
  BY InitIInv
<1>2. IInv /\ [Next]_vars => IInv'
  <2>1. SUFFICES ASSUME IInv, [Next]_vars PROVE IInv'
    OBVIOUS
  <2>2. CASE Next
    BY <2>1, <2>2, TakeIInv, EndIInv DEF Next, PerSampleActivity
  <2>3. CASE UNCHANGED vars
    BY <2>1, <2>3 DEF vars, IInv, TypeOK, RunningEnergy, PublishedEnergy, Energy
  <2>4. QED
    BY <2>1, <2>2, <2>3
<1>3. QED
  BY <1>1, <1>2, PTL DEF Spec

\* No sum and no average leaves its range.
THEOREM TypeCorrect == Spec => []TypeOK
<1>1. IInv => TypeOK
  BY DEF IInv
<1>2. QED
  BY <1>1, Invariance, PTL

\* What is published is never less than the energy of the cycle about its own mean.
THEOREM NoUnderestimate == Spec => []NeverUnderestimates
<1>1. IInv => NeverUnderestimates
  <2>1. SUFFICES ASSUME IInv, last # NoCycle, NEW c \in Channel
                 PROVE  meas[c] + SamplesPerCycle
                          > Energy(last, c, Average(last.sum[c]))
    BY DEF NeverUnderestimates
  <2>2. meas[c] = Energy(last, c, last.about[c])
    BY <2>1 DEF IInv, PublishedEnergy
  <2>3. /\ last.sum[c] \in Nat /\ last.squares[c] \in Int /\ last.about[c] \in Int
    BY <2>1, Constants DEF IInv, TypeOK, SumsOf, SquaresOf
  <2>4. (last.squares[c] - 2 * last.about[c] * last.sum[c]
          + SamplesPerCycle * last.about[c] * last.about[c]) + SamplesPerCycle
        > last.squares[c]
            - 2 * (last.sum[c] \div SamplesPerCycle) * last.sum[c]
            + SamplesPerCycle * (last.sum[c] \div SamplesPerCycle)
                              * (last.sum[c] \div SamplesPerCycle)
    BY <2>3, Constants, LeastEnergy
  <2>5. Average(last.sum[c]) = last.sum[c] \div SamplesPerCycle
    BY Constants DEF Average
  <2>6. QED
    BY <2>2, <2>4, <2>5 DEF Energy
<1>2. QED
  BY <1>1, Invariance, PTL

-----------------------------------------------------------------------------
\* The energy of n counts of at most M about their truncated mean m is at most that
\* of a swing over the whole range: with d = M - 2 m and r the remainder it is at
\* most a quarter of n (M^2 - d^2) + 4 r d, and n (d - 2)^2 >= 0.
LEMMA GreatestEnergy ==
  ASSUME NEW n \in Nat, n > 0, NEW M \in Nat, NEW s \in Nat,
         NEW q \in Nat, q <= M * s
  PROVE  4 * (q - 2 * (s \div n) * s + n * (s \div n) * (s \div n))
           <= n * (M * M + 4)
<1> DEFINE m == s \div n
           r == s % n
           d == M - 2 * m
<1>1. m \in Nat /\ r \in Nat /\ r < n /\ s = n * m + r
  BY SMT
<1>2. d \in Int /\ M = d + 2 * m
  BY <1>1
<1> HIDE DEF m, r
<1>3. 4 * (M * s - 2 * m * s + n * m * m) = n * (M * M) - n * (d * d) + 4 * (r * d)
  BY <1>1, SMT
<1>4. 4 * (q - 2 * m * s + n * m * m) <= n * (M * M) - n * (d * d) + 4 * (r * d)
  <2>1. M * s \in Int /\ 2 * m * s \in Int /\ n * m * m \in Int
    BY <1>1, SMT
  <2>2. q - 2 * m * s + n * m * m <= M * s - 2 * m * s + n * m * m
    BY <2>1, SMT
  <2>3. QED
    BY <1>3, <2>1, <2>2, SMT
<1> HIDE DEF d
<1>5. 4 * (r * d) - n * (d * d) <= 4 * n
  <2>1. CASE d <= 0
    <3>1. r * d <= 0 /\ d * d >= 0
      BY <1>1, <1>2, <2>1, SMT
    <3>2. n * (d * d) >= 0
      BY <1>2, <3>1, SMT
    <3>3. QED
      BY <1>1, <1>2, <3>1, <3>2, SMT
  <2>2. CASE d > 0
    <3>1. r * d <= n * d /\ (d - 2) * (d - 2) >= 0
      BY <1>1, <1>2, <2>2, SMT
    <3>2. n * ((d - 2) * (d - 2)) >= 0
      BY <1>2, <3>1, SMT
    <3>3. 4 * (n * d) - n * (d * d) <= 4 * n
      BY <1>2, <3>2, SMT
    <3>4. QED
      BY <1>1, <1>2, <3>1, <3>3, SMT
  <2>3. QED
    BY <1>2, <2>1, <2>2
<1>6. n * (M * M + 4) = n * (M * M) + 4 * n
  BY SMT
<1>7. 4 * (q - 2 * m * s + n * m * m) <= n * (M * M + 4)
  <2>1. /\ q - 2 * m * s + n * m * m \in Int /\ n * (M * M) \in Int
        /\ n * (d * d) \in Int /\ r * d \in Int
    BY <1>1, <1>2, SMT
  <2>2. QED
    BY <1>4, <1>5, <1>6, <2>1, SMT
<1>8. QED
  BY <1>7 DEF m

\* One more sample keeps a sum of squares below the largest count times the sum.
LEMMA OneMoreSquare ==
  ASSUME NEW M \in Nat, NEW x \in 0..M, NEW s \in Nat, NEW q \in Nat, q <= M * s
  PROVE  q + x * x <= M * (s + x)
<1>1. x * x <= M * x
  BY SMT
<1>2. QED
  BY <1>1, SMT

LEMMA NextSquares ==
  ASSUME IInv, SquaresInRange, NEW x \in Inputs, NEW c \in Channel
  PROVE  Plus(squares, Square(x))[c] <= MaxCount * Plus(sumSamples, x)[c]
<1>1. /\ squares[c] \in Nat /\ sumSamples[c] \in Nat /\ x[c] \in 0..MaxCount
      /\ MaxCount \in Nat /\ squares[c] <= MaxCount * sumSamples[c]
  BY Constants DEF IInv, TypeOK, SumsOf, SquaresOf, SquaresInRange
<1>2. squares[c] + x[c] * x[c] <= MaxCount * (sumSamples[c] + x[c])
  BY <1>1, OneMoreSquare
<1>3. QED
  BY <1>2 DEF Plus, Square

LEMMA SquaresKept == Spec => []SquaresInRange
<1>1. Init => SquaresInRange
  BY Constants, SMT DEF Init, SquaresInRange, NoCycle, Zero
<1>2. IInv /\ SquaresInRange /\ [Next]_vars => SquaresInRange'
  <2>1. SUFFICES ASSUME IInv, SquaresInRange, [Next]_vars PROVE SquaresInRange'
    OBVIOUS
  <2>2. ASSUME NEW x \in Inputs, TakeSample(x) PROVE SquaresInRange'
    BY <2>1, <2>2, NextSquares DEF TakeSample, SquaresInRange
  <2>3. ASSUME NEW x \in Inputs, EndCycle(x) PROVE SquaresInRange'
    <3>1. \A c \in Channel : squares'[c] <= MaxCount * sumSamples'[c]
      BY <2>3, Constants, SMT DEF EndCycle, Zero
    <3>2. \A c \in Channel : last'.squares[c] <= MaxCount * last'.sum[c]
      BY <2>1, <2>3, NextSquares DEF EndCycle, Cycle
    <3>3. QED
      BY <3>1, <3>2 DEF SquaresInRange
  <2>4. CASE UNCHANGED vars
    BY <2>1, <2>4 DEF vars, SquaresInRange
  <2>5. QED
    BY <2>1, <2>2, <2>3, <2>4 DEF Next, PerSampleActivity
<1>3. QED
  BY <1>1, <1>2, Invariance, PTL DEF Spec

\* Once the offset has settled no samples whatever make the scaled sum of the current
\* wrap, for every converter whose full swing fits (RangeAssumption).
THEOREM SettledCycleFits == Spec => []SettledFits
<1>1. IInv /\ SquaresInRange => SettledFits
  <2> DEFINE limit == (MaxUInt32 \div Gain("crnt")) * Divisor("crnt")
             sum == last.sum["crnt"]
             sqr == last.squares["crnt"]
  <2>1. SUFFICES ASSUME IInv, SquaresInRange, last # NoCycle,
                        last.about["crnt"] = Average(sum)
                 PROVE  meas["crnt"] <= limit
    BY DEF SettledFits
  <2>2. /\ sum \in Nat /\ sqr \in Nat /\ sqr <= MaxCount * sum
    BY <2>1, Constants DEF IInv, TypeOK, SumsOf, SquaresOf, SquaresInRange, Channel
  <2>3. Average(sum) = sum \div SamplesPerCycle
    BY Constants DEF Average
  <2>4. meas["crnt"] = sqr - 2 * (sum \div SamplesPerCycle) * sum
                         + SamplesPerCycle * (sum \div SamplesPerCycle)
                                           * (sum \div SamplesPerCycle)
    BY <2>1, <2>3 DEF IInv, PublishedEnergy, Energy, Channel
  <2> HIDE DEF sum, sqr
  <2>5. 4 * meas["crnt"] <= SamplesPerCycle * (MaxCount * MaxCount + 4)
    BY <2>2, <2>4, Constants, GreatestEnergy
  <2>6. SamplesPerCycle * (MaxCount * MaxCount + 4) <= 4 * limit /\ limit \in Int
    BY RangeAssumption, WordAssumption, SMT DEF Gain, Divisor
  <2>7. meas["crnt"] \in Int
    BY <2>1, Constants DEF IInv, TypeOK, SquaresOf, Channel
  <2> HIDE DEF limit
  <2>8. SamplesPerCycle * (MaxCount * MaxCount + 4) \in Int
    BY Constants, SMT
  <2>9. QED
    BY <2>5, <2>6, <2>7, <2>8, SMT
<1>2. QED
  BY <1>1, Invariance, SquaresKept, PTL
=============================================================================
