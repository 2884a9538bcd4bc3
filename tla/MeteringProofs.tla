--------------------------- MODULE MeteringProofs ---------------------------
(***************************************************************************)
(* Facts about the metering arithmetic, for every input.                   *)
(***************************************************************************)
EXTENDS Metering, WellFoundedInduction, TLAPS

\* The order of the natural numbers as a set of pairs, which the theorems on
\* well-founded relations speak of.
Less == OpToRel(<, Nat)

\* Two numbers in order are a pair of that relation.
LEMMA LessPair == ASSUME NEW x \in Nat, NEW y \in Nat, y < x
                  PROVE  <<y, x>> \in Less
<1> DEFINE p == <<y, x>>
<1>1. p \in Nat \X Nat /\ p[1] < p[2]
  OBVIOUS
<1>2. Less = {ss \in Nat \X Nat : ss[1] < ss[2]}
  BY DEF Less, OpToRel
<1> HIDE DEF p
<1>3. p \in Less
  BY <1>1, <1>2
<1>4. QED
  BY <1>3 DEF p

\* A set of natural numbers that is not empty has a least element.
LEMMA LeastNat == ASSUME NEW T \in SUBSET Nat, T # {}
                  PROVE  \E x \in T : \A y \in T : x <= y
<1>1. IsWellFoundedOn(Less, Nat)
  BY NatLessThanWellFounded DEF Less
<1>2. PICK x \in T : \A y \in T : ~ (<<y, x>> \in Less)
  BY <1>1, WFMin
<1>3. \A y \in T : ~ (y < x)
  BY <1>2, LessPair
<1>4. QED
  BY <1>3

\* Squares keep the order of the numbers.
LEMMA SquareOrder == ASSUME NEW a \in Nat, NEW b \in Nat, a * a < b * b
                     PROVE  a < b
OBVIOUS

\* Every natural number has an integer square root.
LEMMA SquareRootExists ==
  ASSUME NEW n \in Nat
  PROVE  \E r \in Nat : r * r <= n /\ n < (r + 1) * (r + 1)
<1> DEFINE T == {r \in Nat : n < (r + 1) * (r + 1)}
<1>1. n \in T
  <2>1. (n + 1) * (n + 1) = n * n + 2 * n + 1
    OBVIOUS
  <2>2. n * n >= 0
    OBVIOUS
  <2>3. QED
    BY <2>1, <2>2
<1>2. PICK r \in T : \A y \in T : r <= y
  BY <1>1, LeastNat
<1>3. CASE r = 0
  BY <1>2, <1>3
<1>4. CASE r # 0
  <2>1. r - 1 \in Nat /\ r - 1 \notin T
    BY <1>2, <1>4
  <2>2. (r - 1) + 1 = r
    BY <1>2
  <2>3. r * r <= n
    BY <2>1, <2>2, <1>2
  <2>4. QED
    BY <2>3, <1>2
<1>5. QED
  BY <1>3, <1>4

\* What two bytes hold, without the interval.
LEMMA Word16 == /\ MaxUInt16 \in Nat
                /\ \A n : n \in 0..MaxUInt16 <=> n \in Nat /\ n < 65536
<1>1. MaxUInt16 \in Nat /\ \A n \in Nat : n <= MaxUInt16 <=> n < 65536
  BY SMT DEF MaxUInt16
<1>2. QED
  BY <1>1

\* A uint32_t is less than the square of 65536.
LEMMA WordBound == ASSUME NEW n \in 0..MaxUInt32
                   PROVE  n < 65536 * 65536
BY WordAssumption, SMT

\* ISqrt looks far enough: a number is at most the hundredth of its square and 100.
LEMMA SearchBound == ASSUME NEW n \in Nat, NEW r \in Nat, r * r <= n
                     PROVE  r \in 0..(n \div 100 + 100)
<1>1. PICK q \in Nat : q = n \div 100 /\ n < 100 * q + 100
  BY SMT
<1>2. SUFFICES ASSUME r >= q + 101 PROVE FALSE
  BY <1>1, SMT
<1>3. r * r >= (q + 101) * r
  BY <1>1, <1>2, SMT
<1>4. (q + 101) * r >= (q + 101) * 101
  BY <1>1, <1>2, SMT
<1>5. QED
  BY <1>1, <1>3, <1>4, SMT

\* The square root of DAQ_20msTask (DAQ.c:105-107) is the integer square root,
\* and two bytes hold it.
THEOREM ISqrtCorrect ==
  ASSUME NEW n \in 0..MaxUInt32
  PROVE  /\ ISqrt(n) \in 0..MaxUInt16
         /\ ISqrt(n) * ISqrt(n) <= n
         /\ n < (ISqrt(n) + 1) * (ISqrt(n) + 1)
<1>1. n \in Nat
  BY WordAssumption
<1>2. PICK r \in Nat : r * r <= n /\ n < (r + 1) * (r + 1)
  BY <1>1, SquareRootExists
<1>3. r * r < 65536 * 65536
  BY <1>1, <1>2, WordBound, SMT
<1>4. r \in 0..MaxUInt16
  BY <1>3, SquareOrder, Word16, SMT
<1>5. \E s \in 0..(n \div 100 + 100) : s * s <= n /\ n < (s + 1) * (s + 1)
  BY <1>1, <1>2, SearchBound
<1>6. ISqrt(n) \in Nat /\ ISqrt(n) * ISqrt(n) <= n
      /\ n < (ISqrt(n) + 1) * (ISqrt(n) + 1)
  <2>1. ISqrt(n) \in 0..(n \div 100 + 100) /\ ISqrt(n) * ISqrt(n) <= n
        /\ n < (ISqrt(n) + 1) * (ISqrt(n) + 1)
    BY <1>5 DEF ISqrt
  <2>2. QED
    BY <1>1, <2>1, SMT
<1>7. QED
  BY <1>1, <1>6, WordBound, SquareOrder, Word16, SMT

\* A mean square is a uint32_t whatever the sum of squares (DAQ.c:101-103).
LEMMA MeanSqrType == ASSUME NEW c \in Channel, NEW s \in Nat
                     PROVE  MeanSqr(c, s) \in 0..MaxUInt32
<1>1. Scaled(c, s) \in Nat
  BY SMT DEF Scaled, Divisor, Gain
<1>2. QED
  BY <1>1, WordAssumption, SMT DEF MeanSqr

\* An RMS value fits two bytes whatever the mean square (DAQ.c:105-120).
LEMMA RMSType == ASSUME NEW c, NEW n \in 0..MaxUInt32
                 PROVE  RMS(c, n) \in 0..MaxUInt16
BY ISqrtCorrect, Word16, SMT DEF RMS

\* The arrangement of the product in Scaled is exact.
THEOREM ScaledIsProduct ==
  ASSUME NEW c \in Channel, NEW s \in Nat
  PROVE  Scaled(c, s) = (s * Gain(c)) \div Divisor(c)
<1>1. CASE c = "crnt"
  <2>1. (s \div 1024) * 29402 + ((s % 1024) * 29402) \div 1024
          = (s * 29402) \div 1024
    BY SMT
  <2>2. QED
    BY <1>1, <2>1 DEF Scaled, Gain, Divisor
<1>2. CASE c # "crnt"
  <2>1. (s \div 32768) * 113 + ((s % 32768) * 113) \div 32768
          = (s * 113) \div 32768
    BY SMT
  <2>2. QED
    BY <1>2, <2>1 DEF Scaled, Gain, Divisor
<1>3. QED
  BY <1>1, <1>2

\* The verdict is one of the three states of readme.md:11-14.
LEMMA VerdictType == ASSUME NEW m
                     PROVE  Verdict(m) \in {PowerOK, Tripped, NoPower}
BY DEF Verdict

\* The bytes of a report are bytes, and the receiver gets the current that was
\* sent: unlike the voltages it always fits (main.c:263-264, init.js:93).
THEOREM CurrentArrives ==
  ASSUME NEW m \in [Channel -> 0..MaxUInt16], NEW trip \in {PowerOK, Tripped, NoPower}
  PROVE  /\ Frame(trip, m) \in [1..6 -> Byte]
         /\ CurrentIn(Frame(trip, m)) = m["crnt"]
<1>1. m["crnt"] \in 0..MaxUInt16 /\ m["volt1"] \in 0..MaxUInt16 /\ m["volt2"] \in 0..MaxUInt16
  BY SMT DEF Channel
<1>2. /\ trip \in Byte /\ CurrentHigh(m) \in Byte /\ CurrentLow(m) \in Byte
      /\ m["volt1"] % 256 \in Byte /\ m["volt2"] % 256 \in Byte /\ Newline \in Byte
  <2>1. \A n \in 0..MaxUInt16 : n % 256 \in 0..255 /\ n \div 256 % 256 \in 0..255
    BY Word16, SMT
  <2>2. trip \in 0..255 /\ Newline \in 0..255
    BY SMT DEF Newline, PowerOK, Tripped, NoPower
  <2>3. QED
    BY <1>1, <2>1, <2>2 DEF Byte, CurrentHigh, CurrentLow
<1>3. 256 * CurrentHigh(m) + CurrentLow(m) = m["crnt"]
  BY <1>1, Word16, SMT DEF CurrentHigh, CurrentLow
<1>4. CurrentIn(Frame(trip, m)) = 256 * CurrentHigh(m) + CurrentLow(m)
  BY SMT DEF CurrentIn, Frame
<1>5. Frame(trip, m) \in [1..6 -> Byte]
  BY <1>2, SMT DEF Frame
<1>6. QED
  BY <1>3, <1>4, <1>5
=============================================================================
