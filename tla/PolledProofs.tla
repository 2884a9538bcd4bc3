---------------------------- MODULE PolledProofs ----------------------------
(***************************************************************************)
(* Proofs about the console as the firmware builds it, for every size of   *)
(* word, buffer and line and for every call of UARTprintf: what is read    *)
(* and echoed (RInv), and what is printed (PInv).                          *)
(***************************************************************************)
EXTENDS Polled, RingProofs, SequenceTheorems

-----------------------------------------------------------------------------
(***************************************************************************)
(* Powers and words.                                                       *)
(***************************************************************************)

\* p holds the powers of b up to the n-th.
Powers(p, b, n) == \A i \in 0..n : p[i] = IF i = 0 THEN 1 ELSE b * p[i - 1]

\* There are such functions, and two of them agree.
LEMMA PowersExist ==
  ASSUME NEW b \in Nat, NEW N \in Nat
  PROVE  \E p \in [0..N -> Nat] : Powers(p, b, N)
<1> DEFINE T == {n \in 0..N : \E p \in [0..n -> Nat] : Powers(p, b, n)}
<1>1. 0 \in T
  <2>1. [i \in 0..0 |-> 1] \in [0..0 -> Nat] /\ Powers([i \in 0..0 |-> 1], b, 0)
    BY DEF Powers
  <2>2. 0 \in 0..N
    OBVIOUS
  <2>3. QED
    BY <2>1, <2>2
<1>2. ASSUME NEW n \in 1..N, n - 1 \in T PROVE n \in T
  <2>1. PICK p \in [0..(n - 1) -> Nat] : Powers(p, b, n - 1)
    BY <1>2
  <2> DEFINE q == [i \in 0..n |-> IF i = n THEN b * p[n - 1] ELSE p[i]]
  <2>2. n - 1 \in 0..(n - 1) /\ \A i \in 0..n : i # n => i \in 0..(n - 1)
    OBVIOUS
  <2>3. b * p[n - 1] \in Nat
    <3>1. p[n - 1] \in Nat
      BY <2>1, <2>2
    <3>2. QED
      BY <3>1
  <2>4. q \in [0..n -> Nat]
    BY <2>1, <2>2, <2>3
  <2>5. Powers(q, b, n)
    <3>1. ASSUME NEW i \in 0..n PROVE q[i] = IF i = 0 THEN 1 ELSE b * q[i - 1]
      <4>1. CASE i = n
        <5>1. n # 0 /\ n - 1 \in 0..n /\ n - 1 # n
          OBVIOUS
        <5>2. q[n - 1] = p[n - 1] /\ q[n] = b * p[n - 1]
          BY <5>1
        <5>3. QED
          BY <4>1, <5>1, <5>2
      <4>2. CASE i # n
        <5>1. i \in 0..(n - 1) /\ (i # 0 => i - 1 \in 0..n /\ i - 1 # n)
          BY <4>2
        <5>2. q[i] = p[i] /\ (i # 0 => q[i - 1] = p[i - 1])
          BY <4>2, <5>1
        <5>3. p[i] = IF i = 0 THEN 1 ELSE b * p[i - 1]
          BY <2>1, <5>1 DEF Powers
        <5>4. QED
          BY <5>2, <5>3
      <4>3. QED
        BY <4>1, <4>2
    <3> HIDE DEF q
    <3>2. QED
      BY <3>1 DEF Powers
  <2> HIDE DEF q
  <2>6. n \in 0..N
    OBVIOUS
  <2>7. QED
    BY <2>4, <2>5, <2>6
<1>3. N \in T
  <2>1. \A n \in 1..N : n - 1 \in T => n \in T
    BY <1>2
  <2>2. N \in 0..N
    OBVIOUS
  <2> HIDE DEF T
  <2>3. QED
    BY <1>1, <2>1, <2>2, UpTo
<1>4. QED
  BY <1>3

LEMMA PowersAgree ==
  ASSUME NEW b \in Nat, NEW N \in Nat, NEW p, NEW q, Powers(p, b, N), Powers(q, b, N)
  PROVE  \A n \in 0..N : p[n] = q[n]
<1> DEFINE T == {n \in 0..N : p[n] = q[n]}
<1>1. 0 \in T
  <2>1. 0 \in 0..N
    OBVIOUS
  <2>2. QED
    BY <2>1 DEF Powers
<1>2. ASSUME NEW n \in 1..N, n - 1 \in T PROVE n \in T
  <2>1. n \in 0..N /\ n # 0
    OBVIOUS
  <2>2. QED
    BY <1>2, <2>1 DEF Powers
<1>3. \A n \in 0..N : n \in T
  <2>1. \A n \in 1..N : n - 1 \in T => n \in T
    BY <1>2
  <2> HIDE DEF T
  <2>2. QED
    BY <1>1, <2>1, UpTo
<1>4. QED
  BY <1>3

\* The recursion of Power is solved by such a function.
LEMMA PowerIs ==
  ASSUME NEW b \in Nat, NEW N \in Nat, NEW p \in [0..N -> Nat], Powers(p, b, N)
  PROVE  Power(b, N) = p[N]
<1> DEFINE IsPower(f) == f = [i \in 0..N |-> IF i = 0 THEN 1 ELSE b * f[i - 1]]
           power == CHOOSE f : IsPower(f)
<1>1. IsPower(p)
  BY DEF Powers
<1>2. IsPower(power)
  BY <1>1, Zenon
<1>3. Powers(power, b, N)
  BY <1>2 DEF Powers
<1>4. Power(b, N) = power[N]
  BY Zenon DEF Power
<1>5. N \in 0..N
  OBVIOUS
<1> HIDE DEF power
<1>6. QED
  BY <1>3, <1>4, <1>5, PowersAgree

\* b to the power of n + 1 is b times b to the power of n.
LEMMA PowerSteps ==
  ASSUME NEW b \in Nat
  PROVE  /\ Power(b, 0) = 1
         /\ \A n \in Nat : Power(b, n) \in Nat /\ Power(b, n + 1) = b * Power(b, n)
<1>1. Power(b, 0) = 1
  <2>1. PICK p \in [0..0 -> Nat] : Powers(p, b, 0)
    BY PowersExist
  <2>2. p[0] = 1
    BY <2>1 DEF Powers
  <2>3. QED
    BY <2>1, <2>2, PowerIs
<1>2. ASSUME NEW n \in Nat
      PROVE  Power(b, n) \in Nat /\ Power(b, n + 1) = b * Power(b, n)
  <2>1. n + 1 \in Nat
    OBVIOUS
  <2>2. PICK p \in [0..(n + 1) -> Nat] : Powers(p, b, n + 1)
    BY <2>1, PowersExist
  <2> DEFINE q == [i \in 0..n |-> p[i]]
  <2>3. \A i \in 0..n : i \in 0..(n + 1) /\ (i # 0 => i - 1 \in 0..n)
    OBVIOUS
  <2>4. q \in [0..n -> Nat] /\ Powers(q, b, n)
    BY <2>2, <2>3 DEF Powers
  <2>5. n \in 0..n /\ n + 1 \in 0..(n + 1) /\ n + 1 # 0 /\ (n + 1) - 1 = n
    OBVIOUS
  <2>6. q[n] = p[n] /\ p[n + 1] = b * p[n]
    BY <2>2, <2>5 DEF Powers
  <2> HIDE DEF q
  <2>7. Power(b, n) = q[n] /\ Power(b, n + 1) = p[n + 1]
    BY <2>1, <2>2, <2>4, PowerIs
  <2>8. q[n] \in Nat
    BY <2>4, <2>5
  <2>9. QED
    BY <2>6, <2>7, <2>8
<1>3. QED
  BY <1>1, <1>2

\* A word has at least two values.
LEMMA WordType == Word \in Nat /\ Word >= 2
<1>1. WordBits \in Nat \ {0}
  BY SizesAssumption
<1> DEFINE T == {n \in 0..WordBits : n = 0 \/ Power(2, n) >= 2}
<1>2. 0 \in T
  BY <1>1
<1>3. ASSUME NEW n \in 1..WordBits, n - 1 \in T PROVE n \in T
  <2>1. n - 1 \in Nat /\ (n - 1) + 1 = n /\ n \in 0..WordBits
    BY <1>1
  <2>2. Power(2, n) = 2 * Power(2, n - 1) /\ Power(2, n - 1) \in Nat /\ Power(2, 0) = 1
    BY <2>1, PowerSteps
  <2>3. Power(2, n - 1) >= 1
    BY <1>3, <2>2
  <2>4. Power(2, n) >= 2
    BY <2>2, <2>3
  <2>5. QED
    BY <2>1, <2>4
<1>4. WordBits \in T
  <2>1. \A n \in 1..WordBits : n - 1 \in T => n \in T
    BY <1>3
  <2>2. WordBits \in 0..WordBits /\ WordBits \in Nat
    BY <1>1
  <2> HIDE DEF T
  <2>3. QED
    BY <1>2, <2>1, <2>2, UpTo
<1>5. Power(2, WordBits) \in Nat
  BY <1>1, PowerSteps
<1>6. QED
  BY <1>1, <1>4, <1>5 DEF Word
-----------------------------------------------------------------------------
(***************************************************************************)
(* Texts put together item by item: f gives the sequence for each.         *)
(***************************************************************************)

\* Three elements or fewer make a sequence.
LEMMA Shorts ==
  ASSUME NEW S, NEW a \in S, NEW b \in S, NEW c \in S
  PROVE  <<a>> \in Seq(S) /\ <<a, b>> \in Seq(S) /\ <<a, b, c>> \in Seq(S)
OBVIOUS

LEMMA ListIsSeq ==
  ASSUME NEW S, NEW n \in Nat, NEW p \in [1..n -> S]
  PROVE  p \in Seq(S) /\ Len(p) = n
OBVIOUS

Joined(f, s) == FlattenSeq([i \in 1..Len(s) |-> f[s[i]]])

LEMMA JoinedParts ==
  ASSUME NEW S, NEW T, NEW f \in [S -> Seq(T)], NEW s \in Seq(S)
  PROVE  /\ [i \in 1..Len(s) |-> f[s[i]]] \in Seq(Seq(T))
         /\ Len([i \in 1..Len(s) |-> f[s[i]]]) = Len(s)
         /\ Joined(f, s) \in Seq(T)
<1> DEFINE p == [i \in 1..Len(s) |-> f[s[i]]]
<1>1. Len(s) \in Nat /\ \A i \in 1..Len(s) : s[i] \in S
  BY LenProperties, ElementOfSeq
<1>2. p \in [1..Len(s) -> Seq(T)] /\ DOMAIN p = 1..Len(s)
  BY <1>1
<1>3. Joined(f, s) = FlattenSeq(p)
  BY DEF Joined
<1> HIDE DEF p
<1>4. p \in Seq(Seq(T)) /\ Len(p) = Len(s)
  BY <1>1, <1>2, ListIsSeq
<1>5. QED
  BY <1>3, <1>4, FlattenTyped DEF p

JoinsAt(f, s, t) == Joined(f, s \o t) = Joined(f, s) \o Joined(f, t)

LEMMA JoinedConcat ==
  ASSUME NEW S, NEW T, NEW f \in [S -> Seq(T)], NEW s \in Seq(S), NEW t \in Seq(S)
  PROVE  JoinsAt(f, s, t)
<1> DEFINE p == [i \in 1..Len(s) |-> f[s[i]]]
           q == [i \in 1..Len(t) |-> f[t[i]]]
           u == [i \in 1..Len(s \o t) |-> f[(s \o t)[i]]]
<1>1. /\ s \o t \in Seq(S) /\ Len(s \o t) = Len(s) + Len(t)
      /\ Len(s) \in Nat /\ Len(t) \in Nat
      /\ \A i \in 1..(Len(s) + Len(t)) :
           (s \o t)[i] = IF i <= Len(s) THEN s[i] ELSE t[i - Len(s)]
  BY ConcatProperties, LenProperties
<1>2. p \in Seq(Seq(T)) /\ Len(p) = Len(s) /\ q \in Seq(Seq(T)) /\ Len(q) = Len(t)
  BY JoinedParts
<1>3. u \in Seq(Seq(T)) /\ Len(u) = Len(s \o t)
  BY <1>1, JoinedParts
<1>4. /\ \A i \in 1..Len(s) : p[i] = f[s[i]]
      /\ \A i \in 1..Len(t) : q[i] = f[t[i]]
      /\ \A i \in 1..Len(s \o t) : u[i] = f[(s \o t)[i]]
  OBVIOUS
<1>5. Joined(f, s) = FlattenSeq(p) /\ Joined(f, t) = FlattenSeq(q)
      /\ Joined(f, s \o t) = FlattenSeq(u)
  BY DEF Joined
<1> HIDE DEF p, q, u
<1>6. /\ p \o q \in Seq(Seq(T)) /\ Len(p \o q) = Len(s) + Len(t)
      /\ \A i \in 1..(Len(s) + Len(t)) :
           (p \o q)[i] = IF i <= Len(s) THEN p[i] ELSE q[i - Len(s)]
  <2> DEFINE W == Seq(T)
  <2>1. p \in Seq(W) /\ q \in Seq(W)
    BY <1>2
  <2> HIDE DEF W
  <2>2. /\ p \o q \in Seq(W) /\ Len(p \o q) = Len(p) + Len(q)
        /\ \A i \in 1..(Len(p) + Len(q)) :
             (p \o q)[i] = IF i <= Len(p) THEN p[i] ELSE q[i - Len(p)]
    BY <2>1, ConcatProperties
  <2>3. QED
    BY <1>2, <2>2 DEF W
<1>7. ASSUME NEW i \in 1..Len(u) PROVE u[i] = (p \o q)[i]
  <2>1. i \in 1..(Len(s) + Len(t)) /\ (i <= Len(s) => i \in 1..Len(s))
        /\ (~(i <= Len(s)) => i - Len(s) \in 1..Len(t))
    BY <1>1, <1>3
  <2>2. u[i] = f[(s \o t)[i]]
    BY <1>3, <1>4
  <2>3. CASE i <= Len(s)
    BY <1>1, <1>4, <1>6, <2>1, <2>2, <2>3
  <2>4. CASE ~(i <= Len(s))
    BY <1>1, <1>4, <1>6, <2>1, <2>2, <2>4
  <2>5. QED
    BY <2>3, <2>4
<1>8. u = p \o q
  BY <1>1, <1>3, <1>6, <1>7, SeqEqual
<1>9. QED
  BY <1>2, <1>5, <1>8, FlattenConcat DEF JoinsAt

LEMMA JoinedSmall ==
  ASSUME NEW S, NEW T, NEW f \in [S -> Seq(T)], NEW x \in S
  PROVE  Joined(f, <<>>) = <<>> /\ Joined(f, <<x>>) = f[x]
<1>1. [i \in 1..Len(<<>>) |-> f[<<>>[i]]] = <<>>
  OBVIOUS
<1>2. [i \in 1..Len(<<x>>) |-> f[<<x>>[i]]] = <<f[x]>>
  OBVIOUS
<1>3. f[x] \in Seq(T)
  OBVIOUS
<1>4. QED
  BY <1>1, <1>2, <1>3, FlattenSmall DEF Joined

LEMMA JoinedNothing == \A f : Joined(f, <<>>) = <<>>
<1>1. \A f : [i \in 1..Len(<<>>) |-> f[<<>>[i]]] = <<>>
  OBVIOUS
<1>2. FlattenSeq(<<>>) = <<>>
  <2>1. <<>> \in Seq({1})
    OBVIOUS
  <2>2. QED
    BY <2>1, FlattenSmall
<1>3. QED
  BY <1>1, <1>2 DEF Joined

\* The first element's sequence comes first.
LEMMA JoinedFirst ==
  ASSUME NEW S, NEW T, NEW f \in [S -> Seq(T)], NEW x \in S, NEW s \in Seq(S)
  PROVE  Joined(f, <<x>> \o s) = f[x] \o Joined(f, s)
<1>1. <<x>> \in Seq(S)
  OBVIOUS
<1>2. JoinsAt(f, <<x>>, s)
  BY <1>1, JoinedConcat, Zenon
<1>3. Joined(f, <<x>> \o s) = Joined(f, <<x>>) \o Joined(f, s)
  BY <1>2 DEF JoinsAt
<1>4. Joined(f, <<x>>) = f[x]
  BY JoinedSmall
<1>5. QED
  BY <1>3, <1>4

-----------------------------------------------------------------------------
(* UARTwrite: what it sends of a text, character by character.             *)

WrittenOf(S) == [c \in S |-> IF c = LF THEN <<CR, LF>> ELSE <<c>>]

LEMMA WrittenIs ==
  ASSUME NEW S, CR \in S, LF \in S
  PROVE  /\ WrittenOf(S) \in [S -> Seq(S)]
         /\ \A s \in Seq(S) : Written(s) = Joined(WrittenOf(S), s)
<1>1. ASSUME NEW c \in S PROVE (IF c = LF THEN <<CR, LF>> ELSE <<c>>) \in Seq(S)
  BY Shorts, Zenon
<1>2. WrittenOf(S) \in [S -> Seq(S)]
  BY <1>1 DEF WrittenOf
<1>3. ASSUME NEW s \in Seq(S) PROVE Written(s) = Joined(WrittenOf(S), s)
  <2>1. \A i \in 1..Len(s) : s[i] \in S
    BY ElementOfSeq
  <2>2. [i \in 1..Len(s) |-> IF s[i] = LF THEN <<CR, LF>> ELSE <<s[i]>>]
          = [i \in 1..Len(s) |-> WrittenOf(S)[s[i]]]
    BY <2>1 DEF WrittenOf
  <2>3. QED
    BY <2>2, Zenon DEF Written, Joined
<1>4. QED
  BY <1>2, <1>3

\* Texts written one behind the other are written as one.
LEMMA WrittenConcat ==
  ASSUME NEW S, CR \in S, LF \in S, NEW s \in Seq(S), NEW t \in Seq(S)
  PROVE  /\ Written(s \o t) = Written(s) \o Written(t)
         /\ Written(s) \in Seq(S) /\ Written(<<>>) = <<>>
<1> DEFINE f == WrittenOf(S)
<1>1. s \o t \in Seq(S) /\ <<>> \in Seq(S)
  OBVIOUS
<1>2. f \in [S -> Seq(S)] /\ \A x \in Seq(S) : Written(x) = Joined(f, x)
  BY WrittenIs
<1> HIDE DEF f
<1>3. Joined(f, s \o t) = Joined(f, s) \o Joined(f, t)
  <2>1. JoinsAt(f, s, t)
    BY <1>2, JoinedConcat, Zenon
  <2>2. QED
    BY <2>1 DEF JoinsAt
<1>4. Joined(f, s) \in Seq(S) /\ Joined(f, <<>>) = <<>>
  BY <1>2, JoinedParts, JoinedSmall
<1>5. QED
  BY <1>1, <1>2, <1>3, <1>4

\* A text without a line feed is sent as it is.
LEMMA WrittenPlain ==
  ASSUME NEW S, NEW s \in Seq(S), \A i \in 1..Len(s) : s[i] # LF
  PROVE  Written(s) = s
<1> DEFINE N == Len(s)
           p == [i \in 1..N |-> IF s[i] = LF THEN <<CR, LF>> ELSE <<s[i]>>]
           b == [k \in 0..N |-> SubSeq(s, 1, k)]
<1>1. N \in Nat /\ \A i \in 1..N : s[i] \in S /\ s[i] # LF
  BY LenProperties, ElementOfSeq
<1>2. p \in [1..N -> Seq(S)] /\ DOMAIN p = 1..N /\ \A i \in 1..N : p[i] = <<s[i]>>
  BY <1>1
<1>3. Written(s) = FlattenSeq(p)
  BY DEF Written
<1>4. s \in Seq(S) /\ SubSeq(s, 1, N) = s
  BY SubSeqFull
<1>5. ASSUME NEW k \in 1..N PROVE b[k] = b[k - 1] \o <<s[k]>>
  <2>1. 1 \in 1..N /\ k \in 1..N /\ k \in 0..N /\ k - 1 \in 0..N
    BY <1>1
  <2>2. SubSeq(s, 1, k) = SubSeq(s, 1, k - 1) \o <<s[k]>>
    BY <1>1, <2>1, SubSeqRecursiveSecond
  <2>3. QED
    BY <2>1, <2>2
<1>6. 0 \in 0..N /\ N \in 0..N
  BY <1>1
<1>7. b[0] = <<>> /\ b[N] = s
  <2>1. SubSeq(s, 1, 0) = <<>>
    BY SubSeqEmpty
  <2>2. QED
    BY <1>4, <1>6, <2>1
<1> HIDE DEF p, b, N
<1>8. p \in Seq(Seq(S)) /\ Len(p) = N
  BY <1>1, <1>2
<1>9. IsFlatRun(b, p, N)
  BY <1>2, <1>5, <1>7 DEF IsFlatRun
<1>10. QED
  BY <1>3, <1>7, <1>8, <1>9, FlattenIs
-----------------------------------------------------------------------------
(* The terminal: the state after one more character.                       *)

Terminals(S) == {t \in [cell : Seq(S), at : Int] : t.at <= Len(t.cell)}

LEMMA ShownType ==
  ASSUME NEW S, NEW t \in Terminals(S), NEW c \in S
  PROVE  Shown(t, c) \in Terminals(S)
<1>1. /\ t \in [cell : Seq(S), at : Int] /\ t.cell \in Seq(S) /\ t.at \in Int
      /\ t.at <= Len(t.cell) /\ Len(t.cell) \in Nat
      /\ \A i \in 1..Len(t.cell) : t.cell[i] \in S
  BY LenProperties, ElementOfSeq DEF Terminals
<1>2. CASE c = BS
  <2>1. Shown(t, c).cell = t.cell /\ Shown(t, c).at = t.at - 1
        /\ Shown(t, c) \in [cell : Seq(S), at : Int]
    BY <1>1, <1>2 DEF Shown
  <2>2. QED
    BY <1>1, <2>1 DEF Terminals
<1>3. CASE c # BS
  <2> DEFINE n == IF t.at < Len(t.cell) THEN Len(t.cell) ELSE t.at + 1
             s == [i \in 1..n |-> IF i = t.at + 1 THEN c ELSE t.cell[i]]
  <2>1. n \in Nat /\ t.at + 1 <= n /\ \A i \in 1..n : i # t.at + 1 => i \in 1..Len(t.cell)
    BY <1>1
  <2>2. s \in [1..n -> S]
    BY <1>1, <2>1
  <2>3. Shown(t, c) = [cell |-> s, at |-> t.at + 1]
    BY <1>3, Zenon DEF Shown
  <2> HIDE DEF n, s
  <2>4. s \in Seq(S) /\ Len(s) = n
    BY <2>1, <2>2, ListIsSeq
  <2>5. QED
    BY <1>1, <2>1, <2>3, <2>4 DEF Terminals
<1>4. QED
  BY <1>2, <1>3

ShownBy(S) == [p \in Terminals(S) \X S |-> Shown(p[1], p[2])]

LEMMA ShownByType ==
  ASSUME NEW S
  PROVE  /\ ShownBy(S) \in [Terminals(S) \X S -> Terminals(S)]
         /\ \A t \in Terminals(S), c \in S : ShownBy(S)[<<t, c>>] = Shown(t, c)
<1>1. \A p \in Terminals(S) \X S : p[1] \in Terminals(S) /\ p[2] \in S
  OBVIOUS
<1>2. \A p \in Terminals(S) \X S : Shown(p[1], p[2]) \in Terminals(S)
  BY <1>1, ShownType
<1>3. QED
  BY <1>2 DEF ShownBy

Blank == [cell |-> <<>>, at |-> 0]

LEMMA BlankType == \A S : Blank \in Terminals(S)
BY DEF Blank, Terminals

LEMMA TerminalRuns ==
  ASSUME NEW S, NEW text \in Seq(S)
  PROVE  HasRun(Terminal(text), Terminals(S), ShownBy(S), Blank, text, Len(text))
<1> DEFINE N == Len(text)
           X == Terminals(S)
           F == ShownBy(S)
           IsFold(it) == it = [s \in SUBSET (DOMAIN text) |->
                                 IF s = {} THEN Blank
                                 ELSE Shown(it[s \ {Max(s)}], text[Max(s)])]
           iter == CHOOSE it : IsFold(it)
<1>1. N \in Nat /\ text \in [1..N -> S] /\ DOMAIN text = 1..N
  BY LenProperties, SMT
<1>2. F \in [X \X S -> X]
  BY ShownByType
<1>3. \A x \in X, y \in S : F[<<x, y>>] = Shown(x, y)
  BY ShownByType
<1>4. Blank \in X
  BY BlankType
<1> HIDE DEF N, F, X
<1>5. IsFold(iter)
  <2>1. PICK g \in [SUBSET (1..N) -> X] : IsFoldOn(g, F, Blank, text, N)
    BY <1>1, <1>2, <1>4, FoldExists
  <2>2. ASSUME NEW s \in SUBSET (1..N)
        PROVE  g[s] = IF s = {} THEN Blank ELSE Shown(g[s \ {Max(s)}], text[Max(s)])
    <3>1. CASE s = {}
      BY <2>1, <3>1 DEF IsFoldOn
    <3>2. CASE s # {}
      <4>1. Max(s) \in 1..N /\ g[s] = F[<<g[s \ {Max(s)}], text[Max(s)]>>]
        BY <2>1, <3>2 DEF IsFoldOn
      <4>2. s \ {Max(s)} \in SUBSET (1..N)
        OBVIOUS
      <4>3. g[s \ {Max(s)}] \in X /\ text[Max(s)] \in S
        BY <1>1, <4>1, <4>2
      <4>4. QED
        BY <1>3, <3>2, <4>1, <4>3
    <3>3. QED
      BY <3>1, <3>2
  <2>3. IsFold(g)
    BY <1>1, <2>2
  <2> HIDE DEF IsFold
  <2>4. QED
    BY <2>3, Zenon
<1>6. Terminal(text) = iter[1..N]
  BY <1>1, Zenon DEF Terminal, FoldLeft, MapThenFoldSet, IsFold, Blank
<1> HIDE DEF iter
<1>7. iter[{}] = Blank
  BY <1>1, <1>5
<1>8. StepsOn(iter, X, S, F, Blank, text, N)
  BY <1>1, <1>3, <1>5, <1>7 DEF StepsOn
<1> HIDE DEF IsFold
<1>9. HasRun(iter[1..N], X, F, Blank, text, N)
  BY <1>1, <1>2, <1>4, <1>8, FoldRuns
<1>10. QED
  BY <1>6, <1>9 DEF X, F, N

LEMMA TerminalSteps ==
  ASSUME NEW S, NEW text \in Seq(S), NEW c \in S
  PROVE  /\ Terminal(text) \in Terminals(S)
         /\ Terminal(Append(text, c)) = Shown(Terminal(text), c)
         /\ Terminal(<<>>) = Blank
<1> DEFINE N == Len(text)
           X == Terminals(S)
           F == ShownBy(S)
           longer == Append(text, c)
<1>1. N \in Nat /\ <<>> \in Seq(S) /\ Len(<<>>) = 0
  BY LenProperties
<1>2. /\ longer \in Seq(S) /\ Len(longer) = N + 1
      /\ longer[N + 1] = c /\ \A k \in 1..N : longer[k] = text[k]
  BY AppendProperties
<1>3. HasRun(Terminal(text), X, F, Blank, text, N)
  BY TerminalRuns
<1>4. HasRun(Terminal(longer), X, F, Blank, longer, N + 1)
  BY <1>2, TerminalRuns
<1>5. HasRun(Terminal(<<>>), X, F, Blank, <<>>, 0)
  BY <1>1, TerminalRuns
<1> HIDE DEF N, longer
<1>6. PICK a \in [0..N -> X] : IsRun(a, F, Blank, text, N) /\ a[N] = Terminal(text)
  BY <1>3 DEF HasRun
<1>7. PICK b \in [0..(N + 1) -> X] :
        IsRun(b, F, Blank, longer, N + 1) /\ b[N + 1] = Terminal(longer)
  BY <1>4 DEF HasRun
<1>8. PICK d \in [0..0 -> X] : IsRun(d, F, Blank, <<>>, 0) /\ d[0] = Terminal(<<>>)
  BY <1>5 DEF HasRun
<1>9. IsRun(b, F, Blank, longer, N)
  <2>1. \A k \in 1..N : k \in 1..(N + 1)
    BY <1>1
  <2>2. QED
    BY <1>7, <2>1 DEF IsRun
<1>10. a[N] = b[N]
  <2>1. \A k \in 1..N : text[k] = longer[k]
    BY <1>2
  <2>2. N \in Nat /\ IsRun(a, F, Blank, text, N) /\ IsRun(b, F, Blank, longer, N)
    BY <1>1, <1>6, <1>9
  <2> HIDE DEF X, F
  <2>3. QED
    BY <2>1, <2>2, RunsAgree, SMTT(30)
<1>11. N \in 0..N /\ N + 1 \in 1..(N + 1) /\ (N + 1) - 1 = N
  BY <1>1
<1>12. a[N] \in X
  BY <1>6, <1>11
<1>13. b[N + 1] = F[<<b[N], longer[N + 1]>>]
  BY <1>7, <1>11 DEF IsRun
<1>14. F[<<a[N], c>>] = Shown(a[N], c)
  BY <1>12, ShownByType
<1>15. d[0] = Blank
  BY <1>8 DEF IsRun
<1>16. QED
  BY <1>2, <1>6, <1>7, <1>8, <1>10, <1>12, <1>13, <1>14, <1>15 DEF longer
-----------------------------------------------------------------------------
(***************************************************************************)
(* Reading a line.                                                         *)
(***************************************************************************)

Keys == Letters \cup Ends \cup {BS}

\* The keys of a line are no ends, and a line has room for its zero.
LEMMA KeysAre ==
  /\ CR # LF /\ CR # BS /\ CR # ESC /\ LF # BS /\ LF # ESC /\ BS # ESC /\ BS # " "
  /\ Ends = {CR, LF, ESC}
  /\ \A c \in Letters : c # CR /\ c # LF /\ c # ESC /\ c # BS
  /\ LineSize - 1 \in Nat /\ MaxKeys \in Nat
<1>1. Ends = {CR, LF, ESC}
  BY DEF Ends
<1>2. \A c \in Letters : c # CR /\ c # LF /\ c # ESC /\ c # BS
  BY <1>1, KeysAssumption
<1>3. LineSize - 1 \in Nat /\ MaxKeys \in Nat
  BY SizesAssumption, KeysAssumption
<1>4. CR # LF /\ CR # BS /\ CR # ESC /\ LF # BS /\ LF # ESC /\ BS # ESC /\ BS # " "
  BY DEF CR, LF, BS, ESC
<1>5. QED
  BY <1>1, <1>2, <1>3, <1>4

\* Nothing comes before the first character.
LEMMA FlagFirst == ASSUME NEW cr, NEW s PROVE Flagged(cr, s, 1) <=> cr
<1>1. \A j \in 1..(1 - 1) : FALSE
  OBVIOUS
<1>2. NoLF(s, 1) /\ ~AfterCR(s, 1)
  BY <1>1 DEF NoLF, AfterCR
<1>3. QED
  BY <1>2, Zenon DEF Flagged

\* A CR sets the flag, a LF clears it.
LEMMA FlagNext ==
  ASSUME NEW cr, NEW s, NEW n \in Nat, n > 0
  PROVE  Flagged(cr, s, n + 1) <=> \/ s[n].char = CR
                                   \/ Flagged(cr, s, n) /\ s[n].char # LF
<1>1. /\ (n + 1) - 1 = n /\ n \in 1..n
      /\ \A j \in 1..n : j \in 1..(n - 1) \/ j = n
      /\ \A j \in 1..(n - 1) : j \in 1..n /\ n \in (j + 1)..n
      /\ \A j \in 1..(n - 1) : \A k \in (j + 1)..n : k \in (j + 1)..(n - 1) \/ k = n
      /\ \A j \in 1..(n - 1) : \A k \in (j + 1)..(n - 1) : k \in (j + 1)..n
      /\ \A k \in (n + 1)..n : FALSE
  OBVIOUS
<1>2. CR # LF
  BY KeysAre
<1>3. NoLF(s, n + 1) <=> NoLF(s, n) /\ s[n].char # LF
  BY <1>1 DEF NoLF
<1>4. AfterCR(s, n + 1) <=> s[n].char = CR \/ (AfterCR(s, n) /\ s[n].char # LF)
  <2>1. ASSUME s[n].char = CR PROVE AfterCR(s, n + 1)
    BY <1>1, <2>1, Zenon DEF AfterCR
  <2>2. ASSUME AfterCR(s, n), s[n].char # LF PROVE AfterCR(s, n + 1)
    <3>1. PICK j \in 1..(n - 1) : /\ s[j].char = CR
                                  /\ \A k \in (j + 1)..(n - 1) : s[k].char # LF
      BY <2>2 DEF AfterCR
    <3>2. j \in 1..n /\ \A k \in (j + 1)..n : s[k].char # LF
      BY <1>1, <2>2, <3>1
    <3>3. QED
      BY <1>1, <3>1, <3>2 DEF AfterCR
  <2>3. ASSUME AfterCR(s, n + 1), s[n].char # CR PROVE AfterCR(s, n) /\ s[n].char # LF
    <3>1. PICK j \in 1..n : s[j].char = CR /\ \A k \in (j + 1)..n : s[k].char # LF
      BY <1>1, <2>3 DEF AfterCR
    <3>2. j \in 1..(n - 1)
      BY <1>1, <2>3, <3>1
    <3>3. s[n].char # LF /\ \A k \in (j + 1)..(n - 1) : s[k].char # LF
      BY <1>1, <3>1, <3>2
    <3>4. QED
      BY <3>1, <3>2, <3>3 DEF AfterCR
  <2>4. QED
    BY <1>2, <2>1, <2>2, <2>3
<1>5. QED
  BY <1>2, <1>3, <1>4, Zenon DEF Flagged

\* The flag at a character depends on those before it only.
LEMMA FlagKept ==
  ASSUME NEW cr, NEW s, NEW t, NEW n, \A j \in 1..(n - 1) : t[j] = s[j], n \in Nat
  PROVE  Flagged(cr, t, n) <=> Flagged(cr, s, n)
<1>1. \A j \in 1..(n - 1) : \A k \in (j + 1)..(n - 1) : k \in 1..(n - 1)
  OBVIOUS
<1>2. NoLF(t, n) <=> NoLF(s, n)
  BY DEF NoLF
<1>3. AfterCR(t, n) <=> AfterCR(s, n)
  <2>1. ASSUME AfterCR(t, n) PROVE AfterCR(s, n)
    <3>1. PICK j \in 1..(n - 1) : /\ t[j].char = CR
                                  /\ \A k \in (j + 1)..(n - 1) : t[k].char # LF
      BY <2>1 DEF AfterCR
    <3>2. s[j].char = CR /\ \A k \in (j + 1)..(n - 1) : s[k].char # LF
      BY <1>1, <3>1
    <3>3. QED
      BY <3>2 DEF AfterCR
  <2>2. ASSUME AfterCR(s, n) PROVE AfterCR(t, n)
    <3>1. PICK j \in 1..(n - 1) : /\ s[j].char = CR
                                  /\ \A k \in (j + 1)..(n - 1) : s[k].char # LF
      BY <2>2 DEF AfterCR
    <3>2. t[j].char = CR /\ \A k \in (j + 1)..(n - 1) : t[k].char # LF
      BY <1>1, <3>1
    <3>3. QED
      BY <3>2 DEF AfterCR
  <2>3. QED
    BY <2>1, <2>2
<1>4. QED
  BY <1>2, <1>3, Zenon DEF Flagged

\* The empty line, and the words a variable starts with.
LEMMA Starts ==
  /\ <<>> \in BoundedSeq(Letters, LineSize - 1)
  /\ 0 \in 0..(Word - 1) /\ 0 \in 0..MaxKeys
  /\ Len(<<>>) = 0 /\ \A S : <<>> \in Seq(S)
<1>1. Len(<<>>) = 0 /\ \A S : <<>> \in Seq(S)
  BY EmptySeq
<1>2. LineSize - 1 \in Nat /\ MaxKeys \in Nat
  BY KeysAre
<1>3. <<>> \in BoundedSeq(Letters, LineSize - 1)
  <2>1. <<>> \in Seq(Letters) /\ Len(<<>>) <= LineSize - 1
    BY <1>1, <1>2
  <2>2. QED
    BY <1>2, <2>1, BoundedSeqIs, Zenon
<1>4. 0 \in 0..MaxKeys
  BY <1>2
<1>5. 0 \in 0..(Word - 1)
  <2> DEFINE w == Word
  <2>1. w \in Nat /\ w >= 2
    BY WordType
  <2> HIDE DEF w
  <2>2. 0 \in 0..(w - 1)
    BY <2>1
  <2>3. QED
    BY <2>2 DEF w
<1>6. QED
  BY <1>1, <1>3, <1>4, <1>5

LEMMA InitRInv == Init => RInv
<1>1. SUFFICES ASSUME Init PROVE RInv
  OBVIOUS
<1>2. /\ format = Format(job) /\ command = FALSE /\ width = 0 /\ fill = " " /\ out = <<>>
      /\ input = <<>> /\ reading = FALSE /\ line = <<>> /\ lastWasCR = FALSE
      /\ keys = 0 /\ lone = FALSE /\ enters = 0 /\ lines = 0 /\ split = FALSE
  BY <1>1 DEF Init
<1>3. TypeOK
  <2>1. width \in 0..(Word - 1) /\ keys \in 0..MaxKeys /\ lines \in Nat /\ enters \in Nat
        /\ line \in BoundedSeq(Letters, LineSize - 1)
    BY <1>2, Starts
  <2>2. QED
    BY <1>2, <2>1 DEF TypeOK
<1>4. EntersMarked
  <2>1. input \in Seq(Typed) /\ Len(input) = 0
    BY <1>2, Starts
  <2>2. \A i \in 1..Len(input) : FALSE
    BY <2>1
  <2>3. Len(input) + 1 = 1
    BY <2>1
  <2>4. ~Flagged(lastWasCR, input, 1)
    BY <1>2, FlagFirst
  <2>5. QED
    BY <1>2, <2>1, <2>2, <2>3, <2>4 DEF EntersMarked, Marked
<1>5. QED
  BY <1>2, <1>3, <1>4 DEF RInv, NotPrinting, Echoed, OneLinePerEnter

\* Printing happens before a line is read, and leaves what is read alone.
LEMMA PrintRInv == RInv /\ UARTvprintf => RInv'
<1>1. SUFFICES ASSUME RInv, UARTvprintf PROVE RInv'
  OBVIOUS
<1>2. format # <<>> /\ UNCHANGED readVars /\ command' \in BOOLEAN
  <2>1. CASE PrintText
    BY <2>1 DEF PrintText
  <2>2. CASE ReadWidth
    BY <1>1, <2>2 DEF ReadWidth, Reads, RInv, TypeOK
  <2>3. CASE PrintChar \/ PrintSigned \/ PrintUnsigned \/ PrintHex \/ PrintString
                \/ PrintPercent \/ PrintError
    BY <2>3 DEF PrintChar, PrintSigned, PrintUnsigned, PrintHex, PrintString, PrintPercent,
       PrintError, Reads, Emit
  <2>4. QED
    BY <1>1, <2>1, <2>2, <2>3 DEF UARTvprintf
<1>3. width' \in 0..(Word - 1) /\ fill' \in {" ", "0"}
  <2>1. width \in 0..(Word - 1) /\ fill \in {" ", "0"}
    BY <1>1 DEF RInv, TypeOK
  <2>2. CASE PrintText
    BY <2>2, Starts DEF PrintText
  <2>3. CASE ReadWidth
    <3>1. PICK d \in 0..9 : /\ width' = (10 * width + d) % Word
                            /\ fill' = IF d = 0 /\ width = 0 THEN "0" ELSE fill
      BY <2>3 DEF ReadWidth
    <3> DEFINE w == Word
    <3>2. w \in Nat /\ w >= 2 /\ width \in 0..(w - 1) /\ width' = (10 * width + d) % w
      BY <2>1, <3>1, WordType
    <3> HIDE DEF w
    <3>3. 10 * width + d \in Nat
      BY <3>2
    <3>4. width' \in 0..(w - 1)
      BY <3>2, <3>3
    <3>5. QED
      BY <2>1, <3>1, <3>4 DEF w
  <2>4. CASE PrintChar \/ PrintSigned \/ PrintUnsigned \/ PrintHex \/ PrintString
                \/ PrintPercent \/ PrintError
    <3>1. UNCHANGED <<width, fill>>
      BY <2>4 DEF PrintChar, PrintSigned, PrintUnsigned, PrintHex, PrintString,
         PrintPercent, PrintError, Emit
    <3>2. QED
      BY <2>1, <3>1
  <2>5. QED
    BY <1>1, <2>2, <2>3, <2>4 DEF UARTvprintf
<1>4. ~reading /\ UNCHANGED <<input, reading, line, lastWasCR, keys, lone, enters, lines, split>>
  BY <1>1, <1>2 DEF RInv, NotPrinting, readVars
<1>5. TypeOK'
  BY <1>1, <1>2, <1>3, <1>4 DEF RInv, TypeOK
<1>6. EntersMarked' /\ OneLinePerEnter'
  BY <1>1, <1>4 DEF RInv, EntersMarked, OneLinePerEnter
<1>7. QED
  BY <1>4, <1>5, <1>6 DEF RInv, NotPrinting, Echoed

\* A line begins on an empty screen.
LEMMA CallRInv == RInv /\ CallGets => RInv'
<1>1. SUFFICES ASSUME RInv, CallGets PROVE RInv'
  OBVIOUS
<1>2. /\ format = <<>> /\ reading' = TRUE /\ line' = <<>> /\ out' = <<>>
      /\ UNCHANGED <<format, command, width, fill, input, lastWasCR, keys, lone, enters,
                     lines, split>>
  BY <1>1 DEF CallGets, Idle, printVars
<1>3. TypeOK'
  <2>2. line' \in BoundedSeq(Letters, LineSize - 1)
    BY <1>2, Starts
  <2>3. QED
    BY <1>1, <1>2, <2>2 DEF RInv, TypeOK
<1>4. Echoed'
  <2> DEFINE S == Letters \cup {" ", BS}
  <2>1. <<>> \in Seq(S) /\ BS \in S
    BY Starts
  <2>2. Terminal(<<>>) = Blank
    BY <2>1, TerminalSteps
  <2>3. /\ Blank.cell = <<>> /\ Blank.at = 0 /\ Len(<<>>) = 0
        /\ <<>> \in Seq(Letters \cup {" "})
    BY Starts DEF Blank
  <2>4. Shows(Terminal(out), line)'
    <3>1. \A i \in 1..Len(<<>>) : FALSE
      BY <2>3
    <3>2. Terminal(out') = Blank
      BY <1>2, <2>2, Zenon
    <3>3. /\ Blank.cell \in Seq(Letters \cup {" "}) /\ Blank.at = Len(line')
          /\ Len(line') <= Len(Blank.cell) /\ \A i \in 1..Len(Blank.cell) : FALSE
      BY <1>2, <2>3, <3>1
    <3>4. QED
      BY <3>2, <3>3, Zenon DEF Shows
  <2>5. QED
    BY <1>2, <2>1, <2>4 DEF Echoed
<1>5. QED
  BY <1>1, <1>2, <1>3, <1>4 DEF RInv, NotPrinting, EntersMarked, OneLinePerEnter

\* When the first character is taken and leaves the flag as it must, the flag at
\* each of the others stays the same.
LEMMA FlagShifts ==
  ASSUME NEW cr, NEW new, NEW s \in Seq(Typed), s # <<>>, NEW t, t = Tail(s),
         new <=> s[1].char = CR \/ (cr /\ s[1].char # LF)
  PROVE  \A i \in 1..Len(s) : Flagged(new, t, i) <=> Flagged(cr, s, i + 1)
<1>1. /\ Len(s) \in Nat /\ Len(s) > 0 /\ Len(t) = Len(s) - 1
      /\ \A i \in 1..Len(t) : t[i] = s[i + 1]
  BY EmptySeq, HeadTailProperties
<1>2. SUFFICES ASSUME NEW i \in 1..Len(s)
               PROVE  Flagged(new, t, i) <=> Flagged(cr, s, i + 1)
  OBVIOUS
<1>3. /\ (i + 1) - 1 = i /\ 1 \in 1..i
      /\ \A j \in 1..(i - 1) : j \in 1..Len(t) /\ j + 1 \in 1..i
      /\ \A j \in 1..i : j # 1 => j - 1 \in 1..(i - 1) /\ (j - 1) + 1 = j
      /\ \A j \in 1..(i - 1) : \A k \in (j + 1)..(i - 1) : k \in 1..(i - 1) /\ k + 1 \in (j + 2)..i
      /\ \A j \in 2..i : \A k \in (j + 1)..i : k - 1 \in j..(i - 1) /\ k - 1 \in 1..(i - 1)
  BY <1>1
<1>4. \A j \in 1..(i - 1) : t[j] = s[j + 1]
  BY <1>1, <1>3
<1>5. \A j \in 1..i : j # 1 => s[j] = t[j - 1]
  BY <1>3, <1>4
<1>6. NoLF(s, i + 1) <=> s[1].char # LF /\ NoLF(t, i)
  <2>1. ASSUME NoLF(s, i + 1) PROVE s[1].char # LF /\ NoLF(t, i)
    BY <1>3, <1>4, <2>1 DEF NoLF
  <2>2. ASSUME s[1].char # LF, NoLF(t, i) PROVE NoLF(s, i + 1)
    BY <1>3, <1>5, <2>2 DEF NoLF
  <2>3. QED
    BY <2>1, <2>2
<1>7. AfterCR(s, i + 1) <=> AfterCR(t, i) \/ (s[1].char = CR /\ NoLF(t, i))
  <2>1. ASSUME AfterCR(t, i) PROVE AfterCR(s, i + 1)
    <3>1. PICK j \in 1..(i - 1) : /\ t[j].char = CR
                                  /\ \A k \in (j + 1)..(i - 1) : t[k].char # LF
      BY <2>1 DEF AfterCR
    <3>2. j + 1 \in 1..i /\ s[j + 1].char = CR
      BY <1>3, <1>4, <3>1
    <3>3. ASSUME NEW k \in ((j + 1) + 1)..i PROVE s[k].char # LF
      <4>1. k - 1 \in (j + 1)..(i - 1) /\ k \in 1..i /\ k # 1
        BY <1>1, <3>1, <3>3
      <4>2. QED
        BY <1>5, <3>1, <4>1
    <3>4. QED
      BY <1>3, <3>2, <3>3 DEF AfterCR
  <2>2. ASSUME s[1].char = CR, NoLF(t, i) PROVE AfterCR(s, i + 1)
    <3>1. ASSUME NEW k \in (1 + 1)..i PROVE s[k].char # LF
      <4>1. k - 1 \in 1..(i - 1) /\ k \in 1..i /\ k # 1
        BY <1>1, <3>1
      <4>2. QED
        BY <1>5, <2>2, <4>1 DEF NoLF
    <3>2. QED
      BY <1>3, <2>2, <3>1 DEF AfterCR
  <2>3. ASSUME AfterCR(s, i + 1) PROVE AfterCR(t, i) \/ (s[1].char = CR /\ NoLF(t, i))
    <3>1. PICK j \in 1..i : s[j].char = CR /\ \A k \in (j + 1)..i : s[k].char # LF
      BY <1>3, <2>3 DEF AfterCR
    <3>2. ASSUME NEW k \in 1..(i - 1), k + 1 >= j + 1 PROVE t[k].char # LF
      <4>1. k + 1 = j \/ k + 1 \in (j + 1)..i
        BY <1>1, <3>1, <3>2
      <4>2. t[k] = s[k + 1]
        BY <1>4
      <4>3. QED
        BY <3>1, <4>1, <4>2, KeysAre
    <3>3. CASE j = 1
      <4>1. \A k \in 1..(i - 1) : k + 1 >= j + 1
        BY <3>3
      <4>2. QED
        BY <3>1, <3>2, <3>3, <4>1 DEF NoLF
    <3>4. CASE j # 1
      <4>1. j - 1 \in 1..(i - 1) /\ t[j - 1].char = CR
        BY <1>3, <1>5, <3>1, <3>4
      <4>2. \A k \in ((j - 1) + 1)..(i - 1) : k \in 1..(i - 1) /\ k + 1 >= j + 1
        BY <1>1, <3>1
      <4>3. QED
        BY <3>2, <4>1, <4>2 DEF AfterCR
    <3>5. QED
      BY <3>3, <3>4
  <2>4. QED
    BY <2>1, <2>2, <2>3
<1>8. CR # LF
  BY KeysAre
<1>9. CASE s[1].char = CR
  BY <1>6, <1>7, <1>8, <1>9 DEF Flagged
<1>10. CASE s[1].char # CR
  BY <1>6, <1>7, <1>10 DEF Flagged
<1>11. QED
  BY <1>9, <1>10

\* A key taken leaves the others marked, if lastWasCR follows the characters.
LEMMA KeyTaken ==
  ASSUME EntersMarked, input # <<>>, input' = Tail(input), lone' = lone,
         ~split' => ~split,
         ~split' => (lastWasCR' <=> \/ input[1].char = CR
                                    \/ lastWasCR /\ input[1].char # LF)
  PROVE  EntersMarked'
<1>1. /\ input \in Seq(Typed) /\ Len(input) \in Nat /\ Len(input) > 0
      /\ input' \in Seq(Typed) /\ Len(input') = Len(input) - 1
      /\ \A i \in 1..Len(input') : input'[i] = input[i + 1]
  <2>1. input \in Seq(Typed)
    BY DEF EntersMarked
  <2>2. QED
    BY <2>1, EmptySeq, HeadTailProperties
<1>2. SUFFICES ASSUME ~split'
               PROVE  /\ Marked(lastWasCR', input')
                      /\ lone <=> Flagged(lastWasCR', input', Len(input') + 1)
  BY <1>1 DEF EntersMarked
<1>3. Marked(lastWasCR, input) /\ (lone <=> Flagged(lastWasCR, input, Len(input) + 1))
  BY <1>2 DEF EntersMarked
<1>4. \A i \in 1..Len(input) :
        Flagged(lastWasCR', input', i) <=> Flagged(lastWasCR, input, i + 1)
  BY <1>1, <1>2, FlagShifts
<1>5. ASSUME NEW i \in 1..Len(input')
      PROVE  input'[i].enter <=> Ending(lastWasCR', input', i)
  <2>1. i \in 1..Len(input) /\ i + 1 \in 1..Len(input) /\ input'[i] = input[i + 1]
    BY <1>1
  <2>2. Ending(lastWasCR', input', i) <=> Ending(lastWasCR, input, i + 1)
    BY <1>4, <2>1 DEF Ending
  <2>3. QED
    BY <1>3, <2>1, <2>2 DEF Marked
<1>6. Flagged(lastWasCR', input', Len(input') + 1) <=> Flagged(lastWasCR, input, Len(input) + 1)
  <2>1. Len(input') + 1 = Len(input) /\ Len(input) \in 1..Len(input)
    BY <1>1
  <2>2. QED
    BY <1>4, <2>1
<1>7. QED
  BY <1>3, <1>5, <1>6 DEF Marked
-----------------------------------------------------------------------------
(* What a key shows on the terminal.                                       *)

\* The alphabet of the echo.
Echo == Letters \cup {" ", BS}

LEMMA EchoIs ==
  /\ Letters \subseteq Echo /\ " " \in Echo /\ BS \in Echo
  /\ " " # BS /\ " " # LF /\ " " # CR /\ BS # LF
  /\ \A c \in Letters : c # BS /\ c # LF
  /\ Letters \cup {" "} \subseteq Echo
<1>1. " " # BS /\ " " # LF /\ " " # CR /\ BS # LF
  BY DEF BS, LF, CR
<1>2. QED
  BY <1>1, KeysAre DEF Echo

LEMMA ShowsIs ==
  ASSUME NEW t, NEW text \in Seq(Letters), Shows(t, text)
  PROVE  /\ t.cell \in Seq(Letters \cup {" "}) /\ Len(t.cell) \in Nat /\ Len(text) \in Nat
         /\ t.at = Len(text) /\ Len(text) <= Len(t.cell)
         /\ \A i \in 1..Len(t.cell) : t.cell[i] = IF i <= Len(text) THEN text[i] ELSE " "
         /\ \A i \in 1..Len(t.cell) : t.cell[i] \in Letters \cup {" "}
         /\ \A i \in 1..Len(text) : text[i] \in Letters
<1>1. Len(t.cell) \in Nat /\ \A i \in 1..Len(t.cell) : t.cell[i] \in Letters \cup {" "}
  BY LenProperties, ElementOfSeq DEF Shows
<1>2. Len(text) \in Nat /\ \A i \in 1..Len(text) : text[i] \in Letters
  BY LenProperties, ElementOfSeq
<1>3. QED
  BY <1>1, <1>2 DEF Shows

\* A letter that is echoed is shown behind the others.
LEMMA LetterShown ==
  ASSUME NEW t, NEW text \in Seq(Letters), Shows(t, text), NEW c \in Letters
  PROVE  Shows(Shown(t, c), Append(text, c))
<1> DEFINE n == Len(text)
           m == IF t.at < Len(t.cell) THEN Len(t.cell) ELSE t.at + 1
           s == [i \in 1..m |-> IF i = t.at + 1 THEN c ELSE t.cell[i]]
           longer == Append(text, c)
<1>1. /\ t.cell \in Seq(Letters \cup {" "}) /\ Len(t.cell) \in Nat /\ n \in Nat
      /\ t.at = n /\ n <= Len(t.cell)
      /\ \A i \in 1..Len(t.cell) : t.cell[i] = IF i <= n THEN text[i] ELSE " "
      /\ \A i \in 1..Len(t.cell) : t.cell[i] \in Letters \cup {" "}
  BY ShowsIs
<1>0. Len(t.cell) \in Nat /\ n \in Nat /\ t.at = n /\ n <= Len(t.cell)
  BY <1>1
<1>2. c # BS
  BY EchoIs
<1>3. Shown(t, c) = [cell |-> s, at |-> t.at + 1]
  BY <1>2, Zenon DEF Shown
<1>4. /\ longer \in Seq(Letters) /\ Len(longer) = n + 1 /\ longer[n + 1] = c
      /\ \A i \in 1..n : longer[i] = text[i]
  BY AppendProperties
<1> HIDE DEF n, longer
<1>5. m \in Nat /\ n + 1 <= m /\ \A i \in 1..m : i # n + 1 => i \in 1..Len(t.cell)
  BY <1>0
<1>6. s \in [1..m -> Letters \cup {" "}] /\ \A i \in 1..m : s[i] = IF i = n + 1 THEN c ELSE t.cell[i]
  BY <1>1, <1>5
<1> HIDE DEF m, s
<1>7. s \in Seq(Letters \cup {" "}) /\ Len(s) = m
  BY <1>5, <1>6, ListIsSeq
<1>8. ASSUME NEW i \in 1..m PROVE s[i] = IF i <= n + 1 THEN longer[i] ELSE " "
  <2>1. CASE i = n + 1
    <3>1. i <= n + 1
      BY <1>0, <2>1
    <3>2. QED
      BY <1>4, <1>6, <2>1, <3>1
  <2>2. CASE i # n + 1
    <3>1. s[i] = t.cell[i] /\ i \in 1..Len(t.cell)
      BY <1>5, <1>6, <2>2
    <3>2. CASE i <= n
      <4>1. i \in 1..n /\ i <= n + 1
        BY <1>0, <3>2
      <4>2. QED
        BY <1>1, <1>4, <3>1, <3>2, <4>1
    <3>3. CASE ~(i <= n)
      <4>1. ~(i <= n + 1)
        BY <1>0, <2>2, <3>3
      <4>2. QED
        BY <1>1, <3>1, <3>3, <4>1
    <3>4. QED
      BY <3>2, <3>3
  <2>3. QED
    BY <2>1, <2>2
<1>9. QED
  <2> DEFINE u == Shown(t, c)
  <2>1. u.cell = s /\ u.at = n + 1
    BY <1>0, <1>3
  <2>2. QED
    BY <1>4, <1>5, <1>7, <1>8, <2>1 DEF Shows, longer

\* A line without its last letter.
LEMMA FrontIs ==
  ASSUME NEW S, NEW s \in Seq(S), s # <<>>
  PROVE  /\ Len(s) \in Nat /\ Len(s) > 0
         /\ Front(s) \in Seq(S) /\ Len(Front(s)) = Len(s) - 1
         /\ \A i \in 1..(Len(s) - 1) : Front(s)[i] = s[i]
<1> DEFINE n == Len(s)
<1>1. n \in Nat /\ n > 0 /\ \A i \in 1..n : s[i] \in S
  BY LenProperties, ElementOfSeq, EmptySeq
<1>2. Front(s) = SubSeq(s, 1, n - 1)
  BY DEF Front
<1> HIDE DEF n
<1>3. \A i \in 1..(n - 1) : s[i] \in S
  BY <1>1
<1>4. /\ SubSeq(s, 1, n - 1) \in Seq(S)
      /\ Len(SubSeq(s, 1, n - 1)) = IF 1 <= n - 1 THEN (n - 1) - 1 + 1 ELSE 0
      /\ \A i \in 1..((n - 1) - 1 + 1) : SubSeq(s, 1, n - 1)[i] = s[1 + i - 1]
  BY <1>1, <1>3, SubSeqProperties
<1>5. \A i \in 1..(n - 1) : i \in 1..((n - 1) - 1 + 1) /\ 1 + i - 1 = i
  BY <1>1
<1>6. (IF 1 <= n - 1 THEN (n - 1) - 1 + 1 ELSE 0) = n - 1
  BY <1>1
<1>7. QED
  BY <1>1, <1>2, <1>4, <1>5, <1>6 DEF n

\* A backspace, a blank and a backspace erase the last letter.
LEMMA LetterErased ==
  ASSUME NEW t, NEW text \in Seq(Letters), Shows(t, text), text # <<>>
  PROVE  Shows(Shown(Shown(Shown(t, BS), " "), BS), Front(text))
<1> DEFINE n == Len(text)
           m == Len(t.cell)
           s == [i \in 1..m |-> IF i = n THEN " " ELSE t.cell[i]]
<1>1. /\ t.cell \in Seq(Letters \cup {" "}) /\ m \in Nat /\ n \in Nat
      /\ t.at = n /\ n <= m
      /\ \A i \in 1..m : t.cell[i] = IF i <= n THEN text[i] ELSE " "
      /\ \A i \in 1..m : t.cell[i] \in Letters \cup {" "}
  BY ShowsIs
<1>0. m \in Nat /\ n \in Nat /\ t.at = n /\ n <= m
  BY <1>1
<1>2. n > 0
  BY <1>0, EmptySeq
<1>3. /\ Front(text) \in Seq(Letters) /\ Len(Front(text)) = n - 1
      /\ \A i \in 1..(n - 1) : Front(text)[i] = text[i]
  BY FrontIs
<1>4. " " # BS
  BY EchoIs
<1>5. Shown(t, BS) = [t EXCEPT !.at = t.at - 1]
  BY DEF Shown
<1>6. Shown(t, BS).cell = t.cell /\ Shown(t, BS).at = n - 1
  BY <1>0, <1>5
<1> HIDE DEF n, m, s
<1>7. Shown(Shown(t, BS), " ") = [cell |-> s, at |-> n]
  <2> DEFINE u == Shown(t, BS)
  <2>1. u.cell = t.cell /\ u.at = n - 1
    BY <1>6
  <2> HIDE DEF u
  <2>2. /\ u.at < Len(u.cell) /\ Len(u.cell) = m /\ u.at + 1 = n
    BY <1>0, <1>2, <2>1 DEF m
  <2>3. Shown(u, " ") = [cell |-> [i \in 1..m |-> IF i = n THEN " " ELSE t.cell[i]], at |-> n]
    BY <1>4, <2>1, <2>2, Zenon DEF Shown
  <2>4. QED
    BY <2>3 DEF u, s
<1>8. Shown(Shown(Shown(t, BS), " "), BS) = [cell |-> s, at |-> n - 1]
  BY <1>7 DEF Shown
<1>9. s \in Seq(Letters \cup {" "}) /\ Len(s) = m
  <2>1. s \in [1..m -> Letters \cup {" "}]
    BY <1>1 DEF s
  <2>2. QED
    BY <1>1, <2>1, ListIsSeq
<1>10. ASSUME NEW i \in 1..m PROVE s[i] = IF i <= n - 1 THEN Front(text)[i] ELSE " "
  <2>1. s[i] = IF i = n THEN " " ELSE t.cell[i]
    BY DEF s
  <2>2. CASE i <= n - 1
    <3>1. i # n /\ i <= n /\ i \in 1..(n - 1)
      BY <1>0, <2>2
    <3>2. QED
      BY <1>1, <1>3, <2>1, <2>2, <3>1
  <2>3. CASE ~(i <= n - 1)
    <3>1. i = n \/ ~(i <= n)
      BY <1>0, <2>3
    <3>2. QED
      BY <1>1, <2>1, <2>3, <3>1
  <2>4. QED
    BY <2>2, <2>3
<1>11. n - 1 <= m
  BY <1>0
<1>12. QED
  <2> DEFINE u == Shown(Shown(Shown(t, BS), " "), BS)
  <2>0. u = [cell |-> s, at |-> n - 1]
    BY <1>8
  <2> HIDE DEF u
  <2>1. u.cell = s /\ u.at = n - 1
    BY <2>0
  <2>2. Shows(u, Front(text))
    BY <1>3, <1>9, <1>10, <1>11, <2>1 DEF Shows
  <2>3. QED
    BY <2>2 DEF u
-----------------------------------------------------------------------------
(* What each handler of a key keeps.                                       *)

\* What RInv says of the key that is read, and of those after it.
LEMMA KeyRead ==
  ASSUME RInv, NEW c, NextChar(c)
  PROVE  /\ reading /\ format = <<>> /\ input # <<>> /\ input' = Tail(input)
         /\ input[1].char = c /\ enters' \in Nat
         /\ ~split => enters' = enters + (IF c = CR \/ (c = LF /\ ~lastWasCR) THEN 1 ELSE 0)
         /\ line \in Seq(Letters) /\ Len(line) <= LineSize - 1
         /\ out \in Seq(Echo) /\ Shows(Terminal(out), line)
<1>1. /\ reading /\ input # <<>> /\ c = Head(input).char /\ input' = Tail(input)
      /\ enters' = enters + (IF Head(input).enter THEN 1 ELSE 0)
  BY DEF NextChar
<1>2. input \in Seq(Typed) /\ enters \in Nat
  BY DEF RInv, EntersMarked, TypeOK
<1>3. Head(input) = input[1] /\ 1 \in 1..Len(input)
  BY <1>1, <1>2, EmptySeq
<1>4. line \in Seq(Letters) /\ Len(line) <= LineSize - 1
  BY BoundedSeqIs, KeysAre DEF RInv, TypeOK
<1>5. enters' \in Nat
  BY <1>1, <1>2
<1>6. ~split => (input[1].enter <=> c = CR \/ (c = LF /\ ~lastWasCR))
  <2>1. SUFFICES ASSUME ~split
                 PROVE  input[1].enter <=> c = CR \/ (c = LF /\ ~lastWasCR)
    OBVIOUS
  <2>2. input[1].enter <=> Ending(lastWasCR, input, 1)
    BY <1>3, <2>1 DEF RInv, EntersMarked, Marked
  <2>3. Flagged(lastWasCR, input, 1) <=> lastWasCR
    BY FlagFirst
  <2>4. QED
    BY <1>1, <1>3, <2>2, <2>3 DEF Ending
<1>7. QED
  BY <1>1, <1>3, <1>4, <1>5, <1>6 DEF RInv, TypeOK, NotPrinting, Echoed, Echo

\* A key that ends no line leaves the lines in step with the Enters.
LEMMA NoEnterRead ==
  ASSUME RInv, NEW c, NextChar(c), ~(c = CR \/ (c = LF /\ ~lastWasCR)),
         UNCHANGED <<split, lines>>
  PROVE  OneLinePerEnter'
<1>1. enters \in Nat
  BY DEF RInv, TypeOK
<1>2. ~split => enters' = enters + (IF c = CR \/ (c = LF /\ ~lastWasCR) THEN 1 ELSE 0)
  BY KeyRead
<1>3. QED
  BY <1>1, <1>2 DEF RInv, OneLinePerEnter

LEMMA SeqWider ==
  ASSUME NEW S, NEW T, S \subseteq T, NEW s \in Seq(S)
  PROVE  s \in Seq(T)
<1>1. Len(s) \in Nat /\ s \in [1..Len(s) -> S]
  BY LenProperties
<1>2. s \in [1..Len(s) -> T]
  BY <1>1
<1>3. QED
  BY <1>1, <1>2, ListIsSeq

LEMMA AppendTyped == \A S : \A s \in Seq(S), x \in S : Append(s, x) \in Seq(S)
OBVIOUS

AppendsThree(s, a, b, c) == Append(Append(Append(s, a), b), c) = s \o <<a, b, c>>

LEMMA ThreeAppended ==
  ASSUME NEW S, NEW s \in Seq(S), NEW a \in S, NEW b \in S, NEW c \in S
  PROVE  AppendsThree(s, a, b, c)
<1> DEFINE u == Append(Append(Append(s, a), b), c)
           v == s \o <<a, b, c>>
<1>1. <<a, b, c>> \in Seq(S) /\ Len(<<a, b, c>>) = 3
  OBVIOUS
<1>2. u \in Seq(S) /\ Len(u) = Len(s) + 3 /\ Len(s) \in Nat
  OBVIOUS
<1>3. v \in Seq(S) /\ Len(v) = Len(s) + 3
  BY <1>1, ConcatProperties
<1>4. ASSUME NEW i \in 1..Len(u) PROVE u[i] = v[i]
  BY <1>2
<1> HIDE DEF u, v
<1>5. QED
  <2>1. u = v
    BY <1>2, <1>3, <1>4, SeqEqual
  <2>2. QED
    BY <2>1 DEF u, v, AppendsThree

LEMMA BackspaceRInv == RInv /\ Backspace => RInv'
<1>1. SUFFICES ASSUME RInv, Backspace PROVE RInv'
  OBVIOUS
<1>2. /\ NextChar(BS)
      /\ UNCHANGED <<format, command, width, fill, reading, lastWasCR, keys, lone, lines, split>>
  BY <1>1 DEF Backspace, printVars
<1>3. /\ reading /\ format = <<>> /\ input # <<>> /\ input' = Tail(input)
      /\ input[1].char = BS /\ enters' \in Nat
      /\ line \in Seq(Letters) /\ Len(line) <= LineSize - 1
      /\ out \in Seq(Echo) /\ Shows(Terminal(out), line)
  BY <1>1, <1>2, KeyRead
<1>4. EntersMarked' /\ OneLinePerEnter'
  <2>1. BS # CR /\ BS # LF
    BY KeysAre
  <2>2. lastWasCR' <=> input[1].char = CR \/ (lastWasCR /\ input[1].char # LF)
    BY <1>2, <1>3, <2>1
  <2>3. EntersMarked'
    BY <1>1, <1>2, <1>3, <2>2, KeyTaken DEF RInv
  <2>4. QED
    BY <1>1, <1>2, <2>1, <2>3, NoEnterRead
<1>5. line' \in Seq(Letters) /\ Len(line') <= LineSize - 1
      /\ out' \in Seq(Echo) /\ Shows(Terminal(out'), line')
  <2>1. CASE line = <<>>
    BY <1>1, <1>3, <2>1 DEF Backspace
  <2>2. CASE line # <<>>
    <3> DEFINE one == Append(out, BS)
               two == Append(one, " ")
               three == Append(two, BS)
    <3>1. line' = Front(line) /\ out' = out \o Written(<<BS, " ", BS>>)
      BY <1>1, <2>2 DEF Backspace
    <3>2. Written(<<BS, " ", BS>>) = <<BS, " ", BS>>
      <4> DEFINE e == <<BS, " ", BS>>
      <4>1. e \in Seq(Echo)
        BY EchoIs, Shorts, Zenon
      <4>2. \A i \in 1..Len(e) : e[i] # LF
        <5>1. Len(e) = 3 /\ e[1] = BS /\ e[2] = " " /\ e[3] = BS
          OBVIOUS
        <5>2. \A i \in 1..3 : i = 1 \/ i = 2 \/ i = 3
          OBVIOUS
        <5>3. QED
          BY <5>1, <5>2, EchoIs
      <4> HIDE DEF e
      <4>3. Written(e) = e
        BY <4>1, <4>2, WrittenPlain
      <4>4. QED
        BY <4>3 DEF e
    <3>3. /\ one \in Seq(Echo) /\ two \in Seq(Echo) /\ three \in Seq(Echo)
          /\ three = out \o <<BS, " ", BS>>
      <4>0. out \in Seq(Echo) /\ BS \in Echo /\ " " \in Echo
        BY <1>3, EchoIs
      <4>1. one \in Seq(Echo) /\ two \in Seq(Echo) /\ three \in Seq(Echo)
        BY <4>0, AppendTyped
      <4>2. three = out \o <<BS, " ", BS>>
        <5>1. AppendsThree(out, BS, " ", BS)
          BY <4>0, ThreeAppended, Zenon
        <5>2. QED
          BY <5>1 DEF AppendsThree
      <4>3. QED
        BY <4>1, <4>2
    <3>4. /\ Terminal(one) = Shown(Terminal(out), BS)
          /\ Terminal(two) = Shown(Terminal(one), " ")
          /\ Terminal(three) = Shown(Terminal(two), BS)
      BY <1>3, <3>3, EchoIs, TerminalSteps
    <3>5. Shows(Terminal(three), Front(line))
      BY <1>3, <2>2, <3>4, LetterErased
    <3>6. Front(line) \in Seq(Letters) /\ Len(Front(line)) <= LineSize - 1
      <4>1. Len(line) \in Nat /\ Front(line) \in Seq(Letters) /\ Len(Front(line)) = Len(line) - 1
        BY <1>3, <2>2, FrontIs
      <4>2. \A k \in Nat, l \in Nat : k <= l => k - 1 <= l
        OBVIOUS
      <4>3. QED
        BY <1>3, <4>1, <4>2, KeysAre
    <3>7. QED
      BY <3>1, <3>2, <3>3, <3>5, <3>6
  <2>3. QED
    BY <2>1, <2>2
<1>6. TypeOK'
  <2>1. line' \in BoundedSeq(Letters, LineSize - 1)
    BY <1>5, BoundedSeqIs, KeysAre
  <2>2. QED
    BY <1>1, <1>2, <1>3, <2>1 DEF RInv, TypeOK
<1>7. QED
  BY <1>1, <1>2, <1>4, <1>5, <1>6 DEF RInv, NotPrinting, Echoed, Echo

\* The LF behind a CR is no Enter of its own.
LEMMA SkipRInv == RInv /\ SkipLF => RInv'
<1>1. SUFFICES ASSUME RInv, SkipLF PROVE RInv'
  OBVIOUS
<1>2. /\ NextChar(LF) /\ lastWasCR /\ lastWasCR' = FALSE
      /\ UNCHANGED <<format, command, width, fill, reading, line, keys, lone, lines, split, out>>
  BY <1>1 DEF SkipLF, printVars
<1>3. /\ reading /\ format = <<>> /\ input # <<>> /\ input' = Tail(input)
      /\ input[1].char = LF /\ enters' \in Nat
  BY <1>1, <1>2, KeyRead
<1>4. EntersMarked' /\ OneLinePerEnter'
  <2>1. LF # CR
    BY KeysAre
  <2>2. lastWasCR' <=> input[1].char = CR \/ (lastWasCR /\ input[1].char # LF)
    BY <1>2, <1>3, <2>1
  <2>3. EntersMarked'
    BY <1>1, <1>2, <1>3, <2>2, KeyTaken DEF RInv
  <2>4. QED
    BY <1>1, <1>2, <2>1, <2>3, NoEnterRead
<1>5. TypeOK'
  BY <1>1, <1>2, <1>3 DEF RInv, TypeOK
<1>6. Echoed'
  BY <1>1, <1>2 DEF RInv, Echoed
<1>7. QED
  BY <1>1, <1>2, <1>4, <1>5, <1>6 DEF RInv, NotPrinting

\* The first character of an Enter ends the line; the LF behind a CR is skipped.
LEMMA EndRInv == RInv /\ EndLine => RInv'
<1>1. SUFFICES ASSUME RInv, EndLine PROVE RInv'
  OBVIOUS
<1>2. PICK c \in Ends : /\ NextChar(c) /\ ~(c = LF /\ lastWasCR)
                        /\ lastWasCR' = (lastWasCR \/ c = CR)
                        /\ lines' = lines + (IF c = ESC THEN 0 ELSE 1)
  BY <1>1 DEF EndLine
<1>3. /\ reading' = FALSE /\ line' = <<>>
      /\ UNCHANGED <<format, command, width, fill, keys, lone, split>>
  BY <1>1 DEF EndLine, printVars
<1>4. /\ format = <<>> /\ input # <<>> /\ input' = Tail(input)
      /\ input[1].char = c /\ enters' \in Nat
      /\ ~split => enters' = enters + (IF c = CR \/ (c = LF /\ ~lastWasCR) THEN 1 ELSE 0)
  BY <1>1, <1>2, KeyRead
<1>5. /\ c = CR \/ c = LF \/ c = ESC
      /\ CR # LF /\ CR # ESC /\ LF # ESC
  BY KeysAre
<1>6. lastWasCR' <=> input[1].char = CR \/ (lastWasCR /\ input[1].char # LF)
  BY <1>2, <1>4, <1>5
<1>7. EntersMarked'
  BY <1>1, <1>3, <1>4, <1>6, KeyTaken DEF RInv
<1>8. lines \in Nat /\ enters \in Nat /\ lastWasCR \in BOOLEAN
  BY <1>1 DEF RInv, TypeOK
<1>9. OneLinePerEnter'
  <2>1. c # ESC <=> c = CR \/ (c = LF /\ ~lastWasCR)
    BY <1>2, <1>5
  <2>2. ~split => lines = enters
    BY <1>1 DEF RInv, OneLinePerEnter
  <2>3. QED
    BY <1>2, <1>3, <1>4, <1>8, <2>1, <2>2 DEF OneLinePerEnter
<1>10. TypeOK'
  <2>1. lines' \in Nat
    BY <1>2, <1>8
  <2>2. lastWasCR' \in BOOLEAN
    BY <1>2, <1>8
  <2>3. line' \in BoundedSeq(Letters, LineSize - 1)
    BY <1>3, Starts
  <2>4. QED
    BY <1>1, <1>3, <1>4, <2>1, <2>2, <2>3 DEF RInv, TypeOK
<1>11. QED
  BY <1>3, <1>7, <1>9, <1>10 DEF RInv, NotPrinting, Echoed

LEMMA StoreRInv == RInv /\ StoreKey => RInv'
<1>1. SUFFICES ASSUME RInv, StoreKey PROVE RInv'
  OBVIOUS
<1>2. PICK c \in Letters :
        /\ NextChar(c)
        /\ IF Len(line) < LineSize - 1
           THEN line' = Append(line, c) /\ out' = Append(out, c)
           ELSE UNCHANGED <<line, out>>
  BY <1>1 DEF StoreKey
<1>3. UNCHANGED <<format, command, width, fill, reading, lastWasCR, keys, lone, lines, split>>
  BY <1>1 DEF StoreKey, printVars
<1>4. /\ reading /\ format = <<>> /\ input # <<>> /\ input' = Tail(input)
      /\ input[1].char = c /\ enters' \in Nat
      /\ line \in Seq(Letters) /\ Len(line) <= LineSize - 1
      /\ out \in Seq(Echo) /\ Shows(Terminal(out), line)
  BY <1>1, <1>2, KeyRead
<1>5. EntersMarked' /\ OneLinePerEnter'
  <2>1. c # CR /\ c # LF
    BY <1>2, KeysAre
  <2>2. lastWasCR' <=> input[1].char = CR \/ (lastWasCR /\ input[1].char # LF)
    BY <1>3, <1>4, <2>1
  <2>3. EntersMarked'
    BY <1>1, <1>3, <1>4, <2>2, KeyTaken DEF RInv
  <2>4. QED
    BY <1>1, <1>2, <1>3, <2>1, <2>3, NoEnterRead
<1>6. line' \in Seq(Letters) /\ Len(line') <= LineSize - 1
      /\ out' \in Seq(Echo) /\ Shows(Terminal(out'), line')
  <2>1. CASE ~(Len(line) < LineSize - 1)
    BY <1>2, <1>4, <2>1
  <2>2. CASE Len(line) < LineSize - 1
    <3>1. line' = Append(line, c) /\ out' = Append(out, c)
      BY <1>2, <2>2
    <3>2. c \in Echo /\ line \in Seq(Letters) /\ out \in Seq(Echo)
      BY <1>4, EchoIs
    <3>3. Append(line, c) \in Seq(Letters) /\ Append(out, c) \in Seq(Echo)
      BY <3>2, AppendTyped
    <3>4. Len(Append(line, c)) = Len(line) + 1 /\ Len(line) \in Nat
      BY <3>2, AppendProperties
    <3>5. Len(line) + 1 <= LineSize - 1
      <4>1. \A k \in Nat, l \in Nat : k < l => k + 1 <= l
        OBVIOUS
      <4>2. QED
        BY <2>2, <3>4, <4>1, KeysAre
    <3>6. Terminal(Append(out, c)) = Shown(Terminal(out), c)
      BY <3>2, TerminalSteps
    <3>7. Shows(Shown(Terminal(out), c), Append(line, c))
      BY <1>4, LetterShown
    <3>8. QED
      BY <3>1, <3>3, <3>4, <3>5, <3>6, <3>7
  <2>3. QED
    BY <2>1, <2>2
<1>7. TypeOK'
  <2>1. line' \in BoundedSeq(Letters, LineSize - 1)
    BY <1>6, BoundedSeqIs, KeysAre
  <2>2. QED
    BY <1>1, <1>3, <1>4, <2>1 DEF RInv, TypeOK
<1>8. QED
  BY <1>1, <1>3, <1>5, <1>6, <1>7 DEF RInv, NotPrinting, Echoed, Echo

\* UARTgetc knows nothing of lastWasCR: what it takes of an Enter splits it.
LEMMA GetcRInv == RInv /\ UARTgetc => RInv'
<1>1. SUFFICES ASSUME RInv, UARTgetc PROVE RInv'
  OBVIOUS
<1>2. /\ ~reading /\ input # <<>> /\ input' = Tail(input)
      /\ split' = (split \/ Head(input).char \in {CR, LF})
      /\ UNCHANGED <<format, command, width, fill, reading, line, lastWasCR, keys, lone,
                     enters, lines, out>>
  BY <1>1 DEF UARTgetc, Idle, printVars
<1>3. EntersMarked /\ split \in BOOLEAN
  BY <1>1 DEF RInv, TypeOK
<1>4. Head(input) = input[1]
  <2>1. input \in Seq(Typed)
    BY <1>3 DEF EntersMarked
  <2>2. QED
    BY <1>2, <2>1, EmptySeq
<1>5. ~split' => ~split /\ input[1].char # CR /\ input[1].char # LF
  BY <1>2, <1>4
<1>6. EntersMarked'
  BY <1>2, <1>3, <1>5, KeyTaken
<1>7. TypeOK'
  BY <1>1, <1>2, <1>3 DEF RInv, TypeOK
<1>8. OneLinePerEnter'
  BY <1>1, <1>2, <1>5 DEF RInv, OneLinePerEnter
<1>9. QED
  BY <1>1, <1>2, <1>6, <1>7, <1>8 DEF RInv, NotPrinting, Echoed

\* A character typed behind those that are marked, marked as it must be.
LEMMA CharTyped ==
  ASSUME NEW cr, NEW s \in Seq(Typed), Marked(cr, s), NEW x \in Typed,
         x.enter <=> \/ x.char = CR
                     \/ x.char = LF /\ ~Flagged(cr, s, Len(s) + 1),
         NEW t, t = Append(s, x)
  PROVE  /\ t \in Seq(Typed) /\ Len(t) = Len(s) + 1 /\ Marked(cr, t)
         /\ Flagged(cr, t, Len(t) + 1)
              <=> x.char = CR \/ (Flagged(cr, s, Len(s) + 1) /\ x.char # LF)
<1> DEFINE n == Len(s)
<1>1. /\ n \in Nat /\ t \in Seq(Typed) /\ Len(t) = n + 1 /\ t[n + 1] = x
      /\ \A j \in 1..n : t[j] = s[j]
  BY AppendProperties
<1> HIDE DEF n
<1>2. ASSUME NEW i \in 1..(n + 1) PROVE Flagged(cr, t, i) <=> Flagged(cr, s, i)
  <2>1. i \in Nat /\ \A j \in 1..(i - 1) : j \in 1..n
    BY <1>1
  <2>2. \A j \in 1..(i - 1) : t[j] = s[j]
    BY <1>1, <2>1
  <2>3. QED
    BY <2>1, <2>2, FlagKept
<1>3. n + 1 \in 1..(n + 1) /\ n + 1 \in Nat /\ n + 1 > 0
  BY <1>1
<1>4. Flagged(cr, t, n + 1) <=> Flagged(cr, s, n + 1)
  BY <1>2, <1>3
<1>5. Flagged(cr, t, (n + 1) + 1)
        <=> t[n + 1].char = CR \/ (Flagged(cr, t, n + 1) /\ t[n + 1].char # LF)
  BY <1>3, FlagNext
<1>6. ASSUME NEW i \in 1..Len(t) PROVE t[i].enter <=> Ending(cr, t, i)
  <2>1. CASE i = n + 1
    BY <1>1, <1>4, <2>1 DEF Ending, n
  <2>2. CASE i # n + 1
    <3>1. i \in 1..n /\ i \in 1..(n + 1)
      BY <1>1, <2>2
    <3>2. t[i] = s[i] /\ (Flagged(cr, t, i) <=> Flagged(cr, s, i))
      BY <1>1, <1>2, <3>1
    <3>3. s[i].enter <=> Ending(cr, s, i)
      BY <3>1 DEF Marked, n
    <3>4. QED
      BY <3>2, <3>3 DEF Ending
  <2>3. QED
    BY <2>1, <2>2
<1>7. Marked(cr, t)
  BY <1>6 DEF Marked
<1>8. QED
  BY <1>1, <1>4, <1>5, <1>7 DEF n

\* A character as it is typed.
Char(c, enter) == [char |-> c, enter |-> enter]

LEMMA CharIs ==
  ASSUME NEW c \in Keys, NEW enter \in BOOLEAN
  PROVE  Char(c, enter) \in Typed /\ Char(c, enter).char = c
BY DEF Char, Typed, Keys

\* What Enter types, character by character.
LEMMA SentIs ==
  ASSUME NEW k \in Newlines, NEW alone
  PROVE  /\ k = <<CR>> => Sent(k, alone) = <<Char(CR, TRUE)>>
         /\ k = <<LF>> => Sent(k, alone) = <<Char(LF, ~alone)>>
         /\ k = <<CR, LF>> => Sent(k, alone) = <<Char(CR, TRUE), Char(LF, FALSE)>>
<1> DEFINE e(i) == [char |-> k[i], enter |-> i = 1 /\ ~(alone /\ k = <<LF>>)]
<1>1. /\ Len(<<CR>>) = 1 /\ <<CR>>[1] = CR /\ <<CR>> # <<LF>>
      /\ Len(<<LF>>) = 1 /\ <<LF>>[1] = LF
      /\ Len(<<CR, LF>>) = 2 /\ <<CR, LF>>[1] = CR /\ <<CR, LF>>[2] = LF
      /\ <<CR, LF>> # <<LF>>
  BY KeysAre
<1>2. Sent(k, alone) = [i \in 1..Len(k) |-> e(i)]
  BY DEF Sent
<1>3. k = <<CR>> => Len(k) = 1 /\ e(1) = Char(CR, TRUE)
  BY <1>1 DEF Char
<1>4. k = <<LF>> => Len(k) = 1 /\ e(1) = Char(LF, ~alone)
  BY <1>1 DEF Char
<1>5. k = <<CR, LF>> => Len(k) = 2 /\ e(1) = Char(CR, TRUE) /\ e(2) = Char(LF, FALSE)
  BY <1>1 DEF Char
<1> HIDE DEF e
<1>6. Len(k) = 1 => [i \in 1..Len(k) |-> e(i)] = <<e(1)>>
  <2>1. \A i \in 1..1 : i = 1
    OBVIOUS
  <2>2. [i \in 1..1 |-> e(i)] = <<e(1)>>
    BY <2>1
  <2>3. QED
    BY <2>2
<1>7. Len(k) = 2 => [i \in 1..Len(k) |-> e(i)] = <<e(1), e(2)>>
  <2>1. \A i \in 1..2 : i = 1 \/ i = 2
    OBVIOUS
  <2>2. [i \in 1..2 |-> e(i)] = <<e(1), e(2)>>
    BY <2>1
  <2>3. QED
    BY <2>2
<1>8. CASE k = <<CR>>
  BY <1>1, <1>2, <1>3, <1>6, <1>8, KeysAre, Zenon
<1>9. CASE k = <<LF>>
  BY <1>1, <1>2, <1>4, <1>6, <1>9, Zenon
<1>10. CASE k = <<CR, LF>>
  BY <1>1, <1>2, <1>5, <1>7, <1>10, Zenon
<1>11. QED
  BY <1>8, <1>9, <1>10

\* Enter types one character or two behind the others.
LEMMA EnterIs ==
  ASSUME NEW s \in Seq(Typed), NEW k \in Newlines, NEW alone \in BOOLEAN
  PROVE  /\ k = <<CR>> => s \o Sent(k, alone) = Append(s, Char(CR, TRUE))
         /\ k = <<LF>> => s \o Sent(k, alone) = Append(s, Char(LF, ~alone))
         /\ k = <<CR, LF>> =>
              s \o Sent(k, alone) = Append(Append(s, Char(CR, TRUE)), Char(LF, FALSE))
<1>1. \A enter \in BOOLEAN : Char(CR, enter) \in Typed /\ Char(LF, enter) \in Typed
  BY CharIs DEF Keys, Ends
<1>2. \A x \in Typed : Append(s, x) = s \o <<x>>
  BY AppendIsConcat
<1>3. \A x \in Typed, y \in Typed : Append(Append(s, x), y) = s \o <<x, y>>
  OBVIOUS
<1>4. (~alone) \in BOOLEAN
  OBVIOUS
<1>5. k = <<CR>> => s \o Sent(k, alone) = Append(s, Char(CR, TRUE))
  BY <1>1, <1>2, SentIs, Zenon
<1>6. k = <<LF>> => s \o Sent(k, alone) = Append(s, Char(LF, ~alone))
  BY <1>1, <1>2, <1>4, SentIs, Zenon
<1>7. k = <<CR, LF>> =>
        s \o Sent(k, alone) = Append(Append(s, Char(CR, TRUE)), Char(LF, FALSE))
  <2>1. Char(CR, TRUE) \in Typed /\ Char(LF, FALSE) \in Typed
    BY <1>1
  <2>2. Append(Append(s, Char(CR, TRUE)), Char(LF, FALSE)) = s \o <<Char(CR, TRUE), Char(LF, FALSE)>>
    BY <1>3, <2>1, Zenon
  <2>3. k = <<CR, LF>> => Sent(k, alone) = <<Char(CR, TRUE), Char(LF, FALSE)>>
    BY SentIs, Zenon
  <2>4. QED
    BY <2>2, <2>3, Zenon
<1>8. QED
  BY <1>5, <1>6, <1>7

LEMMA KeyCounted ==
  ASSUME RInv, keys < MaxKeys, keys' = keys + 1
  PROVE  keys' \in 0..MaxKeys
<1>1. keys \in 0..MaxKeys /\ MaxKeys \in Nat
  BY KeysAre DEF RInv, TypeOK
<1>2. QED
  BY <1>1

\* Whatever key is pressed, its characters are marked as they must be.
LEMMA PressRInv == RInv /\ (PressKey \/ PressEnter) => RInv'
<1>1. SUFFICES ASSUME RInv, PressKey \/ PressEnter PROVE RInv'
  OBVIOUS
<1>2. /\ keys < MaxKeys /\ keys' = keys + 1
      /\ UNCHANGED <<format, command, width, fill, reading, line, lastWasCR, enters, lines,
                     split, out>>
  BY <1>1 DEF PressKey, PressEnter, Press, printVars
<1>3. EntersMarked /\ input \in Seq(Typed) /\ lone \in BOOLEAN
  BY <1>1 DEF RInv, TypeOK, EntersMarked
<1>4. /\ CR \in Keys /\ LF \in Keys /\ BS \in Keys /\ ESC \in Keys /\ CR # LF
      /\ \A c \in Letters \cup {BS, ESC} : c \in Keys /\ c # CR /\ c # LF
  BY KeysAre DEF Keys
<1>5. ~split => /\ Marked(lastWasCR, input)
                /\ lone <=> Flagged(lastWasCR, input, Len(input) + 1)
  BY <1>3 DEF EntersMarked
<1>6. CASE PressKey
  <2>1. PICK c \in Letters \cup {BS, ESC} : input' = Append(input, Char(c, FALSE))
    BY <1>6 DEF PressKey, Char
  <2>2. /\ Char(c, FALSE) \in Typed /\ Char(c, FALSE).char = c /\ ~Char(c, FALSE).enter
        /\ c # CR /\ c # LF
    BY <1>4, CharIs DEF Char
  <2>3. lone' = lone
    BY <1>6 DEF PressKey
  <2>4. input' \in Seq(Typed)
    BY <1>3, <2>1, <2>2, AppendTyped
  <2>5. ASSUME ~split
        PROVE  /\ Marked(lastWasCR, input')
               /\ lone <=> Flagged(lastWasCR, input', Len(input') + 1)
    <3>1. /\ Marked(lastWasCR, input')
          /\ Flagged(lastWasCR, input', Len(input') + 1)
               <=> c = CR \/ (Flagged(lastWasCR, input, Len(input) + 1) /\ c # LF)
      BY <1>3, <1>5, <2>1, <2>2, <2>5, CharTyped
    <3>2. QED
      BY <1>5, <2>2, <2>5, <3>1
  <2>6. EntersMarked'
    BY <1>2, <2>3, <2>4, <2>5 DEF EntersMarked
  <2>7. lone' \in BOOLEAN
    BY <1>3, <2>3
  <2>8. QED
    BY <1>1, <1>2, <2>6, <2>7, KeyCounted DEF RInv, TypeOK, NotPrinting, Echoed, OneLinePerEnter
<1>7. CASE PressEnter
  <2>1. PICK k \in Newlines :
          /\ lone' = (k = <<CR>>)
          /\ input' = input \o Sent(k, lone)
    BY <1>7 DEF PressEnter
  <2>2. /\ k = <<CR>> => input' = Append(input, Char(CR, TRUE))
        /\ k = <<LF>> => input' = Append(input, Char(LF, ~lone))
        /\ k = <<CR, LF>> => input' = Append(Append(input, Char(CR, TRUE)), Char(LF, FALSE))
    BY <1>3, <2>1, EnterIs
  <2>3. \A enter \in BOOLEAN :
          /\ Char(CR, enter) \in Typed /\ Char(CR, enter).char = CR
          /\ Char(LF, enter) \in Typed /\ Char(LF, enter).char = LF
          /\ Char(CR, enter).enter = enter /\ Char(LF, enter).enter = enter
    BY <1>4, CharIs DEF Char
  <2>4. <<CR>> # <<LF>> /\ <<CR>> # <<CR, LF>>
    BY <1>4
  <2>5. ASSUME k = <<CR>> PROVE EntersMarked'
    <3>1. input' = Append(input, Char(CR, TRUE)) /\ lone'
      BY <2>1, <2>2, <2>5
    <3>2. input' \in Seq(Typed)
      BY <1>3, <2>3, <3>1, AppendTyped
    <3>3. ASSUME ~split
          PROVE  /\ Marked(lastWasCR, input')
                 /\ lone' <=> Flagged(lastWasCR, input', Len(input') + 1)
      BY <1>3, <1>5, <2>3, <3>1, <3>3, CharTyped
    <3>4. QED
      BY <1>2, <3>2, <3>3 DEF EntersMarked
  <2>6. ASSUME k = <<LF>> PROVE EntersMarked'
    <3>1. input' = Append(input, Char(LF, ~lone)) /\ ~lone'
      BY <2>1, <2>2, <2>4, <2>6
    <3>2. Char(LF, ~lone) \in Typed /\ Char(LF, ~lone).char = LF
          /\ (Char(LF, ~lone).enter <=> ~lone)
      BY <2>3
    <3>3. input' \in Seq(Typed)
      BY <1>3, <3>1, <3>2, AppendTyped
    <3>4. ASSUME ~split
          PROVE  /\ Marked(lastWasCR, input')
                 /\ lone' <=> Flagged(lastWasCR, input', Len(input') + 1)
      <4> DEFINE x == Char(LF, ~lone)
      <4>1. /\ x \in Typed /\ input' = Append(input, x) /\ x.char = LF /\ x.char # CR
            /\ x.enter <=> ~Flagged(lastWasCR, input, Len(input) + 1)
        BY <1>4, <1>5, <3>1, <3>2, <3>4
      <4> HIDE DEF x
      <4>2. /\ Marked(lastWasCR, input')
            /\ Flagged(lastWasCR, input', Len(input') + 1)
                 <=> x.char = CR \/ (Flagged(lastWasCR, input, Len(input) + 1) /\ x.char # LF)
        BY <1>3, <1>5, <3>4, <4>1, CharTyped
      <4>3. QED
        BY <3>1, <4>1, <4>2
    <3>5. QED
      BY <1>2, <3>3, <3>4 DEF EntersMarked
  <2>7. ASSUME k = <<CR, LF>> PROVE EntersMarked'
    <3> DEFINE s == Append(input, Char(CR, TRUE))
    <3>1. input' = Append(s, Char(LF, FALSE)) /\ ~lone'
      BY <2>1, <2>2, <2>4, <2>7
    <3>2. s \in Seq(Typed)
      BY <1>3, <2>3, AppendTyped
    <3>3. input' \in Seq(Typed)
      BY <2>3, <3>1, <3>2, AppendTyped
    <3>4. ASSUME ~split
          PROVE  Marked(lastWasCR, s) /\ Flagged(lastWasCR, s, Len(s) + 1)
      BY <1>3, <1>5, <2>3, <3>4, CharTyped
    <3> HIDE DEF s
    <3>5. ASSUME ~split
          PROVE  /\ Marked(lastWasCR, input')
                 /\ lone' <=> Flagged(lastWasCR, input', Len(input') + 1)
      <4> DEFINE x == Char(LF, FALSE)
      <4>1. /\ x \in Typed /\ input' = Append(s, x) /\ x.char = LF /\ x.char # CR
            /\ x.enter <=> ~Flagged(lastWasCR, s, Len(s) + 1)
        BY <1>4, <2>3, <3>1, <3>4, <3>5
      <4> HIDE DEF x
      <4>2. /\ Marked(lastWasCR, input')
            /\ Flagged(lastWasCR, input', Len(input') + 1)
                 <=> x.char = CR \/ (Flagged(lastWasCR, s, Len(s) + 1) /\ x.char # LF)
        BY <3>2, <3>4, <3>5, <4>1, CharTyped
      <4>3. QED
        BY <3>1, <4>1, <4>2
    <3>6. QED
      BY <1>2, <3>3, <3>5 DEF EntersMarked
  <2>8. EntersMarked'
    <3>1. k = <<CR>> \/ k = <<LF>> \/ k = <<CR, LF>>
      BY KeysAssumption
    <3>2. QED
      BY <2>5, <2>6, <2>7, <3>1
  <2>9. lone' \in BOOLEAN
    BY <2>1
  <2>10. QED
    BY <1>1, <1>2, <2>8, <2>9, KeyCounted DEF RInv, TypeOK, NotPrinting, Echoed, OneLinePerEnter
<1>8. QED
  BY <1>1, <1>6, <1>7

LEMMA NextRInv == RInv /\ [Next]_vars => RInv'
<1>1. SUFFICES ASSUME RInv, [Next]_vars PROVE RInv'
  OBVIOUS
<1>2. CASE UARTvprintf
  BY <1>1, <1>2, PrintRInv
<1>3. CASE UARTgets
  BY <1>1, <1>3, CallRInv, BackspaceRInv, SkipRInv, EndRInv, StoreRInv DEF UARTgets
<1>4. CASE UARTgetc
  BY <1>1, <1>4, GetcRInv
<1>5. CASE PressKey \/ PressEnter
  BY <1>1, <1>5, PressRInv
<1>6. CASE UNCHANGED vars
  BY <1>1, <1>6 DEF vars, printVars, readVars, RInv, TypeOK, NotPrinting, Echoed, EntersMarked,
     OneLinePerEnter
<1>7. QED
  BY <1>1, <1>2, <1>3, <1>4, <1>5, <1>6 DEF Next

\* Whatever the keys, the sizes and the calls, what is read and echoed stays in
\* the inductive invariant (UARTgets, UARTgetc; uartstdio.c:634-780).
THEOREM ReadingInvariance == Spec => []RInv
<1>1. Init => RInv
  BY InitRInv
<1>2. RInv /\ [Next]_vars => RInv'
  BY NextRInv
<1>3. QED
  BY <1>1, <1>2, PTL DEF Spec

\* Every variable stays in its range: the width wraps in its word and the line
\* leaves room for its terminating zero, for every buffer and word.
THEOREM PolledTypeCorrect == Spec => []TypeOK
<1>1. RInv => TypeOK
  BY DEF RInv
<1>2. QED
  BY <1>1, ReadingInvariance, PTL

\* While a line is typed the terminal shows what UARTgets has stored: its echo,
\* the erasing of a character and the limit of the buffer agree, for every buffer
\* and every sequence of keys.
THEOREM EchoAgrees == Spec => []ScreenShowsLine
<1>1. ASSUME RInv PROVE ScreenShowsLine
  <2>1. SUFFICES ASSUME reading
                 PROVE  LET t == Terminal(out)
                        IN  /\ t.at = Len(line) /\ SubSeq(t.cell, 1, t.at) = line
                            /\ \A i \in (t.at + 1)..Len(t.cell) : t.cell[i] = " "
    BY DEF ScreenShowsLine
  <2> DEFINE t == Terminal(out)
  <2>2. line \in Seq(Letters)
    BY <1>1, BoundedSeqIs, KeysAre DEF RInv, TypeOK
  <2>3. Shows(t, line)
    BY <1>1, <2>1 DEF RInv, Echoed
  <2> HIDE DEF t
  <2>4. /\ t.cell \in Seq(Letters \cup {" "}) /\ Len(t.cell) \in Nat /\ Len(line) \in Nat
        /\ t.at = Len(line) /\ Len(line) <= Len(t.cell)
        /\ \A i \in 1..Len(t.cell) : t.cell[i] = IF i <= Len(line) THEN line[i] ELSE " "
        /\ \A i \in 1..Len(t.cell) : t.cell[i] \in Letters \cup {" "}
    BY <2>2, <2>3, ShowsIs
  <2> DEFINE n == Len(line)
             m == Len(t.cell)
             s == SubSeq(t.cell, 1, n)
  <2>5. n \in Nat /\ m \in Nat /\ n <= m
    BY <2>4
  <2> HIDE DEF n, m
  <2>6. \A i \in 1..n : i \in 1..m /\ i <= n
    BY <2>5
  <2>7. \A i \in 1..n : t.cell[i] \in Letters \cup {" "} /\ t.cell[i] = line[i]
    BY <2>4, <2>6 DEF n, m
  <2> DEFINE cell == t.cell
  <2>8. /\ SubSeq(cell, 1, n) \in Seq(Letters \cup {" "})
        /\ Len(SubSeq(cell, 1, n)) = IF 1 <= n THEN n - 1 + 1 ELSE 0
        /\ \A i \in 1..(n - 1 + 1) : SubSeq(cell, 1, n)[i] = cell[1 + i - 1]
    <3> DEFINE S == Letters \cup {" "}
    <3>1. \A i \in 1..n : cell[i] \in S
      BY <2>7
    <3>2. 1 \in Int /\ n \in Int
      BY <2>5
    <3> HIDE DEF cell, S
    <3>3. /\ SubSeq(cell, 1, n) \in Seq(S)
          /\ Len(SubSeq(cell, 1, n)) = IF 1 <= n THEN n - 1 + 1 ELSE 0
          /\ \A i \in 1..(n - 1 + 1) : SubSeq(cell, 1, n)[i] = cell[1 + i - 1]
      BY <3>1, <3>2, SubSeqProperties
    <3>4. QED
      BY <3>3 DEF S
  <2>9. Len(s) = n /\ \A i \in 1..n : s[i] = line[i]
    <3>1. n - 1 + 1 = n /\ (~(1 <= n) => n = 0) /\ \A i \in 1..n : 1 + i - 1 = i
      BY <2>5
    <3>2. QED
      BY <2>7, <2>8, <3>1
  <2>10. s = line
    <3>1. s \in Seq(Letters \cup {" "}) /\ Len(line) = n
      BY <2>8 DEF n
    <3>2. line \in Seq(Letters \cup {" "})
      <4>1. Letters \subseteq Letters \cup {" "}
        OBVIOUS
      <4>2. QED
        BY <2>2, <4>1, SeqWider, Zenon
    <3> HIDE DEF s
    <3>3. QED
      BY <2>9, <3>1, <3>2, SeqEqual
  <2>11. \A i \in (n + 1)..m : t.cell[i] = " "
    <3>1. \A i \in (n + 1)..m : i \in 1..m /\ ~(i <= n)
      BY <2>5
    <3>2. QED
      BY <2>4, <3>1 DEF n, m
  <2>12. QED
    BY <2>4, <2>10, <2>11 DEF t, s, n, m
<1>2. RInv => ScreenShowsLine
  BY <1>1
<1>3. QED
  BY <1>2, ReadingInvariance, PTL

\* Every Enter returns one line, whether it sends CR, LF or both, whatever was
\* pressed before it and in whatever mixture, as long as UARTgetc does not take a
\* part of what one sends: but for a LF alone after a CR alone, which bLastWasCR
\* swallows.
THEOREM EnterEndsOneLine == Spec => []OneLinePerEnter
<1>1. RInv => OneLinePerEnter
  BY DEF RInv
<1>2. QED
  BY <1>1, ReadingInvariance, PTL-----------------------------------------------------------------------------
(***************************************************************************)
(* The conversion of numbers.                                              *)
(***************************************************************************)

\* Dividing by ten, or sixteen, and then by b is dividing by their product.
LEMMA QuotientTwice ==
  ASSUME NEW v \in Nat, NEW b \in Nat, b > 0, NEW base \in {10, 16}
  PROVE  (v \div base) \div b = v \div (base * b)
<1> DEFINE q == v \div (base * b)
           r == v % (base * b)
           m == q * b
<1>1. base * b \in Nat /\ base * b > 0
  OBVIOUS
<1>2. q \in Nat /\ r \in Nat /\ r < base * b /\ v = q * (base * b) + r
  BY <1>1
<1> HIDE DEF q, r
<1>3. m \in Nat /\ q * (base * b) = base * m
  BY <1>2
<1> HIDE DEF m
<1>4. r \div base \in Nat /\ r \div base < b /\ v \div base = m + (r \div base)
  BY <1>1, <1>2, <1>3
<1>5. v \div base \in Nat
  OBVIOUS
<1>6. (v \div base) \div b = q
  BY <1>2, <1>4, <1>5, Quotient DEF m
<1>7. QED
  BY <1>6 DEF q
Bases == {10, 16}

\* n is the number of a value's digits but one.
IsOrder(n, v, base) ==
  /\ n \in Nat /\ v < Power(base, n + 1)
  /\ \A m \in 0..(n - 1) : Power(base, m + 1) <= v

\* A power of the base is no smaller than that of two.
LEMMA PowerGrows ==
  ASSUME NEW base \in Bases, NEW n \in Nat
  PROVE  Power(base, n) \in Nat /\ Power(base, n) > 0 /\ Power(2, n) \in Nat
         /\ Power(2, n) <= Power(base, n)
<1>0. base \in Nat /\ base >= 10
  BY DEF Bases
<1>1. /\ Power(base, 0) = 1 /\ Power(2, 0) = 1
      /\ \A k \in Nat : Power(base, k) \in Nat /\ Power(base, k + 1) = base * Power(base, k)
      /\ \A k \in Nat : Power(2, k) \in Nat /\ Power(2, k + 1) = 2 * Power(2, k)
  BY <1>0, PowerSteps
<1> DEFINE T == {k \in 0..n : Power(base, k) > 0 /\ Power(2, k) <= Power(base, k)}
<1>2. 0 \in T
  BY <1>1
<1>3. ASSUME NEW k \in 1..n, k - 1 \in T PROVE k \in T
  <2>1. k - 1 \in Nat /\ (k - 1) + 1 = k /\ k \in 0..n
    OBVIOUS
  <2>2. Power(base, k) = base * Power(base, k - 1) /\ Power(2, k) = 2 * Power(2, k - 1)
        /\ Power(base, k - 1) \in Nat /\ Power(2, k - 1) \in Nat
    BY <1>1, <2>1
  <2>3. Power(base, k - 1) > 0 /\ Power(2, k - 1) <= Power(base, k - 1)
    BY <1>3
  <2> DEFINE p == Power(base, k - 1)
             two == Power(2, k - 1)
  <2>4. p \in Nat /\ two \in Nat /\ p > 0 /\ two <= p
    BY <2>2, <2>3
  <2> HIDE DEF p, two
  <2>5. base * p > 0 /\ 2 * two <= base * p
    BY <2>4 DEF Bases
  <2>6. QED
    BY <2>1, <2>2, <2>5 DEF p, two
<1>4. n \in T
  <2>1. \A k \in 1..n : k - 1 \in T => k \in T
    BY <1>3
  <2>2. n \in 0..n
    OBVIOUS
  <2> HIDE DEF T
  <2>3. QED
    BY <1>2, <2>1, <2>2, UpTo
<1>5. QED
  BY <1>1, <1>4

\* The value of a word has no more digits than the word has bits.
LEMMA OrderExists ==
  ASSUME NEW base \in Bases, NEW v \in 0..(Word - 1)
  PROVE  \E n \in 0..WordBits : IsOrder(n, v, base)
<1> DEFINE T == {n \in Nat : v < Power(base, n + 1)}
           w == Word
           N == WordBits
<1>1. w \in Nat /\ v \in Nat /\ v < w /\ N \in Nat
  BY WordType, SizesAssumption
<1> HIDE DEF w
<1>2. \A n \in Nat : n + 1 \in Nat /\ Power(base, n + 1) \in Nat
  BY PowerGrows
<1>3. N \in T
  <2>1. Power(base, N + 1) \in Nat /\ Power(2, N + 1) <= Power(base, N + 1)
        /\ Power(2, N + 1) \in Nat
    BY <1>1, PowerGrows
  <2>2. Power(2, N + 1) = 2 * w
    BY <1>1, PowerSteps DEF w, Word
  <2>3. v < Power(base, N + 1)
    BY <1>1, <2>1, <2>2
  <2>4. QED
    BY <1>1, <2>3
<1>4. PICK n \in T : \A m \in T : n <= m
  <2>1. T \in SUBSET Nat /\ T # {}
    BY <1>3
  <2> HIDE DEF T
  <2>2. QED
    BY <2>1, LeastNat
<1>5. n \in 0..N
  BY <1>1, <1>3, <1>4
<1>6. ASSUME NEW m \in 0..(n - 1) PROVE Power(base, m + 1) <= v
  <2>1. m \in Nat /\ m < n
    BY <1>5
  <2>2. m \notin T
    BY <1>4, <2>1
  <2>3. ~(v < Power(base, m + 1)) /\ Power(base, m + 1) \in Nat
    BY <1>2, <2>1, <2>2
  <2>4. QED
    BY <1>1, <2>3
<1>7. QED
  BY <1>4, <1>5, <1>6 DEF IsOrder

LEMMA OrderUnique ==
  ASSUME NEW base \in Bases, NEW v \in Nat, NEW m, NEW n,
         IsOrder(m, v, base), IsOrder(n, v, base)
  PROVE  m = n
<1>1. m \in Nat /\ n \in Nat
  BY DEF IsOrder
<1>2. \A k \in Nat : Power(base, k + 1) \in Nat
  BY PowerGrows
<1>3. ASSUME m < n PROVE FALSE
  <2>1. m \in 0..(n - 1)
    BY <1>1, <1>3
  <2>2. Power(base, m + 1) <= v /\ v < Power(base, m + 1) /\ Power(base, m + 1) \in Nat
    BY <1>1, <1>2, <2>1 DEF IsOrder
  <2>3. QED
    BY <2>2
<1>4. ASSUME n < m PROVE FALSE
  <2>1. n \in 0..(m - 1)
    BY <1>1, <1>4
  <2>2. Power(base, n + 1) <= v /\ v < Power(base, n + 1) /\ Power(base, n + 1) \in Nat
    BY <1>1, <1>2, <2>1 DEF IsOrder
  <2>3. QED
    BY <2>2
<1>5. QED
  BY <1>1, <1>3, <1>4

\* One digit more than the quotient by the base.
LEMMA OrderSteps ==
  ASSUME NEW base \in Bases, NEW v \in Nat
  PROVE  /\ v < base => IsOrder(0, v, base)
         /\ \A n \in Nat : v >= base /\ IsOrder(n, v \div base, base)
                           => IsOrder(n + 1, v, base)
<1>0. base \in Nat /\ base > 0
  BY DEF Bases
<1>1. /\ Power(base, 0) = 1
      /\ \A k \in Nat : Power(base, k) \in Nat /\ Power(base, k + 1) = base * Power(base, k)
  BY <1>0, PowerSteps
<1>2. Power(base, 1) = base
  <2>1. Power(base, 0 + 1) = base * Power(base, 0) /\ 0 + 1 = 1
    BY <1>1
  <2>2. QED
    BY <1>0, <1>1, <2>1
<1>3. ASSUME v < base PROVE IsOrder(0, v, base)
  <2>1. v < Power(base, 0 + 1) /\ \A m \in 0..(0 - 1) : FALSE
    BY <1>2, <1>3
  <2>2. QED
    BY <2>1 DEF IsOrder
<1>4. ASSUME NEW n \in Nat, v >= base, IsOrder(n, v \div base, base)
      PROVE  IsOrder(n + 1, v, base)
  <2> DEFINE p == Power(base, n + 1)
  <2>1. p \in Nat /\ v \div base < p /\ Power(base, (n + 1) + 1) = base * p
    BY <1>1, <1>4 DEF IsOrder
  <2> HIDE DEF p
  <2>2. v < base * p
    BY <2>1 DEF Bases
  <2>3. ASSUME NEW m \in 0..((n + 1) - 1) PROVE Power(base, m + 1) <= v
    <3>1. CASE m = 0
      BY <1>0, <1>2, <1>4, <3>1
    <3>2. CASE m # 0
      <4> DEFINE j == m - 1
                 q == Power(base, m)
      <4>1. j \in 0..(n - 1) /\ j + 1 = m /\ m \in Nat
        BY <3>2
      <4>2. q <= v \div base
        BY <1>4, <4>1 DEF IsOrder
      <4>3. q \in Nat /\ Power(base, m + 1) = base * q
        BY <1>1, <4>1
      <4> HIDE DEF q
      <4>4. base * q <= v
        BY <4>2, <4>3 DEF Bases
      <4>5. QED
        BY <4>3, <4>4
    <3>3. QED
      BY <3>1, <3>2
  <2>4. QED
    BY <2>1, <2>2, <2>3 DEF IsOrder
<1>5. QED
  BY <1>3, <1>4
\* The digits of a value are those of its quotient by the base, and one.
LEMMA DigitsNext ==
  ASSUME NEW base \in Bases, NEW v \in Nat, NEW n \in Nat
  PROVE  /\ v < base => Digits(v, base, 0) = <<Hex[v + 1]>>
         /\ Digits(v, base, n + 1)
              = Append(Digits(v \div base, base, n), Hex[(v % base) + 1])
<1>0. base \in Nat /\ base > 0 /\ Power(base, 0) = 1
  BY PowerSteps DEF Bases
<1>1. ASSUME v < base PROVE Digits(v, base, 0) = <<Hex[v + 1]>>
  <2> DEFINE d == Digits(v, base, 0)
  <2>1. \A i \in 1..(0 + 1) : i = 1 /\ (0 + 1) - i = 0
    OBVIOUS
  <2>2. (v \div 1) % base = v
    BY <1>1 DEF Bases
  <2>3. d = [i \in 1..(0 + 1) |-> d[i]]
    BY DEF Digits
  <2>4. d[1] = Hex[v + 1]
    BY <1>0, <2>1, <2>2 DEF Digits
  <2> HIDE DEF d
  <2>5. d = <<d[1]>>
    BY <2>1, <2>3
  <2>6. QED
    BY <2>4, <2>5 DEF d
<1>2. Digits(v, base, n + 1)
        = Append(Digits(v \div base, base, n), Hex[(v % base) + 1])
  <2> DEFINE S == {Hex[i] : i \in 1..16}
             H(x) == Hex[(x % base) + 1]
             d == Digits(v, base, n + 1)
             e == Digits(v \div base, base, n)
             f == Append(e, H(v))
  <2>1. \A x \in Nat : H(x) \in S
    <3>1. \A x \in Nat : (x % base) + 1 \in 1..16
      BY DEF Bases
    <3>2. QED
      BY <3>1
  <2>2. \A j \in Nat : Power(base, j) \in Nat /\ Power(base, j) > 0
    BY PowerGrows
  <2>3. \A j \in Nat : v \div Power(base, j) \in Nat /\ (v \div base) \div Power(base, j) \in Nat
    <3>1. v \div base \in Nat
      BY DEF Bases
    <3>2. \A p \in Nat, x \in Nat : p > 0 => x \div p \in Nat
      OBVIOUS
    <3>3. QED
      BY <2>2, <3>1, <3>2
  <2>4. \A i \in 1..(n + 2) : ((n + 1) + 1) - i \in Nat
    OBVIOUS
  <2>5. \A i \in 1..(n + 1) : (n + 1) - i \in Nat
    OBVIOUS
  <2>6. \A i \in 1..(n + 2) : d[i] = H(v \div Power(base, ((n + 1) + 1) - i))
    BY DEF Digits
  <2>7. \A i \in 1..(n + 1) : e[i] = H((v \div base) \div Power(base, (n + 1) - i))
    BY DEF Digits
  <2>8. d \in Seq(S) /\ Len(d) = n + 2
    <3>1. \A i \in 1..((n + 1) + 1) : Hex[((v \div Power(base, ((n + 1) + 1) - i)) % base) + 1] \in S
      BY <2>1, <2>3, <2>4
    <3>2. d \in [1..((n + 1) + 1) -> S] /\ (n + 1) + 1 \in Nat /\ (n + 1) + 1 = n + 2
      BY <3>1 DEF Digits
    <3> HIDE DEF d, S
    <3>3. QED
      BY <3>2, ListIsSeq
  <2>9. e \in Seq(S) /\ Len(e) = n + 1
    <3>1. \A i \in 1..(n + 1) : Hex[(((v \div base) \div Power(base, (n + 1) - i)) % base) + 1] \in S
      BY <2>1, <2>3, <2>5
    <3>2. e \in [1..(n + 1) -> S] /\ n + 1 \in Nat
      BY <3>1 DEF Digits
    <3> HIDE DEF e, S
    <3>3. QED
      BY <3>2, ListIsSeq
  <2>10. H(v) \in S
    BY <2>1
  <2> HIDE DEF S, H, d, e
  <2>11. /\ f \in Seq(S) /\ Len(f) = n + 2 /\ f[n + 2] = H(v)
         /\ \A i \in 1..(n + 1) : f[i] = e[i]
    <3>1. (n + 1) + 1 = n + 2
      OBVIOUS
    <3>2. QED
      BY <2>9, <2>10, <3>1, AppendProperties
  <2> HIDE DEF f
  <2>12. ASSUME NEW i \in 1..Len(d) PROVE d[i] = f[i]
    <3>1. i \in 1..(n + 2)
      BY <2>8
    <3>2. CASE i = n + 2
      <4>1. ((n + 1) + 1) - i = 0
        BY <3>2
      <4>2. v \div 1 = v
        OBVIOUS
      <4>3. d[i] = H(v)
        BY <1>0, <2>6, <3>1, <4>1, <4>2
      <4>4. QED
        BY <2>11, <3>2, <4>3
    <3>3. CASE i # n + 2
      <4> DEFINE j == (n + 1) - i
      <4>1. i \in 1..(n + 1) /\ j \in Nat /\ ((n + 1) + 1) - i = j + 1
        BY <3>1, <3>3
      <4> HIDE DEF j
      <4>2. d[i] = H(v \div Power(base, j + 1))
        BY <2>6, <3>1, <4>1
      <4>3. e[i] = H((v \div base) \div Power(base, j))
        BY <2>7, <4>1 DEF j
      <4>4. Power(base, j + 1) = base * Power(base, j)
        BY <1>0, <4>1, PowerSteps
      <4>5. (v \div base) \div Power(base, j) = v \div (base * Power(base, j))
        BY <2>2, <4>1, QuotientTwice DEF Bases
      <4>6. d[i] = e[i]
        BY <4>2, <4>3, <4>4, <4>5
      <4>7. QED
        BY <2>11, <4>1, <4>6
    <3>4. QED
      BY <3>2, <3>3
  <2>13. d = f
    BY <2>8, <2>11, <2>12, SeqEqual
  <2>14. QED
    BY <2>13 DEF d, f, e, H
<1>3. QED
  BY <1>1, <1>2
\* The recursion of Numeral is solved by the digits of its values.
LEMMA NumeralIs ==
  ASSUME NEW base \in Bases, NEW value \in 0..(Word - 1), NEW n, IsOrder(n, value, base)
  PROVE  Numeral(value, base) = Digits(value, base, n)
<1> DEFINE IsNumeral(f) ==
             f = [v \in 0..value |-> IF v < base THEN <<Hex[v + 1]>>
                                     ELSE Append(f[v \div base], Hex[(v % base) + 1])]
           numeral == CHOOSE f : IsNumeral(f)
           Order(v) == CHOOSE m \in Nat : IsOrder(m, v, base)
           w == Word
<1>0. w \in Nat /\ w >= 2 /\ value \in Nat /\ value < w
  BY WordType
<1> HIDE DEF w
<1>1. \A v \in 0..value : v \in Nat /\ v \in 0..(w - 1)
  BY <1>0
<1>2. \A v \in 0..value : v >= base => v \div base \in 0..value /\ v \div base < v
  <2>1. \A v \in Nat : v >= base => v \div base \in Nat /\ v \div base < v
    BY DEF Bases
  <2>2. QED
    BY <1>0, <1>1, <2>1
<1>3. ASSUME NEW v \in 0..value PROVE Order(v) \in Nat /\ IsOrder(Order(v), v, base)
  <2>1. v \in 0..(Word - 1)
    BY <1>1 DEF w
  <2>2. \E m \in 0..WordBits : IsOrder(m, v, base)
    BY <2>1, OrderExists
  <2>3. \E m \in Nat : IsOrder(m, v, base)
    BY <2>2 DEF IsOrder
  <2>4. QED
    BY <2>3, Zenon
<1> HIDE DEF Order
<1> DEFINE g == [v \in 0..value |-> Digits(v, base, Order(v))]
<1>4. ASSUME NEW v \in 0..value
      PROVE  g[v] = IF v < base THEN <<Hex[v + 1]>>
                    ELSE Append(g[v \div base], Hex[(v % base) + 1])
  <2>1. v \in Nat /\ g[v] = Digits(v, base, Order(v))
    BY <1>1
  <2>2. CASE v < base
    <3>1. Order(v) = 0
      BY <1>3, <2>1, <2>2, OrderSteps, OrderUnique
    <3>2. Digits(v, base, 0) = <<Hex[v + 1]>>
      BY <2>1, <2>2, DigitsNext
    <3>3. QED
      BY <2>1, <2>2, <3>1, <3>2
  <2>3. CASE ~(v < base)
    <3> DEFINE u == v \div base
               m == Order(u)
    <3>1. v >= base /\ base \in Nat
      BY <2>1, <2>3 DEF Bases
    <3>2. u \in 0..value /\ m \in Nat /\ IsOrder(m, u, base)
      BY <1>2, <1>3, <3>1
    <3>3. IsOrder(m + 1, v, base)
      BY <2>1, <3>1, <3>2, OrderSteps
    <3>4. Order(v) = m + 1
      BY <1>3, <2>1, <3>3, OrderUnique
    <3>5. Digits(v, base, m + 1) = Append(Digits(u, base, m), Hex[(v % base) + 1])
      BY <2>1, <3>2, DigitsNext
    <3>6. g[u] = Digits(u, base, m)
      BY <3>2
    <3>7. QED
      BY <2>1, <2>3, <3>4, <3>5, <3>6
  <2>4. QED
    BY <2>2, <2>3
<1>5. IsNumeral(g)
  <2>1. g = [v \in 0..value |-> g[v]]
    OBVIOUS
  <2> HIDE DEF g
  <2>2. QED
    BY <1>4, <2>1
<1>6. IsNumeral(numeral)
  <2> HIDE DEF IsNumeral, g
  <2>1. QED
    BY <1>5, Zenon
<1>7. \A v \in 0..value :
        numeral[v] = IF v < base THEN <<Hex[v + 1]>>
                     ELSE Append(numeral[v \div base], Hex[(v % base) + 1])
  <2> HIDE DEF numeral
  <2>1. QED
    BY <1>6
<1> HIDE DEF numeral, IsNumeral, g
<1>8. \A v \in 0..value : numeral[v] = g[v]
  <2> DEFINE T == {v \in 0..value : numeral[v] # g[v]}
  <2>1. SUFFICES ASSUME T # {} PROVE FALSE
    OBVIOUS
  <2>2. T \in SUBSET Nat
    BY <1>1
  <2>3. PICK v \in T : \A x \in T : v <= x
    <3> HIDE DEF T
    <3>1. QED
      BY <2>1, <2>2, LeastNat
  <2>4. v \in 0..value /\ numeral[v] # g[v]
    OBVIOUS
  <2>5. CASE v < base
    BY <1>4, <1>7, <2>4, <2>5
  <2>6. CASE ~(v < base)
    <3> DEFINE u == v \div base
    <3>1. v \in Nat /\ base \in Nat /\ v >= base
      BY <1>1, <2>4, <2>6 DEF Bases
    <3>2. u \in 0..value /\ u < v /\ u \in Nat
      BY <1>1, <1>2, <2>4, <3>1
    <3>3. u \notin T
      <4> HIDE DEF T, u
      <4>1. QED
        BY <2>3, <3>1, <3>2
    <3>4. numeral[u] = g[u]
      BY <3>2, <3>3
    <3>5. QED
      BY <1>4, <1>7, <2>4, <2>6, <3>4
  <2>7. QED
    BY <2>5, <2>6
<1>9. Numeral(value, base) = numeral[value]
  BY Zenon DEF Numeral, numeral, IsNumeral
<1>10. value \in 0..value
  BY <1>0
<1>11. Order(value) = n
  BY <1>0, <1>3, <1>10, OrderUnique
<1>12. g[value] = Digits(value, base, n)
  BY <1>10, <1>11 DEF g
<1>13. QED
  BY <1>8, <1>9, <1>10, <1>12
\* The loop before the conversion goes on while the next power fits in the value:
\* a product that was cut to a word has another quotient.
LEMMA ContinuesIs ==
  ASSUME NEW base \in Bases, NEW value \in 0..(Word - 1), NEW b \in Nat
  PROVE  Continues(b, value, base) <=> base * b <= value
<1> DEFINE w == Word
           p == b * base
           r == p % w
<1>1. w \in Nat /\ w >= 2 /\ value \in Nat /\ value < w
  BY WordType
<1> HIDE DEF w
<1>2. Continues(b, value, base) <=> r <= value /\ r \div base = b
  BY DEF Continues, w
<1>3. p \in Nat /\ p = base * b /\ p \div base = b
  BY DEF Bases
<1> HIDE DEF p
<1>4. CASE p < w
  <2>1. r = p
    BY <1>1, <1>3, <1>4
  <2>2. QED
    BY <1>2, <1>3, <2>1
<1>5. CASE ~(p < w)
  <2>1. r \in Nat /\ r < p
    BY <1>1, <1>3, <1>5
  <2> HIDE DEF r
  <2>2. r \div base # b
    BY <1>3, <2>1 DEF Bases
  <2>3. ~(base * b <= value)
    BY <1>1, <1>3, <1>5
  <2>4. QED
    BY <1>2, <2>2, <2>3
<1>6. QED
  BY <1>4, <1>5

\* What a word holds of a number that is not far from its range.
LEMMA Wraps ==
  ASSUME NEW w \in Nat, NEW x \in Int, -w <= x, x < w, w > 0
  PROVE  x % w = IF x < 0 THEN x + w ELSE x
OBVIOUS

\* The blanks before a number: those the documentation asks for.
LEMMA PaddingIs ==
  ASSUME NEW x \in Int, NEW c, x < BufSize, -WordBits - 1 <= x
  PROVE  LET count == x % Word
         IN  Filled(IF 1 < count /\ count < BufSize THEN count - 1 ELSE 0, c)
               = Filled(x - 1, c)
<1> DEFINE w == Word
           count == x % w
           n == IF 1 < count /\ count < BufSize THEN count - 1 ELSE 0
<1>1. /\ w \in Nat /\ w >= 2 /\ WordBits \in Nat /\ BufSize \in Nat
      /\ BufSize + WordBits < w
  BY WordType, SizesAssumption
<1> HIDE DEF w
<1>2. count = IF x < 0 THEN x + w ELSE x
  BY <1>1, Wraps
<1> HIDE DEF count
<1>3. Filled(n, c) = Filled(x - 1, c)
  <2>1. CASE 1 < x
    <3>1. 1 < count /\ count < BufSize /\ count = x
      BY <1>1, <1>2, <2>1
    <3>2. QED
      BY <3>1
  <2>2. CASE ~(1 < x)
    <3>1. ~(1 < count /\ count < BufSize)
      BY <1>1, <1>2, <2>2
    <3>2. 1..(x - 1) = {} /\ 1..0 = {}
      BY <2>2
    <3>3. QED
      BY <3>1, <3>2 DEF Filled
  <2>3. QED
    BY <2>1, <2>2
<1>4. QED
  BY <1>3, Zenon DEF n, count, w

\* A number as the documentation has it.
PaddedNow(sign, numeral) ==
  LET n == width - Len(sign) - Len(numeral)
  IN  IF fill = "0" THEN sign \o Filled(n, "0") \o numeral
      ELSE Filled(n, " ") \o sign \o numeral

\* The loop passes a power for every digit but one.
LEMMA PassedIs ==
  ASSUME NEW base \in Bases, NEW value \in 0..(Word - 1)
  PROVE  /\ Passed(value, base) \in 0..WordBits
         /\ Digits(value, base, Passed(value, base)) = Numeral(value, base)
         /\ Len(Numeral(value, base)) = Passed(value, base) + 1
<1> DEFINE Halts(n) == /\ ~Continues(Power(base, n), value, base)
                       /\ \A m \in 0..(n - 1) : Continues(Power(base, m), value, base)
           k == CHOOSE n \in 0..WordBits : Halts(n)
           numeral == Numeral(value, base)
<1>1. Passed(value, base) = k
  BY Zenon DEF Passed
<1>2. value \in Nat /\ WordBits \in Nat
  <2>1. Word \in Nat /\ WordBits \in Nat
    BY WordType, SizesAssumption
  <2> DEFINE w == Word
  <2>2. w \in Nat /\ value \in 0..(w - 1)
    BY <2>1
  <2> HIDE DEF w
  <2>3. value \in Nat
    BY <2>2
  <2>4. QED
    BY <2>1, <2>3
<1>3. PICK n \in 0..WordBits : IsOrder(n, value, base)
  BY OrderExists
<1> HIDE DEF k
<1>4. ASSUME NEW m \in Nat
      PROVE  Continues(Power(base, m), value, base) <=> Power(base, m + 1) <= value
  <2>1. Power(base, m) \in Nat
    BY PowerGrows
  <2>2. Power(base, m + 1) = base * Power(base, m)
    BY PowerSteps DEF Bases
  <2>3. QED
    BY <2>1, <2>2, ContinuesIs
<1>5. \A m \in Nat : Power(base, m + 1) \in Nat
  BY PowerGrows
<1>6. \A m \in 0..WordBits : Halts(m) <=> IsOrder(m, value, base)
  <2>1. ASSUME NEW m \in 0..WordBits PROVE Halts(m) <=> IsOrder(m, value, base)
    <3>1. m \in Nat /\ \A j \in 0..(m - 1) : j \in Nat
      BY <1>2
    <3>2. ~(Power(base, m + 1) <= value) <=> value < Power(base, m + 1)
      BY <1>2, <1>5, <3>1
    <3>3. Halts(m) <=> /\ value < Power(base, m + 1)
                       /\ \A j \in 0..(m - 1) : Power(base, j + 1) <= value
      BY <1>4, <3>1, <3>2, Zenon
    <3>4. QED
      BY <3>1, <3>3, Zenon DEF IsOrder
  <2>2. QED
    BY <2>1
<1> HIDE DEF Halts
<1>7. k \in 0..WordBits /\ IsOrder(k, value, base)
  BY <1>3, <1>6, Zenon DEF k
<1>8. numeral = Digits(value, base, k)
  BY <1>7, NumeralIs
<1>9. Len(numeral) = k + 1
  <2> DEFINE e == Digits(value, base, k)
             S == {e[i] : i \in 1..(k + 1)}
  <2>1. k + 1 \in Nat /\ e = [i \in 1..(k + 1) |-> e[i]]
    BY <1>2, <1>7 DEF Digits
  <2> HIDE DEF e
  <2>2. e \in [1..(k + 1) -> S]
    BY <2>1
  <2> HIDE DEF S
  <2>3. Len(e) = k + 1
    BY <2>1, <2>2, ListIsSeq
  <2>4. QED
    BY <1>8, <2>3 DEF e
<1>10. QED
  BY <1>1, <1>7, <1>8, <1>9

\* What is put before the k + 1 digits of a number.
LEMMA PadsTo ==
  ASSUME NEW k \in 0..WordBits, NEW less \in {0, 1}, width \in 0..(BufSize - 1)
  PROVE  LET count == (width - k - less) % Word
         IN  Filled(IF 1 < count /\ count < BufSize THEN count - 1 ELSE 0, fill)
               = Filled(width - less - (k + 1), fill)
<1> DEFINE x == width - k - less
<1>1. x \in Int /\ x < BufSize /\ -WordBits - 1 <= x /\ x - 1 = width - less - (k + 1)
  BY SizesAssumption
<1> HIDE DEF x
<1>2. LET count == x % Word
      IN  Filled(IF 1 < count /\ count < BufSize THEN count - 1 ELSE 0, fill)
            = Filled(x - 1, fill)
  BY <1>1, PaddingIs
<1>3. QED
  BY <1>1, <1>2, Zenon DEF x

LEMMA ConvertedIs ==
  ASSUME NEW base \in Bases, NEW value \in 0..(Word - 1), width \in 0..(BufSize - 1),
         fill \in {" ", "0"}
  PROVE  /\ Converted(value, base, FALSE) = PaddedNow(<<>>, Numeral(value, base))
         /\ Converted(value, base, TRUE) = PaddedNow(<<"-">>, Numeral(value, base))
<1> DEFINE k == Passed(value, base)
           numeral == Numeral(value, base)
           Counted(less) == (width - k - less) % Word
           Padding(less) ==
             Filled(IF 1 < Counted(less) /\ Counted(less) < BufSize THEN Counted(less) - 1 ELSE 0, fill)
           Joins(sign, less) ==
             (IF fill = "0" THEN sign \o Padding(less) ELSE Padding(less) \o sign)
               \o Digits(value, base, k)
<1>1. Converted(value, base, FALSE) = Joins(<<>>, 0)
  BY DEF Converted
<1>2. Converted(value, base, TRUE) = Joins(<<"-">>, 1)
  BY DEF Converted
<1>3. k \in 0..WordBits /\ Digits(value, base, k) = numeral /\ Len(numeral) = k + 1
  BY PassedIs
<1>4. ASSUME NEW less \in {0, 1} PROVE Padding(less) = Filled(width - less - (k + 1), fill)
  <2> HIDE DEF k
  <2>1. QED
    BY <1>3, PadsTo, Zenon
<1> HIDE DEF k, Padding, numeral
<1>5. ASSUME NEW sign, NEW less \in {0, 1}, Len(sign) = less
      PROVE  Joins(sign, less) = PaddedNow(sign, numeral)
  <2> DEFINE m == width - less - (k + 1)
  <2>1. width - Len(sign) - Len(numeral) = m
    BY <1>3, <1>5
  <2>2. Padding(less) = Filled(m, fill)
    BY <1>4
  <2> HIDE DEF m
  <2>3. PaddedNow(sign, numeral)
          = IF fill = "0" THEN sign \o Filled(m, "0") \o numeral
            ELSE Filled(m, " ") \o sign \o numeral
    BY <2>1 DEF PaddedNow
  <2>4. QED
    BY <1>3, <2>2, <2>3
<1>6. Len(<<>>) = 0 /\ Len(<<"-">>) = 1
  OBVIOUS
<1> HIDE DEF Joins
<1>7. QED
  BY <1>1, <1>2, <1>5, <1>6 DEF numeral-----------------------------------------------------------------------------
(***************************************************************************)
(* The items of a call and what is said of them.                           *)
(***************************************************************************)

Plain == Chars \ {LF}

LEMMA DigitIs ==
  /\ Len(Digit) = 10 /\ DOMAIN Digit = 1..10
  /\ Digit[1] = "0" /\ Digit[2] = "1" /\ Digit[3] = "2" /\ Digit[4] = "3" /\ Digit[5] = "4"
  /\ Digit[6] = "5" /\ Digit[7] = "6" /\ Digit[8] = "7" /\ Digit[9] = "8" /\ Digit[10] = "9"
BY DEF Digit

\* The digits differ from each other and from what ends a command.
LEMMA DigitsAre ==
  /\ \A i, j \in 1..10 : Digit[i] = Digit[j] => i = j
  /\ \A c : c \in Range(Digit) <=> \E d \in 0..9 : c = Digit[d + 1]
  /\ \A d \in 0..9 : Digit[d + 1] \in Range(Digit) /\ (Digit[d + 1] = "0" => d = 0)
  /\ \A c \in {"%", "text", "c", "d", "i", "u", "x", "X", "p", "s"} : c \notin Range(Digit)
<1>1. \A i, j \in 1..10 : Digit[i] = Digit[j] => i = j
  BY DigitIs
<1>2. \A c : c \in Range(Digit) <=> \E d \in 0..9 : c = Digit[d + 1]
  <2>1. \A d \in 0..9 : d + 1 \in 1..10
    OBVIOUS
  <2>2. \A i \in 1..10 : i - 1 \in 0..9 /\ (i - 1) + 1 = i
    OBVIOUS
  <2>3. \A c : c \in Range(Digit) <=> \E i \in 1..10 : c = Digit[i]
    BY DigitIs DEF Range
  <2>4. QED
    BY <2>1, <2>2, <2>3
<1>3. \A d \in 0..9 : Digit[d + 1] = "0" => d = 0
  <2>1. \A d \in 0..9 : d + 1 \in 1..10 /\ (d + 1 = 1 => d = 0)
    OBVIOUS
  <2>2. 1 \in 1..10
    OBVIOUS
  <2>3. QED
    BY <1>1, <2>1, <2>2, DigitIs
<1>4. \A c \in {"%", "text", "c", "d", "i", "u", "x", "X", "p", "s"} : c \notin Range(Digit)
  <2>1. \A i \in 1..10 : Digit[i] \in {"0", "1", "2", "3", "4", "5", "6", "7", "8", "9"}
    BY DigitIs
  <2>2. \A i \in 1..10 :
          Digit[i] \notin {"%", "text", "c", "d", "i", "u", "x", "X", "p", "s"}
    BY <2>1
  <2>3. QED
    BY <2>2, DigitIs DEF Range
<1>5. QED
  BY <1>1, <1>2, <1>3, <1>4

\* What two sequences make, one behind the other.
Concats(S, s, t) ==
  /\ s \o t \in Seq(S) /\ Len(s \o t) = Len(s) + Len(t)
  /\ DOMAIN (s \o t) = 1..(Len(s) + Len(t))
  /\ \A i \in 1..(Len(s) + Len(t)) : (s \o t)[i] = IF i <= Len(s) THEN s[i] ELSE t[i - Len(s)]
  /\ \A i \in 1..(Len(s) + Len(t)) : (s \o t)[i] \in S

LEMMA ConcatIs ==
  ASSUME NEW S, NEW s \in Seq(S), NEW t \in Seq(S)
  PROVE  Concats(S, s, t)
<1>1. /\ s \o t \in Seq(S) /\ Len(s \o t) = Len(s) + Len(t)
      /\ \A i \in 1..(Len(s) + Len(t)) :
           (s \o t)[i] = IF i <= Len(s) THEN s[i] ELSE t[i - Len(s)]
  BY ConcatProperties
<1> DEFINE u == s \o t
<1>2. u \in Seq(S) /\ Len(u) = Len(s) + Len(t)
  BY <1>1
<1> HIDE DEF u
<1>3. DOMAIN u = 1..(Len(s) + Len(t)) /\ \A i \in 1..(Len(s) + Len(t)) : u[i] \in S
  BY <1>2, LenProperties, ElementOfSeq
<1>4. QED
  BY <1>1, <1>3 DEF u, Concats

LEMMA HexIs ==
  /\ DOMAIN Hex = 1..16
  /\ \A i \in 1..16 : Hex[i] \in Plain
  /\ \A i \in 1..10 : Hex[i] = Digit[i]
<1> DEFINE E == {"0", "1", "2", "3", "4", "5", "6", "7", "8", "9", "a", "b", "c", "d", "e", "f"}
           six == <<"a", "b", "c", "d", "e", "f">>
           dec == Digit
<1>1. six \in Seq(E) /\ Len(six) = 6
  OBVIOUS
<1>2. dec \in Seq(E) /\ Len(dec) = 10
  BY DEF Digit
<1>3. \A c \in E : c # LF
  BY DEF LF
<1>4. Hex = dec \o six
  BY DEF Hex
<1> HIDE DEF six, E, dec
<1>5. /\ DOMAIN Hex = 1..(10 + 6)
      /\ \A i \in 1..(10 + 6) : Hex[i] = IF i <= 10 THEN dec[i] ELSE six[i - 10]
      /\ \A i \in 1..(10 + 6) : Hex[i] \in E
  <2>1. Concats(E, dec, six)
    BY <1>1, <1>2, ConcatIs, Zenon
  <2>2. QED
    BY <1>1, <1>2, <1>4, <2>1 DEF Concats
<1>6. 10 + 6 = 16
  OBVIOUS
<1>7. DOMAIN Hex = 1..16 /\ \A i \in 1..16 : Hex[i] \in E
  BY <1>5, <1>6
<1>8. \A i \in 1..16 : Hex[i] \in Chars
  BY <1>7, CharsAssumption DEF Range
<1>9. \A i \in 1..10 : Hex[i] = dec[i]
  <2>1. \A i \in 1..10 : i \in 1..(10 + 6) /\ i <= 10
    OBVIOUS
  <2>2. QED
    BY <1>5, <2>1
<1>10. QED
  BY <1>3, <1>7, <1>8, <1>9 DEF Plain, dec

LEMMA PlainIs ==
  /\ Plain \subseteq Chars /\ CR \in Chars /\ LF \in Chars
  /\ "-" \in Plain /\ " " \in Plain /\ "%" \in Plain
  /\ "0" \in Plain /\ "E" \in Plain /\ "R" \in Plain /\ "O" \in Plain
  /\ \A i \in 1..10 : Digit[i] \in Plain
<1>1. CR \in Chars /\ LF \in Chars /\ "-" \in Chars /\ " " \in Chars /\ "%" \in Chars
      /\ "E" \in Chars /\ "R" \in Chars /\ "O" \in Chars
  BY CharsAssumption
<1>2. \A i \in 1..10 : Digit[i] = Hex[i]
  BY HexIs
<1>3. \A i \in 1..10 : i \in 1..16
  OBVIOUS
<1>4. \A i \in 1..10 : Digit[i] \in Plain
  BY <1>2, <1>3, HexIs
<1>5. "0" \in Plain
  <2>1. 1 \in 1..10
    OBVIOUS
  <2>2. QED
    BY <1>4, <2>1, DigitIs
<1>6. "-" # LF /\ " " # LF /\ "%" # LF /\ "E" # LF /\ "R" # LF /\ "O" # LF
  BY DEF LF
<1>7. QED
  BY <1>1, <1>4, <1>5, <1>6 DEF Plain

\* A text without line feeds is written as it is.
LEMMA PlainWritten ==
  ASSUME NEW s \in Seq(Plain)
  PROVE  Written(s) = s /\ s \in Seq(Chars)
<1>1. \A i \in 1..Len(s) : s[i] # LF
  <2>1. \A i \in 1..Len(s) : s[i] \in Plain
    BY ElementOfSeq
  <2>2. QED
    BY <2>1 DEF Plain
<1>2. Written(s) = s
  BY <1>1, WrittenPlain
<1>3. s \in Seq(Chars)
  BY PlainIs, SeqWider
<1>4. QED
  BY <1>2, <1>3

LEMMA FilledIs ==
  ASSUME NEW S, NEW c \in S, NEW n \in Int
  PROVE  Filled(n, c) \in Seq(S)
<1>1. CASE n >= 0
  <2>1. n \in Nat /\ [i \in 1..n |-> c] \in [1..n -> S]
    BY <1>1
  <2>2. QED
    BY <2>1, ListIsSeq DEF Filled
<1>2. CASE n < 0
  <2>1. 1..n = {} /\ 1..0 = {}
    BY <1>2
  <2>2. Filled(n, c) = [i \in 1..0 |-> c]
    BY <2>1 DEF Filled
  <2>3. [i \in 1..0 |-> c] \in [1..0 -> S] /\ 0 \in Nat
    OBVIOUS
  <2>4. QED
    BY <2>2, <2>3, ListIsSeq
<1>3. QED
  BY <1>1, <1>2

\* Three texts one behind the other.
LEMMA ThreeJoined ==
  ASSUME NEW S, NEW r \in Seq(S), NEW s \in Seq(S), NEW t \in Seq(S)
  PROVE  r \o s \o t \in Seq(S)
BY ConcatProperties

LEMMA NumeralPlain ==
  ASSUME NEW base \in Bases, NEW value \in 0..(Word - 1)
  PROVE  Numeral(value, base) \in Seq(Plain) /\ Len(Numeral(value, base)) \in Nat
<1> DEFINE n == Passed(value, base)
           e == Digits(value, base, n)
<1>1. n \in 0..WordBits /\ e = Numeral(value, base)
  BY PassedIs
<1> HIDE DEF n
<1>2. n + 1 \in Nat /\ n \in Nat /\ value \in Nat
  <2>1. WordBits \in Nat
    BY SizesAssumption
  <2> DEFINE w == Word
  <2>2. w \in Nat /\ value \in 0..(w - 1)
    BY WordType
  <2> HIDE DEF w
  <2>3. QED
    BY <1>1, <2>1, <2>2
<1>3. ASSUME NEW i \in 1..(n + 1)
      PROVE  Hex[((value \div Power(base, n + 1 - i)) % base) + 1] \in Plain
  <2> DEFINE p == Power(base, n + 1 - i)
             q == value \div p
  <2>1. n + 1 - i \in Nat
    BY <1>2
  <2>2. p \in Nat /\ p > 0
    BY <2>1, PowerGrows
  <2> HIDE DEF p
  <2>3. q \in Nat
    BY <1>2, <2>2
  <2> HIDE DEF q
  <2>4. (q % base) + 1 \in 1..16
    BY <2>3 DEF Bases
  <2>5. QED
    BY <2>4, HexIs DEF q, p
<1>4. e \in [1..(n + 1) -> Plain]
  BY <1>3 DEF Digits
<1> HIDE DEF e
<1>5. e \in Seq(Plain) /\ Len(e) = n + 1
  BY <1>2, <1>4, ListIsSeq
<1>6. QED
  BY <1>1, <1>2, <1>5-----------------------------------------------------------------------------
(***************************************************************************)
(* Sequences one behind the other, as the provers can calculate with them. *)
(***************************************************************************)

Cat(s, t) == s \o t

LEMMA CatLaws ==
  ASSUME NEW S, NEW r \in Seq(S), NEW s \in Seq(S), NEW t \in Seq(S)
  PROVE  /\ Cat(s, t) \in Seq(S) /\ Cat(Cat(r, s), t) = Cat(r, Cat(s, t))
         /\ Cat(<<>>, s) = s /\ Cat(s, <<>>) = s
         /\ Len(Cat(s, t)) = Len(s) + Len(t)
<1>1. s \o t \in Seq(S) /\ Len(s \o t) = Len(s) + Len(t)
  BY ConcatProperties
<1>2. (r \o s) \o t = r \o (s \o t)
  BY ConcatAssociative
<1>3. <<>> \o s = s /\ s \o <<>> = s
  BY ConcatEmptySeq
<1>4. QED
  BY <1>1, <1>2, <1>3 DEF Cat

LEMMA CatFirst ==
  ASSUME NEW S, NEW x \in S, NEW s \in Seq(S)
  PROVE  /\ <<x>> \in Seq(S) /\ Cat(<<x>>, s) \in Seq(S) /\ Cat(<<x>>, s) # <<>>
         /\ Head(Cat(<<x>>, s)) = x /\ Tail(Cat(<<x>>, s)) = s
<1> DEFINE u == <<x>> \o s
<1>1. <<x>> \in Seq(S) /\ Len(<<x>>) = 1 /\ <<x>>[1] = x /\ Len(s) \in Nat
  BY LenProperties
<1>2. /\ u \in Seq(S) /\ Len(u) = 1 + Len(s)
      /\ \A i \in 1..(1 + Len(s)) : u[i] = IF i <= 1 THEN <<x>>[i] ELSE s[i - 1]
  BY <1>1, ConcatProperties
<1> HIDE DEF u
<1>3. 1 \in 1..(1 + Len(s)) /\ u[1] = x
  BY <1>1, <1>2
<1>4. Len(u) # 0
  BY <1>1, <1>2
<1>5. u # <<>>
  BY <1>4, EmptySeq
<1>6. Head(u) = x
  BY <1>2, <1>3, <1>5
<1>7. /\ Tail(u) \in Seq(S) /\ Len(Tail(u)) = Len(s)
      /\ \A i \in 1..Len(Tail(u)) : Tail(u)[i] = u[i + 1]
  <2>1. /\ Tail(u) \in Seq(S) /\ Len(Tail(u)) = Len(u) - 1
        /\ \A i \in 1..Len(Tail(u)) : Tail(u)[i] = u[i + 1]
    BY <1>2, <1>5, HeadTailProperties
  <2>2. QED
    BY <1>1, <1>2, <2>1
<1>8. \A i \in 1..Len(Tail(u)) : Tail(u)[i] = s[i]
  <2>1. \A i \in 1..Len(s) : i + 1 \in 1..(1 + Len(s)) /\ ~(i + 1 <= 1) /\ (i + 1) - 1 = i
    BY <1>1
  <2>2. QED
    BY <1>2, <1>7, <2>1
<1>9. Tail(u) = s
  BY <1>7, <1>8, SeqEqual
<1>10. QED
  BY <1>1, <1>2, <1>5, <1>6, <1>9 DEF u, Cat

LEMMA CatMoves ==
  ASSUME NEW S, NEW x \in S, NEW s \in Seq(S), NEW t \in Seq(S)
  PROVE  Cat(Cat(<<x>>, s), t) = Cat(<<x>>, Cat(s, t))
<1> DEFINE r == <<x>>
<1>1. r \in Seq(S)
  BY CatFirst
<1> HIDE DEF r
<1>2. Cat(Cat(r, s), t) = Cat(r, Cat(s, t))
  BY <1>1, CatLaws
<1>3. QED
  BY <1>2 DEF r

LEMMA CatSplits ==
  ASSUME NEW S, NEW s \in Seq(S)
  PROVE  /\ s # <<>> => \E x \in S, t \in Seq(S) : s = Cat(<<x>>, t) /\ Len(t) = Len(s) - 1
         /\ \A t \in Seq(S) : Cat(s, t) = <<>> => s = <<>> /\ t = <<>>
<1>1. ASSUME s # <<>> PROVE \E x \in S, t \in Seq(S) : s = Cat(<<x>>, t) /\ Len(t) = Len(s) - 1
  <2>1. Len(s) \in Nat /\ Len(s) # 0
    BY <1>1, EmptySeq
  <2>2. 1 \in 1..Len(s) /\ Len(s) \in 1..Len(s)
    BY <2>1
  <2>3. SubSeq(s, 1, Len(s)) = <<s[1]>> \o SubSeq(s, 1 + 1, Len(s))
    BY <2>2, SubSeqRecursiveFirst
  <2>4. Tail(s) = SubSeq(s, 2, Len(s)) /\ SubSeq(s, 1, Len(s)) = s
    BY <1>1, TailIsSubSeq, SubSeqFull
  <2>5. Tail(s) \in Seq(S) /\ Len(Tail(s)) = Len(s) - 1 /\ s[1] \in S
    BY <1>1, <2>2, HeadTailProperties, ElementOfSeq
  <2>6. 1 + 1 = 2
    OBVIOUS
  <2>7. s = Cat(<<s[1]>>, Tail(s))
    BY <2>3, <2>4, <2>6 DEF Cat
  <2>8. QED
    BY <2>5, <2>7
<1>2. ASSUME NEW t \in Seq(S), Cat(s, t) = <<>> PROVE s = <<>> /\ t = <<>>
  BY <1>2, ConcatEqualIffEmpty DEF Cat
<1>3. QED
  BY <1>1, <1>2

\* What a text and another are written as.
LEMMA CatWritten ==
  ASSUME NEW s \in Seq(Chars), NEW t \in Seq(Chars)
  PROVE  /\ Written(Cat(s, t)) = Cat(Written(s), Written(t))
         /\ Written(s) \in Seq(Chars) /\ Written(<<>>) = <<>>
<1>1. Written(s \o t) = Written(s) \o Written(t) /\ Written(s) \in Seq(Chars)
      /\ Written(<<>>) = <<>>
  BY WrittenConcat, PlainIs
<1>2. QED
  BY <1>1 DEF Cat-----------------------------------------------------------------------------
(* An item and its directive.                                              *)

LEMMA ItemIs ==
  ASSUME NEW item \in Items
  PROVE  /\ item.width \in Nat /\ item.width < BufSize /\ item.width < 100
         /\ item.zero \in BOOLEAN /\ item.kind \notin Range(Digit)
         /\ item.kind = "text" => item.value \in Seq(Chars \ {"%"}) /\ item.value \in Seq(Chars)
         /\ item.kind # "text" =>
              /\ item.kind \in Chars
              /\ item.kind = "s" => item.value \in Seq(Chars)
              /\ item.kind = "c" => item.value \in Chars
              /\ item.kind \in Numeric => item.value \in 0..(Word - 1)
<1>1. WellFormed(item)
  BY JobsAssumption
<1>2. item.width \in Nat /\ item.width < BufSize /\ item.width < 100
  BY <1>1, SizesAssumption DEF WellFormed
<1>3. "text" \notin Chars
  BY CharsAssumption
<1>4. CASE item.kind = "text"
  <2>1. item.value \in Seq(Chars \ {"%"})
    BY <1>1, <1>3, <1>4 DEF WellFormed
  <2>2. Chars \ {"%"} \subseteq Chars
    OBVIOUS
  <2>3. item.value \in Seq(Chars)
    BY <2>1, <2>2, SeqWider, Zenon
  <2>4. item.kind \notin Range(Digit)
    BY <1>4, DigitsAre
  <2>5. item.zero \in BOOLEAN
    BY <1>1 DEF WellFormed
  <2>6. QED
    BY <1>2, <1>4, <2>1, <2>3, <2>4, <2>5, Zenon
<1>5. CASE item.kind # "text"
  <2>1. /\ item.zero \in BOOLEAN
        /\ item.kind \in Chars \ Range(Digit)
        /\ item.kind = "s" => item.value \in Seq(Chars)
        /\ item.kind = "c" => item.value \in Chars
        /\ item.kind \in Numeric => item.value \in 0..(Word - 1)
    BY <1>1, <1>5, Zenon DEF WellFormed
  <2>2. QED
    BY <1>2, <1>5, <2>1, Zenon
<1>6. QED
  BY <1>4, <1>5

\* The digits of a directive.
LEMMA DigitsTyped ==
  ASSUME NEW item \in Items
  PROVE  /\ Zeros(item) \in Seq(Chars) /\ Tens(item) \in Seq(Chars) /\ Ones(item) \in Seq(Chars)
         /\ Zeros(item) = IF item.zero THEN <<Digit[0 + 1]>> ELSE <<>>
         /\ item.width < 10 => Tens(item) = <<>>
         /\ item.width >= 10 => Tens(item) = <<Digit[(item.width \div 10) + 1]>>
         /\ item.width = 0 => Ones(item) = <<>>
         /\ item.width > 0 => Ones(item) = <<Digit[(item.width % 10) + 1]>>
         /\ item.width \div 10 \in 0..9 /\ item.width % 10 \in 0..9
         /\ item.width >= 10 => item.width \div 10 # 0
         /\ item.width < 10 => item.width \div 10 = 0
         /\ item.width = 10 * (item.width \div 10) + (item.width % 10)
<1> DEFINE w == item.width
<1>1. w \in Nat /\ w < 100
  BY ItemIs
<1> HIDE DEF w
<1>2. /\ w \div 10 \in 0..9 /\ w % 10 \in 0..9 /\ (w >= 10 => w \div 10 # 0)
      /\ (w < 10 => w \div 10 = 0) /\ w = 10 * (w \div 10) + (w % 10)
  BY <1>1
<1>3. \A d \in 0..9 : Digit[d + 1] \in Chars /\ <<Digit[d + 1]>> \in Seq(Chars)
  <2>1. \A d \in 0..9 : d + 1 \in 1..10
    OBVIOUS
  <2>2. \A d \in 0..9 : Digit[d + 1] \in Chars
    BY <2>1, PlainIs
  <2>3. QED
    BY <2>2, CatFirst, Starts
<1>4. <<>> \in Seq(Chars) /\ 0 \in 0..9
  BY Starts
<1>5. Zeros(item) = IF item.zero THEN <<Digit[0 + 1]>> ELSE <<>>
  BY DigitIs DEF Zeros
<1>6. Zeros(item) \in Seq(Chars)
  BY <1>3, <1>4, <1>5
<1>7. /\ w < 10 => Tens(item) = <<>>
      /\ w >= 10 => Tens(item) = <<Digit[(w \div 10) + 1]>>
  BY <1>1 DEF Tens, w
<1>8. /\ w = 0 => Ones(item) = <<>>
      /\ w > 0 => Ones(item) = <<Digit[(w % 10) + 1]>>
  BY <1>1 DEF Ones, w
<1>9. Tens(item) \in Seq(Chars)
  <2>1. w < 10 \/ w >= 10
    BY <1>1
  <2>2. <<Digit[(w \div 10) + 1]>> \in Seq(Chars)
    BY <1>2, <1>3
  <2>3. QED
    BY <1>4, <1>7, <2>1, <2>2
<1>10. Ones(item) \in Seq(Chars)
  <2>1. w = 0 \/ w > 0
    BY <1>1
  <2>2. <<Digit[(w % 10) + 1]>> \in Seq(Chars)
    BY <1>2, <1>3
  <2>3. QED
    BY <1>4, <1>8, <2>1, <2>2
<1>11. QED
  BY <1>2, <1>5, <1>6, <1>7, <1>8, <1>9, <1>10 DEF w

FillOf(item) == IF item.zero THEN "0" ELSE " "

\* What is left of a command's digits when its width and its fill are these.
Stage(item, d, w, f) ==
  \/ d = Cat(Cat(Zeros(item), Tens(item)), Ones(item)) /\ w = 0 /\ f = " "
  \/ d = Cat(Tens(item), Ones(item)) /\ w = 0 /\ f = FillOf(item)
  \/ d = Ones(item) /\ w = item.width \div 10 /\ f = FillOf(item)
  \/ d = <<>> /\ w = item.width /\ f = FillOf(item)

LEMMA StageIs ==
  ASSUME NEW item, NEW d, NEW w, NEW f
  PROVE  Stage(item, d, w, f) <=> \E p \in Parsing(item) : d = p.digits /\ w = p.width /\ f = p.fill
<1> DEFINE R(e, v, g) == [digits |-> e, width |-> v, fill |-> g]
           a == Zeros(item) \o Tens(item) \o Ones(item)
           b == Tens(item) \o Ones(item)
<1>1. Parsing(item) = {R(a, 0, " "), R(b, 0, FillOf(item)),
                       R(Ones(item), item.width \div 10, FillOf(item)),
                       R(<<>>, item.width, FillOf(item))}
  BY DEF Parsing, FillOf
<1>2. \A e, v, g : R(e, v, g).digits = e /\ R(e, v, g).width = v /\ R(e, v, g).fill = g
  OBVIOUS
<1>3. a = Cat(Cat(Zeros(item), Tens(item)), Ones(item)) /\ b = Cat(Tens(item), Ones(item))
  BY DEF Cat
<1> HIDE DEF R, a, b
<1>4. (\E p \in Parsing(item) : d = p.digits /\ w = p.width /\ f = p.fill)
        <=> \/ d = a /\ w = 0 /\ f = " "
            \/ d = b /\ w = 0 /\ f = FillOf(item)
            \/ d = Ones(item) /\ w = item.width \div 10 /\ f = FillOf(item)
            \/ d = <<>> /\ w = item.width /\ f = FillOf(item)
  <2> DEFINE Fits(p) == d = p.digits /\ w = p.width /\ f = p.fill
  <2>1. \A e, v, g : Fits(R(e, v, g)) <=> d = e /\ w = v /\ f = g
    BY <1>2
  <2> HIDE DEF Fits
  <2>2. (\E p \in Parsing(item) : Fits(p))
          <=> \/ Fits(R(a, 0, " ")) \/ Fits(R(b, 0, FillOf(item)))
              \/ Fits(R(Ones(item), item.width \div 10, FillOf(item)))
              \/ Fits(R(<<>>, item.width, FillOf(item)))
    BY <1>1
  <2>3. QED
    BY <2>1, <2>2, Zenon DEF Fits
<1>5. QED
  BY <1>3, <1>4, Zenon DEF Stage

\* When no digit is left, the width and the fill are those of the item.
LEMMA DigitsDone ==
  ASSUME NEW item \in Items, NEW w, NEW f, Stage(item, <<>>, w, f)
  PROVE  w = item.width /\ f = FillOf(item)
<1> DEFINE z == Zeros(item)
           t == Tens(item)
           o == Ones(item)
<1>1. z \in Seq(Chars) /\ t \in Seq(Chars) /\ o \in Seq(Chars)
  BY DigitsTyped
<1>2. \A x \in Chars : <<x>> # <<>>
  OBVIOUS
<1>3. \A d \in 0..9 : <<Digit[d + 1]>> # <<>>
  OBVIOUS
<1>4. (z = <<>> => ~item.zero) /\ (t = <<>> => item.width < 10) /\ (o = <<>> => item.width = 0)
  <2>1. z = <<>> => ~item.zero
    <3>1. 0 \in 0..9 /\ z = IF item.zero THEN <<Digit[0 + 1]>> ELSE <<>>
      BY DigitsTyped
    <3>2. QED
      BY <1>3, <3>1
  <2>2. t = <<>> => item.width < 10
    <3>1. item.width < 10 \/ item.width >= 10
      BY ItemIs
    <3>2. item.width \div 10 \in 0..9 /\ (item.width >= 10 => t = <<Digit[(item.width \div 10) + 1]>>)
      BY DigitsTyped
    <3>3. QED
      BY <1>3, <3>1, <3>2
  <2>3. o = <<>> => item.width = 0
    <3>1. item.width = 0 \/ item.width > 0
      BY ItemIs
    <3>2. item.width % 10 \in 0..9 /\ (item.width > 0 => o = <<Digit[(item.width % 10) + 1]>>)
      BY DigitsTyped
    <3>3. QED
      BY <1>3, <3>1, <3>2
  <2>4. QED
    BY <2>1, <2>2, <2>3
<1>5. item.width < 10 => item.width \div 10 = 0
  BY DigitsTyped
<1> HIDE DEF z, t, o
<1>6. CASE <<>> = Cat(Cat(z, t), o) /\ w = 0 /\ f = " "
  <2>1. Cat(z, t) \in Seq(Chars)
    BY <1>1, CatLaws
  <2>2. Cat(z, t) = <<>> /\ o = <<>>
    BY <1>1, <1>6, <2>1, CatSplits
  <2>3. z = <<>>
    BY <1>1, <2>2, CatSplits
  <2>4. QED
    BY <1>4, <1>6, <2>2, <2>3 DEF FillOf
<1>7. CASE <<>> = Cat(t, o) /\ w = 0 /\ f = FillOf(item)
  <2>1. o = <<>>
    BY <1>1, <1>7, CatSplits
  <2>2. QED
    BY <1>4, <1>7, <2>1
<1>8. CASE <<>> = o /\ w = item.width \div 10 /\ f = FillOf(item)
  <2>1. item.width = 0
    BY <1>4, <1>8
  <2>2. item.width \div 10 = 0
    BY <1>5, <2>1
  <2>3. QED
    BY <1>8, <2>1, <2>2
<1>9. QED
  BY <1>6, <1>7, <1>8 DEF Stage, z, t, o

\* The loop reads a digit and is at the next stage.
LEMMA DigitRead ==
  ASSUME NEW item \in Items, NEW d, NEW w, NEW f, Stage(item, d, w, f), d # <<>>
  PROVE  \E k \in 0..9, e \in Seq(Chars) :
           /\ d = Cat(<<Digit[k + 1]>>, e)
           /\ Stage(item, e, (10 * w + k) % Word, IF k = 0 /\ w = 0 THEN "0" ELSE f)
<1> DEFINE z == Zeros(item)
           t == Tens(item)
           o == Ones(item)
           n == item.width
           W == Word
           Goal == \E k \in 0..9, e \in Seq(Chars) :
                     /\ d = Cat(<<Digit[k + 1]>>, e)
                     /\ Stage(item, e, (10 * w + k) % W, IF k = 0 /\ w = 0 THEN "0" ELSE f)
<1>1. /\ z \in Seq(Chars) /\ t \in Seq(Chars) /\ o \in Seq(Chars) /\ Cat(t, o) \in Seq(Chars)
      /\ <<>> \in Seq(Chars)
  BY DigitsTyped, CatLaws, Starts
<1>2. W \in Nat /\ n \in Nat /\ n < W /\ n < 100 /\ W >= 2
  <2>1. W \in Nat /\ W >= 2 /\ BufSize \in Nat /\ WordBits \in Nat /\ BufSize + WordBits < W
    BY WordType, SizesAssumption
  <2>2. n \in Nat /\ n < BufSize /\ n < 100
    BY ItemIs
  <2> HIDE DEF W, n
  <2>3. QED
    BY <2>1, <2>2
<1>3. /\ z = IF item.zero THEN <<Digit[0 + 1]>> ELSE <<>>
      /\ n < 10 => t = <<>> /\ n \div 10 = 0
      /\ n >= 10 => t = <<Digit[(n \div 10) + 1]>> /\ n \div 10 # 0
      /\ n = 0 => o = <<>>
      /\ n > 0 => o = <<Digit[(n % 10) + 1]>>
      /\ n \div 10 \in 0..9 /\ n % 10 \in 0..9
      /\ n = 10 * (n \div 10) + (n % 10)
  BY DigitsTyped
<1>4. \A k \in 0..9 : Digit[k + 1] \in Chars /\ <<Digit[k + 1]>> \in Seq(Chars)
  <2>1. \A k \in 0..9 : k + 1 \in 1..10
    OBVIOUS
  <2>2. \A k \in 0..9 : Digit[k + 1] \in Chars
    BY <2>1, PlainIs
  <2>3. QED
    BY <1>1, <2>2, CatFirst
<1> HIDE DEF z, t, o, n, W
<1> DEFINE ten == n \div 10
           one == n % 10
<1>5. ten \in 0..9 /\ one \in 0..9 /\ n = 10 * ten + one /\ 0 \in 0..9
  BY <1>3
<1>6. ASSUME d = o, w = ten, f = FillOf(item) PROVE Goal
  <2>1. n > 0 /\ o = <<Digit[one + 1]>>
    BY <1>2, <1>3, <1>6
  <2>2. o = Cat(<<Digit[one + 1]>>, <<>>)
    <3>1. o \in Seq(Chars) /\ Cat(o, <<>>) = o
      BY <1>1, CatLaws
    <3>2. QED
      BY <2>1, <3>1
  <2> HIDE DEF ten, one
  <2>3. (10 * w + one) % W = n
    BY <1>2, <1>5, <1>6, Wraps
  <2>4. ~(one = 0 /\ w = 0)
    BY <1>5, <1>6, <2>1
  <2>5. Stage(item, <<>>, (10 * w + one) % W, IF one = 0 /\ w = 0 THEN "0" ELSE f)
    BY <1>6, <2>3, <2>4 DEF Stage, n
  <2>6. QED
    BY <1>1, <1>5, <1>6, <2>2, <2>5
<1>7. ASSUME d = Cat(t, o), w = 0, f = FillOf(item) PROVE Goal
  <2>1. CASE n < 10
    <3>1. d = o /\ w = ten
      BY <1>1, <1>3, <1>7, <2>1, CatLaws
    <3>2. QED
      BY <1>6, <1>7, <3>1
  <2>2. CASE ~(n < 10)
    <3>1. t = <<Digit[ten + 1]>> /\ ten # 0
      BY <1>2, <1>3, <2>2
    <3> HIDE DEF ten
    <3>2. (10 * w + ten) % W = ten
      BY <1>2, <1>5, <1>7, <2>2, Wraps
    <3>3. Stage(item, o, (10 * w + ten) % W, IF ten = 0 /\ w = 0 THEN "0" ELSE f)
      BY <1>7, <3>1, <3>2 DEF Stage, ten, o, n
    <3>4. QED
      BY <1>1, <1>5, <1>7, <3>1, <3>3
  <2>3. QED
    BY <2>1, <2>2
<1>8. ASSUME d = Cat(Cat(z, t), o), w = 0, f = " " PROVE Goal
  <2>1. CASE ~item.zero
    <3>1. z = <<>> /\ f = FillOf(item)
      BY <1>3, <1>8, <2>1 DEF FillOf
    <3>2. d = Cat(t, o)
      BY <1>1, <1>8, <3>1, CatLaws
    <3>3. QED
      BY <1>7, <1>8, <3>1, <3>2
  <2>2. CASE item.zero
    <3>1. z = <<Digit[0 + 1]>> /\ FillOf(item) = "0"
      BY <1>3, <2>2 DEF FillOf
    <3>2. d = Cat(<<Digit[0 + 1]>>, Cat(t, o))
      <4>1. Cat(Cat(z, t), o) = Cat(z, Cat(t, o))
        BY <1>1, CatLaws
      <4>2. QED
        BY <1>8, <3>1, <4>1
    <3>3. (10 * w + 0) % W = 0
      <4>0. w = 0
        BY <1>8
      <4>1. 10 * w + 0 = 0
        BY <4>0
      <4>2. QED
        BY <1>2, <4>1, Wraps
    <3>4. Stage(item, Cat(t, o), (10 * w + 0) % W, IF 0 = 0 /\ w = 0 THEN "0" ELSE f)
      BY <1>8, <3>1, <3>3 DEF Stage, t, o
    <3>5. QED
      BY <1>1, <1>5, <3>2, <3>4
  <2>3. QED
    BY <2>1, <2>2
<1>9. Goal
  <2>1. \/ d = Cat(Cat(z, t), o) /\ w = 0 /\ f = " "
        \/ d = Cat(t, o) /\ w = 0 /\ f = FillOf(item)
        \/ d = o /\ w = ten /\ f = FillOf(item)
    BY DEF Stage, z, t, o, n
  <2> HIDE DEF Goal
  <2>2. QED
    BY <1>6, <1>7, <1>8, <2>1
<1>10. QED
  BY <1>9 DEF W-----------------------------------------------------------------------------
(* What is said of an item.                                                *)

Kinds == {"c", "d", "i", "u", "x", "X", "p", "s", "%"}

LEMMA ExpectedIs ==
  ASSUME NEW item
  PROVE  /\ item.kind = "text" => Expected(item) = Written(item.value)
         /\ item.kind = "c" => Expected(item) = Written(<<item.value>>)
         /\ item.kind = "s" =>
              Expected(item)
                = Cat(Written(item.value), Filled(item.width - Len(item.value), " "))
         /\ item.kind = "u" => Expected(item) = Padded(item, <<>>, Numeral(item.value, 10))
         /\ item.kind \in {"d", "i"} =>
              Expected(item)
                = IF item.value < Word \div 2 THEN Padded(item, <<>>, Numeral(item.value, 10))
                  ELSE Padded(item, <<"-">>, Numeral(Word - item.value, 10))
         /\ item.kind \in {"x", "X", "p"} =>
              Expected(item) = Padded(item, <<>>, Numeral(item.value, 16))
         /\ item.kind = "%" => Expected(item) = <<"%">>
         /\ item.kind \notin Kinds \cup {"text"} => Expected(item) = <<"E", "R", "R", "O", "R">>
<1>1. item.kind = "s" =>
        Expected(item) = Cat(Written(item.value), Filled(item.width - Len(item.value), " "))
  BY DEF Expected, Cat
<1>2. item.kind # "s" => Expected(item) = Documented(item)
  BY DEF Expected
<1>3. QED
  BY <1>1, <1>2 DEF Documented, Kinds

LEMMA PaddedTyped ==
  ASSUME NEW item \in Items, NEW sign \in Seq(Plain), NEW numeral \in Seq(Plain)
  PROVE  Padded(item, sign, numeral) \in Seq(Plain)
<1> DEFINE n == item.width - Len(sign) - Len(numeral)
<1>1. n \in Int
  <2>1. item.width \in Nat /\ Len(sign) \in Nat /\ Len(numeral) \in Nat
    BY ItemIs, LenProperties
  <2>2. QED
    BY <2>1
<1> HIDE DEF n
<1>2. Filled(n, "0") \in Seq(Plain) /\ Filled(n, " ") \in Seq(Plain)
  BY <1>1, FilledIs, PlainIs
<1>3. sign \o Filled(n, "0") \o numeral \in Seq(Plain)
  BY <1>2, ThreeJoined
<1>4. Filled(n, " ") \o sign \o numeral \in Seq(Plain)
  BY <1>2, ThreeJoined
<1>5. QED
  BY <1>3, <1>4 DEF Padded, n

LEMMA SignsPlain ==
  /\ <<>> \in Seq(Plain) /\ <<"-">> \in Seq(Plain) /\ <<"%">> \in Seq(Plain)
  /\ <<"E", "R", "R", "O", "R">> \in Seq(Plain)
<1>1. "-" \in Plain /\ "%" \in Plain /\ "E" \in Plain /\ "R" \in Plain /\ "O" \in Plain
  BY PlainIs
<1>2. \A S, a, b, c : a \in S /\ b \in S /\ c \in S => <<a, b, b, c, b>> \in Seq(S)
  OBVIOUS
<1>3. \A S, a : a \in S => <<a>> \in Seq(S)
  OBVIOUS
<1>4. <<>> \in Seq(Plain)
  BY Starts
<1>5. QED
  BY <1>1, <1>2, <1>3, <1>4, Zenon

\* The numbers that a signed command converts.
LEMMA SignedIs ==
  ASSUME NEW value \in 0..(Word - 1)
  PROVE  /\ (value >= Word \div 2) <=> ~(value < Word \div 2)
         /\ value >= Word \div 2 => /\ (Word - value) % Word = Word - value
                                    /\ Word - value \in 0..(Word - 1)
<1> DEFINE w == Word
           h == w \div 2
<1>1. w \in Nat /\ w >= 2
  BY WordType
<1> HIDE DEF w
<1>2. h \in Nat /\ h >= 1 /\ value \in Nat /\ value < w
  <2>1. value \in 0..(w - 1)
    BY DEF w
  <2>2. QED
    BY <1>1, <2>1
<1> HIDE DEF h
<1>3. (value >= h) <=> ~(value < h)
  BY <1>2
<1>4. ASSUME value >= h PROVE (w - value) % w = w - value /\ w - value \in 0..(w - 1)
  <2>1. w - value \in Nat /\ w - value < w
    BY <1>1, <1>2, <1>4
  <2> DEFINE x == w - value
  <2>2. x \in Nat /\ x < w
    BY <2>1
  <2> HIDE DEF x
  <2>3. x % w = x /\ x \in 0..(w - 1)
    BY <1>1, <2>2, Wraps
  <2>4. QED
    BY <2>3 DEF x
<1>5. QED
  BY <1>3, <1>4 DEF w, h

LEMMA ExpectedTyped ==
  ASSUME NEW item \in Items
  PROVE  Expected(item) \in Seq(Chars)
<1>1. CASE item.kind = "text"
  <2>1. item.value \in Seq(Chars)
    BY <1>1, ItemIs
  <2>2. QED
    BY <1>1, <2>1, ExpectedIs, CatWritten
<1>2. CASE item.kind = "c"
  <2>1. item.value \in Chars
    BY <1>2, ItemIs
  <2>2. <<item.value>> \in Seq(Chars)
    BY <2>1
  <2>3. QED
    BY <1>2, <2>2, ExpectedIs, CatWritten
<1>3. CASE item.kind = "s"
  <2>1. item.value \in Seq(Chars) /\ item.width \in Nat /\ Len(item.value) \in Nat
    BY <1>3, ItemIs, LenProperties
  <2>0. \A m \in Nat, n \in Nat : m - n \in Int
    OBVIOUS
  <2>2. item.width - Len(item.value) \in Int /\ " " \in Chars
    BY <2>0, <2>1, PlainIs, Zenon
  <2>3. Filled(item.width - Len(item.value), " ") \in Seq(Chars) /\ Written(item.value) \in Seq(Chars)
    BY <2>1, <2>2, FilledIs, CatWritten
  <2>4. QED
    <3>1. Cat(Written(item.value), Filled(item.width - Len(item.value), " ")) \in Seq(Chars)
      <4> DEFINE a == Written(item.value)
                 b == Filled(item.width - Len(item.value), " ")
      <4>1. a \in Seq(Chars) /\ b \in Seq(Chars)
        BY <2>3
      <4> HIDE DEF a, b
      <4>2. Cat(a, b) \in Seq(Chars)
        BY <4>1, CatLaws
      <4>3. QED
        BY <4>2 DEF a, b
    <3>2. QED
      BY <1>3, <3>1, ExpectedIs, Zenon
<1>4. CASE item.kind \in Numeric
  <2>1. item.value \in 0..(Word - 1)
    BY <1>4, ItemIs DEF Numeric
  <2>2. 10 \in Bases /\ 16 \in Bases
    BY DEF Bases
  <2>3. /\ Padded(item, <<>>, Numeral(item.value, 10)) \in Seq(Plain)
        /\ Padded(item, <<>>, Numeral(item.value, 16)) \in Seq(Plain)
    BY <2>1, <2>2, NumeralPlain, PaddedTyped, SignsPlain
  <2>4. ~(item.value < Word \div 2) => Padded(item, <<"-">>, Numeral(Word - item.value, 10)) \in Seq(Plain)
    BY <2>1, <2>2, NumeralPlain, PaddedTyped, SignsPlain, SignedIs
  <2>5. Expected(item) \in Seq(Plain)
    BY <1>4, <2>3, <2>4, ExpectedIs DEF Numeric
  <2>6. QED
    BY <2>5, PlainWritten
<1>5. CASE item.kind \notin Numeric \cup {"c", "s", "text"}
  <2>1. Expected(item) \in Seq(Plain)
    BY <1>5, ExpectedIs, SignsPlain DEF Numeric, Kinds
  <2>2. QED
    BY <2>1, PlainWritten
<1>6. QED
  BY <1>1, <1>2, <1>3, <1>4, <1>5-----------------------------------------------------------------------------
(* The items of a call, one behind the other.                              *)

LEMMA DirectiveIs ==
  ASSUME NEW item \in Items, item.kind # "text"
  PROVE  LET digits == Cat(Cat(Zeros(item), Tens(item)), Ones(item))
         IN  /\ digits \in Seq(Chars) /\ <<item.kind>> \in Seq(Chars)
             /\ Directive(item) = Cat(<<"%">>, Cat(digits, <<item.kind>>))
             /\ Directive(item) \in Seq(Chars)
<1> DEFINE z == Zeros(item)
           t == Tens(item)
           o == Ones(item)
           k == <<item.kind>>
           h == <<"%">>
<1>1. z \in Seq(Chars) /\ t \in Seq(Chars) /\ o \in Seq(Chars)
  BY DigitsTyped
<1>2. item.kind \in Chars /\ "%" \in Chars
  BY ItemIs, CharsAssumption
<1>3. k \in Seq(Chars) /\ h \in Seq(Chars)
  BY <1>2
<1>4. Directive(item) = Cat(Cat(Cat(Cat(h, z), t), o), k)
  BY DEF Directive, Cat
<1> HIDE DEF z, t, o, k, h
<1>5. Cat(z, t) \in Seq(Chars) /\ Cat(h, z) \in Seq(Chars)
  BY <1>1, <1>3, CatLaws
<1>6. Cat(Cat(z, t), o) \in Seq(Chars) /\ Cat(Cat(h, z), t) = Cat(h, Cat(z, t))
  BY <1>1, <1>3, <1>5, CatLaws
<1>7. Cat(Cat(h, Cat(z, t)), o) = Cat(h, Cat(Cat(z, t), o))
  BY <1>1, <1>3, <1>5, CatLaws
<1>8. Cat(Cat(h, Cat(Cat(z, t), o)), k) = Cat(h, Cat(Cat(Cat(z, t), o), k))
  BY <1>3, <1>6, CatLaws
<1>9. Cat(Cat(Cat(z, t), o), k) \in Seq(Chars)
  BY <1>3, <1>6, CatLaws
<1>10. Cat(h, Cat(Cat(Cat(z, t), o), k)) \in Seq(Chars)
  BY <1>3, <1>9, CatLaws
<1>11. QED
  BY <1>3, <1>4, <1>6, <1>7, <1>8, <1>10 DEF z, t, o, k, h

Values == {item.value : item \in Items}
FormatOf == [item \in Items |-> IF item.kind = "text" THEN item.value ELSE Directive(item)]
ArgumentsOf == [item \in Items |-> IF Takes(item) THEN <<item.value>> ELSE <<>>]
ExpectationOf == [item \in Items |-> Expected(item)]

LEMMA ItemTexts ==
  /\ FormatOf \in [Items -> Seq(Chars)]
  /\ ArgumentsOf \in [Items -> Seq(Values)]
  /\ ExpectationOf \in [Items -> Seq(Chars)]
<1>1. \A item \in Items :
        (IF item.kind = "text" THEN item.value ELSE Directive(item)) \in Seq(Chars)
  BY ItemIs, DirectiveIs
<1>2. \A item \in Items : item.value \in Values
  BY DEF Values
<1>3. \A x \in Values : <<x>> \in Seq(Values)
  OBVIOUS
<1>4. <<>> \in Seq(Values)
  BY Starts
<1>5. \A item \in Items : (IF Takes(item) THEN <<item.value>> ELSE <<>>) \in Seq(Values)
  BY <1>2, <1>3, <1>4
<1>6. \A item \in Items : Expected(item) \in Seq(Chars)
  BY ExpectedTyped
<1>7. QED
  BY <1>1, <1>5, <1>6 DEF FormatOf, ArgumentsOf, ExpectationOf

LEMMA ItemsAreJoined ==
  ASSUME NEW s \in Seq(Items)
  PROVE  /\ Format(s) = Joined(FormatOf, s)
         /\ Arguments(s) = Joined(ArgumentsOf, s)
         /\ Expectation(s) = Joined(ExpectationOf, s)
<1>1. \A i \in 1..Len(s) : s[i] \in Items
  BY ElementOfSeq
<1>2. [i \in 1..Len(s) |-> IF s[i].kind = "text" THEN s[i].value ELSE Directive(s[i])]
        = [i \in 1..Len(s) |-> FormatOf[s[i]]]
  BY <1>1 DEF FormatOf
<1>3. [i \in 1..Len(s) |-> IF Takes(s[i]) THEN <<s[i].value>> ELSE <<>>]
        = [i \in 1..Len(s) |-> ArgumentsOf[s[i]]]
  BY <1>1 DEF ArgumentsOf
<1>4. [i \in 1..Len(s) |-> Expected(s[i])] = [i \in 1..Len(s) |-> ExpectationOf[s[i]]]
  BY <1>1 DEF ExpectationOf
<1>5. QED
  BY <1>2, <1>3, <1>4, Zenon DEF Format, Arguments, Expectation, Joined

\* What JoinedParts, JoinedSmall and JoinedConcat say.
Joins(f, S, T, s, t, x) ==
  /\ Joined(f, s) \in Seq(T) /\ Joined(f, <<>>) = <<>> /\ Joined(f, <<x>>) = f[x]
  /\ Joined(f, Cat(s, t)) = Cat(Joined(f, s), Joined(f, t))

LEMMA JoinedIs ==
  ASSUME NEW S, NEW T, NEW f \in [S -> Seq(T)], NEW s \in Seq(S), NEW t \in Seq(S), NEW x \in S
  PROVE  Joins(f, S, T, s, t, x)
<1>1. Joined(f, s) \in Seq(T)
  BY JoinedParts, Zenon
<1>2. Joined(f, <<>>) = <<>> /\ Joined(f, <<x>>) = f[x]
  BY JoinedSmall, Zenon
<1>3. Joined(f, Cat(s, t)) = Cat(Joined(f, s), Joined(f, t))
  <2>1. JoinsAt(f, s, t)
    BY JoinedConcat, Zenon
  <2>2. QED
    BY <2>1 DEF JoinsAt, Cat
<1>4. QED
  BY <1>1, <1>2, <1>3 DEF Joins

LEMMA ExpectationJoins ==
  ASSUME NEW s \in Seq(Items), NEW t \in Seq(Items)
  PROVE  /\ Expectation(Cat(s, t)) = Cat(Expectation(s), Expectation(t))
         /\ Expectation(s) \in Seq(Chars)
<1>1. JoinsAt(ExpectationOf, s, t)
  BY ItemTexts, JoinedConcat, Zenon
<1>2. Joined(ExpectationOf, s) \in Seq(Chars)
  BY ItemTexts, JoinedParts, Zenon
<1>3. /\ Expectation(s) = Joined(ExpectationOf, s)
      /\ Expectation(t) = Joined(ExpectationOf, t)
  BY ItemsAreJoined
<1>4. Expectation(Cat(s, t)) = Joined(ExpectationOf, Cat(s, t))
  <2>1. Cat(s, t) \in Seq(Items)
    BY CatLaws
  <2>2. QED
    BY <2>1, ItemsAreJoined
<1>5. QED
  BY <1>1, <1>2, <1>3, <1>4 DEF JoinsAt, Cat

LEMMA ItemsJoin ==
  ASSUME NEW s \in Seq(Items), NEW t \in Seq(Items), NEW x \in Items
  PROVE  /\ Format(s) \in Seq(Chars) /\ Arguments(s) \in Seq(Values)
         /\ Expectation(s) \in Seq(Chars)
         /\ Format(<<>>) = <<>> /\ Arguments(<<>>) = <<>> /\ Expectation(<<>>) = <<>>
         /\ Format(Cat(s, t)) = Cat(Format(s), Format(t))
         /\ Arguments(Cat(s, t)) = Cat(Arguments(s), Arguments(t))
         /\ Expectation(Cat(s, t)) = Cat(Expectation(s), Expectation(t))
         /\ Format(<<x>>) = FormatOf[x] /\ Arguments(<<x>>) = ArgumentsOf[x]
         /\ Expectation(<<x>>) = ExpectationOf[x]
<1>1. <<>> \in Seq(Items) /\ <<x>> \in Seq(Items) /\ Cat(s, t) \in Seq(Items)
  BY CatLaws, CatFirst, Starts
<1>2. Joins(FormatOf, Items, Chars, s, t, x)
  BY ItemTexts, JoinedIs, Zenon
<1>3. Joins(ArgumentsOf, Items, Values, s, t, x)
  BY ItemTexts, JoinedIs, Zenon
<1>4. Joins(ExpectationOf, Items, Chars, s, t, x)
  BY ItemTexts, JoinedIs, Zenon
<1>5. \A r \in Seq(Items) : /\ Format(r) = Joined(FormatOf, r)
                            /\ Arguments(r) = Joined(ArgumentsOf, r)
                            /\ Expectation(r) = Joined(ExpectationOf, r)
  BY ItemsAreJoined
<1>6. QED
  BY <1>1, <1>2, <1>3, <1>4, <1>5 DEF Joins
\* A call begins with literal texts, and then comes a command, or nothing.
TextFirst(todo, text, texts, rest) ==
  /\ todo = Cat(texts, rest) /\ Format(todo) = Cat(text, Format(rest))
  /\ Expectation(texts) = Written(text) /\ Arguments(texts) = <<>>
  /\ \/ rest = <<>>
     \/ \E item \in Items, more \in Seq(Items) : item.kind # "text" /\ rest = Cat(<<item>>, more)

BeginsWithText(todo) ==
  \E text \in Seq(Chars \ {"%"}), texts \in Seq(Items), rest \in Seq(Items) :
    TextFirst(todo, text, texts, rest)

LEMMA TextsBegin ==
  ASSUME NEW todo \in Seq(Items)
  PROVE  BeginsWithText(todo)
<1> DEFINE N == Len(todo)
           T == {n \in 0..N : \A s \in Seq(Items) : Len(s) = n => BeginsWithText(s)}
           Texts == Chars \ {"%"}
<1>0. N \in Nat /\ Texts \subseteq Chars /\ <<>> \in Seq(Texts) /\ <<>> \in Seq(Items)
      /\ <<>> \in Seq(Chars)
  BY LenProperties, Starts
<1>1. 0 \in T
  <2>1. ASSUME NEW s \in Seq(Items), Len(s) = 0 PROVE BeginsWithText(s)
    <3>1. s = <<>>
      BY <2>1, EmptySeq
    <3>2. /\ Cat(<<>>, <<>>) = <<>>
          /\ Format(<<>>) = <<>> /\ Arguments(<<>>) = <<>> /\ Expectation(<<>>) = <<>>
      <4>1. Cat(<<>>, <<>>) = <<>>
        BY <1>0, CatLaws
      <4>2. \A f : Joined(f, <<>>) = <<>>
        BY JoinedNothing
      <4>3. /\ Format(<<>>) = <<>> /\ Arguments(<<>>) = <<>> /\ Expectation(<<>>) = <<>>
        BY <1>0, <4>2, ItemsAreJoined
      <4>4. QED
        BY <4>1, <4>3
    <3>3. Written(<<>>) = <<>>
      BY <1>0, CatWritten
    <3>4. TextFirst(<<>>, <<>>, <<>>, <<>>)
      BY <3>2, <3>3 DEF TextFirst
    <3>5. QED
      BY <1>0, <3>1, <3>4 DEF BeginsWithText
  <2>2. 0 \in 0..N
    BY <1>0
  <2>3. QED
    BY <2>1, <2>2
<1>2. ASSUME NEW n \in 1..N, n - 1 \in T PROVE n \in T
  <2>1. ASSUME NEW s \in Seq(Items), Len(s) = n PROVE BeginsWithText(s)
    <3>1. s # <<>>
      BY <1>0, <2>1, EmptySeq
    <3>2. PICK x \in Items, t \in Seq(Items) : s = Cat(<<x>>, t) /\ Len(t) = Len(s) - 1
      BY <3>1, CatSplits
    <3>3. <<x>> \in Seq(Items)
      BY CatFirst
    <3>4. CASE x.kind # "text"
      <4>1. Expectation(<<>>) = <<>> /\ Arguments(<<>>) = <<>>
        BY <3>2, ItemsJoin
      <4>2. Written(<<>>) = <<>>
        BY <1>0, CatWritten
      <4>3. Cat(<<>>, s) = s /\ Cat(<<>>, Format(s)) = Format(s)
        <5>1. Format(s) \in Seq(Chars)
          BY <3>2, ItemsJoin
        <5>2. QED
          BY <5>1, CatLaws
      <4>4. TextFirst(s, <<>>, <<>>, s)
        BY <3>2, <3>4, <4>1, <4>2, <4>3 DEF TextFirst
      <4>5. QED
        BY <1>0, <4>4 DEF BeginsWithText
    <3>5. CASE x.kind = "text"
      <4>1. Len(t) = n - 1
        BY <2>1, <3>2
      <4>2. BeginsWithText(t)
        BY <1>2, <4>1
      <4>3. PICK text \in Seq(Texts), texts \in Seq(Items), rest \in Seq(Items) :
              TextFirst(t, text, texts, rest)
        BY <4>2 DEF BeginsWithText
      <4> DEFINE v == x.value
                 text2 == Cat(v, text)
                 texts2 == Cat(<<x>>, texts)
      <4>4. v \in Seq(Texts) /\ v \in Seq(Chars)
        BY <3>5, ItemIs
      <4>5. text \in Seq(Chars)
        BY <1>0, SeqWider
      <4>6. FormatOf[x] = v /\ ArgumentsOf[x] = <<>> /\ ExpectationOf[x] = Written(v)
        <5>1. ~Takes(x)
          BY <3>5 DEF Takes, Numeric
        <5>2. Expected(x) = Written(v)
          BY <3>5, ExpectedIs
        <5>3. QED
          BY <3>5, <5>1, <5>2 DEF FormatOf, ArgumentsOf, ExpectationOf
      <4>7. /\ t = Cat(texts, rest) /\ Format(t) = Cat(text, Format(rest))
            /\ Expectation(texts) = Written(text) /\ Arguments(texts) = <<>>
            /\ \/ rest = <<>>
               \/ \E item \in Items, more \in Seq(Items) :
                    item.kind # "text" /\ rest = Cat(<<item>>, more)
        BY <4>3 DEF TextFirst
      <4> HIDE DEF v
      <4>8. s = Cat(texts2, rest)
        <5>1. s = Cat(<<x>>, t) /\ t = Cat(texts, rest)
          BY <3>2, <4>7
        <5>2. Cat(Cat(<<x>>, texts), rest) = Cat(<<x>>, Cat(texts, rest))
          BY CatMoves
        <5>3. QED
          BY <5>1, <5>2
      <4>9. Format(s) = Cat(text2, Format(rest))
        <5>1. s = Cat(<<x>>, t) /\ Format(t) = Cat(text, Format(rest))
          BY <3>2, <4>7
        <5>2. Format(Cat(<<x>>, t)) = Cat(Format(<<x>>), Format(t)) /\ Format(<<x>>) = FormatOf[x]
          BY <3>3, ItemsJoin
        <5>3. Format(s) = Cat(v, Cat(text, Format(rest)))
          BY <4>6, <5>1, <5>2
        <5>4. Format(rest) \in Seq(Chars)
          BY ItemsJoin
        <5>5. QED
          BY <4>4, <4>5, <5>3, <5>4, CatLaws
      <4>10. Expectation(texts2) = Written(text2)
        <5>1. /\ Expectation(Cat(<<x>>, texts)) = Cat(Expectation(<<x>>), Expectation(texts))
              /\ Expectation(<<x>>) = ExpectationOf[x]
          BY <3>3, ItemsJoin
        <5>2. Expectation(texts) = Written(text)
          BY <4>7
        <5>3. Written(Cat(v, text)) = Cat(Written(v), Written(text))
          BY <4>4, <4>5, CatWritten
        <5>4. QED
          BY <4>6, <5>1, <5>2, <5>3
      <4>11. Arguments(texts2) = <<>>
        <5>1. /\ Arguments(Cat(<<x>>, texts)) = Cat(Arguments(<<x>>), Arguments(texts))
              /\ Arguments(<<x>>) = ArgumentsOf[x]
          BY <3>3, ItemsJoin
        <5>2. Arguments(texts) = <<>>
          BY <4>7
        <5>3. Cat(<<>>, <<>>) = <<>>
          BY <1>0, CatLaws
        <5>4. QED
          BY <4>6, <5>1, <5>2, <5>3
      <4>12. text2 \in Seq(Texts) /\ texts2 \in Seq(Items)
        BY <3>3, <4>4, CatLaws
      <4> HIDE DEF text2, texts2, Texts
      <4>13. TextFirst(s, text2, texts2, rest)
        BY <4>7, <4>8, <4>9, <4>10, <4>11 DEF TextFirst
      <4>14. QED
        BY <4>12, <4>13 DEF BeginsWithText, Texts
    <3>6. QED
      BY <3>4, <3>5
  <2>2. n \in 0..N
    BY <1>0
  <2>3. QED
    BY <2>1, <2>2
<1>3. N \in T
  <2>1. \A n \in 1..N : n - 1 \in T => n \in T
    BY <1>2
  <2>2. N \in 0..N
    BY <1>0
  <2> HIDE DEF T, N
  <2>3. QED
    BY <1>0, <1>1, <2>1, <2>2, UpTo
<1>4. QED
  BY <1>3
\* The literal text before a command, and what follows its %.
LEMMA LiteralIs ==
  ASSUME NEW text \in Seq(Chars \ {"%"}), NEW tail \in Seq(Chars)
  PROVE  LET s == Cat(text, Cat(<<"%">>, tail))
         IN  /\ s # <<>> /\ Stops(s) # {} /\ Literal(s) = Len(text)
             /\ SubSeq(s, 1, Len(text)) = text
             /\ SubSeq(s, Len(text) + 2, Len(s)) = tail
<1> DEFINE u == Cat(<<"%">>, tail)
           s == Cat(text, u)
           n == Len(text)
           m == Len(tail)
<1>1. "%" \in Chars /\ text \in Seq(Chars)
  <2>1. Chars \ {"%"} \subseteq Chars
    OBVIOUS
  <2>2. "%" \in Chars
    BY CharsAssumption
  <2>3. QED
    BY <2>1, <2>2, SeqWider
<1>2. <<"%">> \in Seq(Chars) /\ Len(<<"%">>) = 1 /\ <<"%">>[1] = "%"
  BY <1>1
<1>3. Concats(Chars, <<"%">>, tail)
  BY <1>2, ConcatIs
<1>4. /\ u \in Seq(Chars) /\ Len(u) = m + 1 /\ u[1] = "%"
      /\ \A i \in 2..(m + 1) : u[i] = tail[i - 1]
  <2>1. n \in Nat /\ m \in Nat
    BY <1>1, LenProperties
  <2>2. /\ u \in Seq(Chars) /\ Len(u) = 1 + m
        /\ \A i \in 1..(1 + m) : u[i] = IF i <= 1 THEN <<"%">>[i] ELSE tail[i - 1]
    BY <1>2, <1>3 DEF Concats, Cat
  <2> HIDE DEF u, n, m
  <2>3. 1 \in 1..(1 + m) /\ \A i \in 2..(m + 1) : i \in 1..(1 + m) /\ ~(i <= 1)
    BY <2>1
  <2>4. 1 + m = m + 1
    BY <2>1
  <2>5. u[1] = <<"%">>[1]
    BY <2>2, <2>3
  <2>6. QED
    BY <1>2, <2>2, <2>3, <2>4, <2>5
<1> HIDE DEF u
<1>5. Concats(Chars, text, u)
  BY <1>1, <1>4, ConcatIs
<1>6. /\ n \in Nat /\ m \in Nat /\ s \in Seq(Chars) /\ Len(s) = n + m + 1
      /\ \A i \in 1..n : s[i] = text[i] /\ text[i] # "%"
      /\ s[n + 1] = "%"
      /\ \A i \in (n + 2)..(n + m + 1) : s[i] = tail[i - n - 1]
  <2>1. n \in Nat /\ m \in Nat
    BY <1>1, LenProperties
  <2>2. /\ s \in Seq(Chars) /\ Len(s) = n + (m + 1)
        /\ \A i \in 1..(n + (m + 1)) : s[i] = IF i <= n THEN text[i] ELSE u[i - n]
    BY <1>4, <1>5 DEF Concats, Cat
  <2>3. \A i \in 1..n : text[i] # "%"
    BY ElementOfSeq
  <2> HIDE DEF n, m, s
  <2>4. \A i \in 1..n : i \in 1..(n + (m + 1)) /\ i <= n
    BY <2>1
  <2>5. n + 1 \in 1..(n + (m + 1)) /\ ~(n + 1 <= n) /\ (n + 1) - n = 1
    BY <2>1
  <2>6. \A i \in (n + 2)..(n + m + 1) :
          i \in 1..(n + (m + 1)) /\ ~(i <= n) /\ i - n \in 2..(m + 1) /\ (i - n) - 1 = i - n - 1
    BY <2>1
  <2>7. s[n + 1] = u[1]
    BY <2>2, <2>5
  <2>8. ASSUME NEW i \in (n + 2)..(n + m + 1) PROVE s[i] = tail[i - n - 1]
    <3>1. s[i] = u[i - n]
      BY <2>2, <2>6
    <3>2. u[i - n] = tail[(i - n) - 1]
      BY <1>4, <2>6
    <3>3. QED
      BY <2>6, <3>1, <3>2
  <2>9. n + (m + 1) = n + m + 1
    BY <2>1
  <2>10. QED
    BY <1>4, <2>1, <2>2, <2>3, <2>4, <2>7, <2>8, <2>9
<1> HIDE DEF s, n, m
<1>7. Stops(s) # {} /\ Literal(s) = n
  <2>1. \A i \in Stops(s) : i \in Nat /\ n + 1 <= i
    BY <1>6 DEF Stops
  <2>2. n + 1 \in Stops(s)
    <3>1. n + 1 \in 1..(n + m + 1)
      BY <1>6
    <3>2. QED
      BY <1>6, <3>1 DEF Stops
  <2> DEFINE first == CHOOSE i \in Stops(s) : \A j \in Stops(s) : i <= j
  <2>3. first \in Stops(s) /\ \A j \in Stops(s) : first <= j
    BY <2>1, <2>2
  <2>4. Literal(s) = first - 1
    BY <2>2 DEF Literal
  <2> HIDE DEF first
  <2>5. first \in Nat /\ n + 1 <= first /\ first <= n + 1
    BY <2>1, <2>2, <2>3
  <2>6. first = n + 1
    BY <1>6, <2>5
  <2>7. QED
    BY <1>6, <2>2, <2>4, <2>6
<1>8. SubSeq(s, 1, n) = text
  <2> DEFINE p == SubSeq(s, 1, n)
  <2>1. /\ 1 \in 1..(Len(s) + 1) /\ n \in 0..Len(s) /\ n - 1 + 1 = n
        /\ \A i \in 1..n : 1 + i - 1 = i
    BY <1>6
  <2>2. /\ p \in Seq(Chars) /\ Len(p) = IF 1 <= n THEN n - 1 + 1 ELSE 0
        /\ \A i \in 1..(n - 1 + 1) : p[i] = s[1 + i - 1]
    BY <1>6, <2>1, SubSeqProperties
  <2> HIDE DEF p
  <2>3. Len(p) = n
    BY <1>6, <2>2
  <2>4. \A i \in 1..n : p[i] = text[i]
    BY <1>6, <2>1, <2>2
  <2>5. Len(text) = n
    BY DEF n
  <2>6. p = text
    BY <1>1, <2>2, <2>3, <2>4, <2>5, SeqEqual
  <2>7. QED
    BY <2>6 DEF p
<1>9. SubSeq(s, n + 2, Len(s)) = tail
  <2> DEFINE p == SubSeq(s, n + 2, Len(s))
  <2>1. /\ n + 2 \in 1..(Len(s) + 1) /\ Len(s) \in 0..Len(s) /\ Len(s) - (n + 2) + 1 = m
        /\ \A i \in 1..m : (n + 2) + i - 1 \in (n + 2)..(n + m + 1)
                           /\ ((n + 2) + i - 1) - n - 1 = i
    BY <1>6
  <2>2. /\ p \in Seq(Chars) /\ Len(p) = IF n + 2 <= Len(s) THEN Len(s) - (n + 2) + 1 ELSE 0
        /\ \A i \in 1..(Len(s) - (n + 2) + 1) : p[i] = s[(n + 2) + i - 1]
    BY <1>6, <2>1, SubSeqProperties
  <2> HIDE DEF p
  <2>3. Len(p) = m
    BY <1>6, <2>2
  <2>4. ASSUME NEW i \in 1..m PROVE p[i] = tail[i]
    <3>1. p[i] = s[(n + 2) + i - 1]
      BY <2>1, <2>2
    <3>2. s[(n + 2) + i - 1] = tail[((n + 2) + i - 1) - n - 1]
      BY <1>6, <2>1
    <3>3. QED
      BY <2>1, <3>1, <3>2
  <2>5. Len(tail) = m
    BY DEF m
  <2>6. p = tail
    BY <2>2, <2>3, <2>4, <2>5, SeqEqual
  <2>7. QED
    BY <2>6 DEF p
<1>10. s # <<>>
  BY <1>6
<1>11. QED
  BY <1>7, <1>8, <1>9, <1>10 DEF s, u, n

\* A text without a command is all literal.
LEMMA LiteralAll ==
  ASSUME NEW text \in Seq(Chars \ {"%"})
  PROVE  /\ Stops(text) = {} /\ Literal(text) = Len(text)
         /\ SubSeq(text, 1, Len(text)) = text
         /\ SubSeq(text, Len(text) + 1, Len(text)) = <<>>
<1>1. Len(text) \in Nat
  BY LenProperties
<1>2. Stops(text) = {}
  BY ElementOfSeq DEF Stops
<1>3. Literal(text) = Len(text)
  BY <1>2 DEF Literal
<1>4. SubSeq(text, 1, Len(text)) = text
  OBVIOUS
<1>5. SubSeq(text, Len(text) + 1, Len(text)) = <<>>
  OBVIOUS
<1>6. QED
  BY <1>2, <1>3, <1>4, <1>5
-----------------------------------------------------------------------------
(* Where a call stands: between two items, or within a command of which d  *)
(* is still to be read.                                                    *)

BetweenAt(done, todo) ==
  /\ job = Cat(done, todo) /\ out = Expectation(done)
  /\ format = Format(todo) /\ args = Arguments(todo)

WithinAt(done, item, todo, d) ==
  /\ job = Cat(Cat(done, <<item>>), todo) /\ out = Expectation(done)
  /\ item.kind # "text" /\ args = Arguments(Cat(<<item>>, todo))
  /\ Stage(item, d, width, fill) /\ format = Cat(Cat(d, <<item.kind>>), Format(todo))

LEMMA BetweenOpens ==
  ASSUME Between
  PROVE  ~command /\ \E done, todo \in Seq(Items) : BetweenAt(done, todo)
BY DEF Between, BetweenAt, Cat

LEMMA BetweenNext ==
  ASSUME NEW done \in Seq(Items), NEW todo \in Seq(Items), BetweenAt(done, todo)', ~command'
  PROVE  Between'
BY DEF Between, BetweenAt, Cat

LEMMA WithinOpens ==
  ASSUME Within
  PROVE  /\ command
         /\ \E done, todo \in Seq(Items), item \in Items : \E d : WithinAt(done, item, todo, d)
<1>1. PICK done \in Seq(Items), todo \in Seq(Items), item \in Items :
        /\ job = done \o <<item>> \o todo /\ out = Expectation(done)
        /\ item.kind # "text" /\ args = Arguments(<<item>> \o todo)
        /\ \E p \in Parsing(item) : /\ width = p.width /\ fill = p.fill
                                    /\ format = p.digits \o <<item.kind>> \o Format(todo)
  BY DEF Within
<1>2. PICK p \in Parsing(item) : /\ width = p.width /\ fill = p.fill
                                 /\ format = p.digits \o <<item.kind>> \o Format(todo)
  BY <1>1
<1> DEFINE d == p.digits
<1>3. Stage(item, d, width, fill)
  BY <1>2, StageIs
<1>4. WithinAt(done, item, todo, d)
  BY <1>1, <1>2, <1>3 DEF WithinAt, Cat
<1>5. command
  BY DEF Within
<1>6. QED
  BY <1>4, <1>5

LEMMA WithinNext ==
  ASSUME NEW done \in Seq(Items), NEW item \in Items, NEW todo \in Seq(Items), NEW d,
         WithinAt(done, item, todo, d)', command'
  PROVE  Within'
<1>1. /\ job' = done \o <<item>> \o todo /\ out' = Expectation(done)
      /\ item.kind # "text" /\ args' = Arguments(<<item>> \o todo)
      /\ Stage(item, d, width', fill') /\ format' = d \o <<item.kind>> \o Format(todo)
  BY DEF WithinAt, Cat
<1>2. PICK p \in Parsing(item) : d = p.digits /\ width' = p.width /\ fill' = p.fill
  BY <1>1, StageIs
<1>3. QED
  BY <1>1, <1>2 DEF Within

\* A command is left to be read, its digits first.
LEMMA CommandFormat ==
  ASSUME NEW item \in Items, item.kind # "text", NEW more \in Seq(Items)
  PROVE  LET digits == Cat(Cat(Zeros(item), Tens(item)), Ones(item))
             tail == Cat(Cat(digits, <<item.kind>>), Format(more))
         IN  Format(Cat(<<item>>, more)) = Cat(<<"%">>, tail) /\ tail \in Seq(Chars)
<1> DEFINE digits == Cat(Cat(Zeros(item), Tens(item)), Ones(item))
           mid == Cat(digits, <<item.kind>>)
           tail == Cat(mid, Format(more))
<1>1. /\ digits \in Seq(Chars) /\ <<item.kind>> \in Seq(Chars)
      /\ Directive(item) = Cat(<<"%">>, mid)
  BY DirectiveIs
<1>2. Format(more) \in Seq(Chars)
  BY ItemsJoin
<1>3. Format(Cat(<<item>>, more)) = Cat(Directive(item), Format(more))
  <2>1. <<item>> \in Seq(Items)
    BY CatFirst
  <2>2. /\ Format(Cat(<<item>>, more)) = Cat(Format(<<item>>), Format(more))
        /\ Format(<<item>>) = FormatOf[item]
    BY <2>1, ItemsJoin
  <2>3. FormatOf[item] = Directive(item)
    BY DEF FormatOf
  <2>4. QED
    BY <2>2, <2>3
<1> HIDE DEF digits
<1>4. mid \in Seq(Chars)
  BY <1>1, CatLaws
<1>5. tail \in Seq(Chars)
  BY <1>2, <1>4, CatLaws
<1> HIDE DEF mid
<1>6. "%" \in Chars
  BY CharsAssumption
<1>7. Cat(Cat(<<"%">>, mid), Format(more)) = Cat(<<"%">>, tail)
  BY <1>2, <1>4, <1>6, CatMoves
<1>8. QED
  BY <1>1, <1>3, <1>5, <1>7 DEF mid, digits

\* The last literal texts of a call.
LEMMA PrintLast ==
  ASSUME NEW done \in Seq(Items), NEW todo \in Seq(Items), BetweenAt(done, todo), PrintText,
         NEW text \in Seq(Chars \ {"%"}), NEW texts \in Seq(Items),
         TextFirst(todo, text, texts, <<>>)
  PROVE  Between'
<1>0. <<>> \in Seq(Items) /\ <<>> \in Seq(Chars) /\ text \in Seq(Chars)
  <2>1. Chars \ {"%"} \subseteq Chars
    OBVIOUS
  <2>2. QED
    BY <2>1, Starts, SeqWider
<1>1. Format(<<>>) = <<>> /\ Arguments(<<>>) = <<>>
  <2>1. \A f : Joined(f, <<>>) = <<>>
    BY JoinedNothing
  <2>2. QED
    BY <1>0, <2>1, ItemsAreJoined
<1>2. /\ todo = Cat(texts, <<>>) /\ Format(todo) = Cat(text, Format(<<>>))
      /\ Expectation(texts) = Written(text) /\ Arguments(texts) = <<>>
  BY DEF TextFirst
<1>3. Cat(texts, <<>>) = texts /\ Cat(text, <<>>) = text
  <2>1. Cat(texts, <<>>) = texts
    BY <1>0, CatLaws
  <2>2. Cat(text, <<>>) = text
    BY <1>0, CatLaws
  <2>3. QED
    BY <2>1, <2>2
<1>4. todo = texts /\ Format(todo) = text
  BY <1>1, <1>2, <1>3
<1>5. /\ job = Cat(done, todo) /\ out = Expectation(done)
      /\ format = text /\ args = Arguments(todo)
  BY <1>4 DEF BetweenAt
<1>6. /\ Stops(format) = {} /\ Literal(format) = Len(format)
      /\ SubSeq(format, 1, Len(format)) = text
      /\ SubSeq(format, Len(format) + 1, Len(format)) = <<>>
  BY <1>5, LiteralAll
<1>7. /\ out' = out \o Written(SubSeq(format, 1, Literal(format)))
      /\ command' = (Stops(format) # {})
      /\ format' = SubSeq(format, Literal(format) + (IF command' THEN 2 ELSE 1), Len(format))
      /\ job' = job /\ args' = args
  BY DEF PrintText
<1>8. out' = Cat(out, Written(text)) /\ ~command' /\ format' = <<>>
  BY <1>6, <1>7 DEF Cat
<1>9. Expectation(Cat(done, todo)) = Cat(Expectation(done), Expectation(todo))
  BY ExpectationJoins
<1> DEFINE all == Cat(done, todo)
<1>10. all \in Seq(Items) /\ Cat(all, <<>>) = all
  <2>1. all \in Seq(Items)
    BY CatLaws
  <2> HIDE DEF all
  <2>2. QED
    BY <1>0, <2>1, CatLaws
<1>11. job' = all /\ out' = Expectation(all) /\ args' = <<>>
  BY <1>2, <1>4, <1>5, <1>7, <1>8, <1>9
<1> HIDE DEF all
<1>12. BetweenAt(all, <<>>)'
  BY <1>1, <1>8, <1>10, <1>11 DEF BetweenAt
<1>13. QED
  BY <1>0, <1>8, <1>10, <1>12, BetweenNext
\* The literal texts before a command, and its %.
LEMMA PrintFirst ==
  ASSUME NEW done \in Seq(Items), NEW todo \in Seq(Items), BetweenAt(done, todo), PrintText,
         NEW text \in Seq(Chars \ {"%"}), NEW texts \in Seq(Items), NEW item \in Items,
         NEW more \in Seq(Items), item.kind # "text",
         TextFirst(todo, text, texts, Cat(<<item>>, more))
  PROVE  Within'
<1> DEFINE rest == Cat(<<item>>, more)
           digits == Cat(Cat(Zeros(item), Tens(item)), Ones(item))
           tail == Cat(Cat(digits, <<item.kind>>), Format(more))
           all == Cat(done, texts)
<1>1. /\ todo = Cat(texts, rest) /\ Format(todo) = Cat(text, Format(rest))
      /\ Expectation(texts) = Written(text) /\ Arguments(texts) = <<>>
  BY DEF TextFirst
<1>2. /\ job = Cat(done, todo) /\ out = Expectation(done)
      /\ format = Format(todo) /\ args = Arguments(todo)
  BY DEF BetweenAt
<1>3. Format(rest) = Cat(<<"%">>, tail) /\ tail \in Seq(Chars)
  BY CommandFormat
<1>4. /\ out' = out \o Written(SubSeq(format, 1, Literal(format)))
      /\ command' = (Stops(format) # {})
      /\ format' = SubSeq(format, Literal(format) + (IF command' THEN 2 ELSE 1), Len(format))
      /\ width' = 0 /\ fill' = " " /\ job' = job /\ args' = args
  BY DEF PrintText
<1>5. <<item>> \in Seq(Items) /\ rest \in Seq(Items)
  BY CatFirst
<1>6. Stage(item, digits, 0, " ")
  BY DEF Stage
<1> HIDE DEF tail
<1>7. format = Cat(text, Cat(<<"%">>, tail))
  BY <1>1, <1>2, <1>3
<1>8. /\ Stops(format) # {} /\ Literal(format) = Len(text)
      /\ SubSeq(format, 1, Len(text)) = text
      /\ SubSeq(format, Len(text) + 2, Len(format)) = tail
  BY <1>3, <1>7, LiteralIs
<1>9. command' /\ out' = Cat(Expectation(done), Written(text)) /\ format' = tail
  BY <1>2, <1>4, <1>8 DEF Cat
<1>10. out' = Expectation(all)
  <2>1. Expectation(Cat(done, texts)) = Cat(Expectation(done), Expectation(texts))
    BY ExpectationJoins
  <2>2. QED
    BY <1>1, <1>9, <2>1
<1>11. all \in Seq(Items)
  BY CatLaws
<1>12. job' = Cat(Cat(all, <<item>>), more)
  <2> DEFINE one == <<item>>
  <2>1. one \in Seq(Items)
    BY <1>5
  <2> HIDE DEF one, all
  <2>2. Cat(Cat(all, one), more) = Cat(all, Cat(one, more))
    BY <1>11, <2>1, CatLaws
  <2>3. Cat(Cat(done, texts), rest) = Cat(done, Cat(texts, rest))
    BY <1>5, CatLaws
  <2>4. Cat(all, Cat(one, more)) = Cat(Cat(done, texts), rest)
    BY DEF all, one
  <2>5. job' = Cat(done, Cat(texts, rest))
    BY <1>1, <1>2, <1>4
  <2>6. QED
    BY <2>2, <2>3, <2>4, <2>5 DEF one
<1>13. args' = Arguments(rest)
  <2>1. Arguments(Cat(texts, rest)) = Cat(Arguments(texts), Arguments(rest))
    BY <1>5, ItemsJoin
  <2>2. Arguments(rest) \in Seq(Values)
    BY <1>5, ItemsJoin
  <2>3. Cat(<<>>, Arguments(rest)) = Arguments(rest)
    BY <2>2, CatLaws
  <2>4. QED
    BY <1>1, <1>2, <1>4, <2>1, <2>3
<1>14. WithinAt(all, item, more, digits)'
  <2> HIDE DEF all, digits
  <2>1. Stage(item, digits, width', fill')
    BY <1>4, <1>6
  <2>2. format' = Cat(Cat(digits, <<item.kind>>), Format(more))
    BY <1>9 DEF tail
  <2>3. QED
    BY <1>10, <1>12, <1>13, <2>1, <2>2 DEF WithinAt
<1> HIDE DEF all, digits
<1>15. QED
  BY <1>9, <1>11, <1>14, WithinNext

LEMMA PrintTextKeeps ==
  ASSUME Between, PrintText
  PROVE  (Between \/ Within)'
<1>1. PICK done \in Seq(Items), todo \in Seq(Items) : BetweenAt(done, todo)
  BY BetweenOpens
<1>2. BeginsWithText(todo)
  BY TextsBegin
<1>3. PICK text \in Seq(Chars \ {"%"}), texts \in Seq(Items), rest \in Seq(Items) :
        TextFirst(todo, text, texts, rest)
  BY <1>2 DEF BeginsWithText
<1>4. \/ rest = <<>>
      \/ \E item \in Items, more \in Seq(Items) : item.kind # "text" /\ rest = Cat(<<item>>, more)
  BY <1>3 DEF TextFirst
<1>5. ASSUME rest = <<>> PROVE Between'
  BY <1>1, <1>3, <1>5, PrintLast
<1>6. ASSUME NEW item \in Items, NEW more \in Seq(Items), item.kind # "text",
             rest = Cat(<<item>>, more)
      PROVE  Within'
  BY <1>1, <1>3, <1>6, PrintFirst
<1>7. QED
  BY <1>4, <1>5, <1>6

\* The call is over when nothing is left of its format string.
LEMMA BetweenEnds ==
  ASSUME Between, format = <<>>
  PROVE  out = Expectation(job) /\ args = <<>>
<1>1. PICK done \in Seq(Items), todo \in Seq(Items) : BetweenAt(done, todo)
  BY BetweenOpens
<1>2. BeginsWithText(todo)
  BY TextsBegin
<1>3. PICK text \in Seq(Chars \ {"%"}), texts \in Seq(Items), rest \in Seq(Items) :
        TextFirst(todo, text, texts, rest)
  BY <1>2 DEF BeginsWithText
<1>4. /\ todo = Cat(texts, rest) /\ Format(todo) = Cat(text, Format(rest))
      /\ Expectation(texts) = Written(text) /\ Arguments(texts) = <<>>
      /\ \/ rest = <<>>
         \/ \E item \in Items, more \in Seq(Items) :
              item.kind # "text" /\ rest = Cat(<<item>>, more)
  BY <1>3 DEF TextFirst
<1>5. /\ job = Cat(done, todo) /\ out = Expectation(done)
      /\ Format(todo) = <<>> /\ args = Arguments(todo)
  BY <1>1 DEF BetweenAt
<1>6. text \in Seq(Chars) /\ <<>> \in Seq(Chars) /\ <<>> \in Seq(Items)
  <2>1. Chars \ {"%"} \subseteq Chars
    OBVIOUS
  <2>2. QED
    BY <2>1, Starts, SeqWider
<1>7. ASSUME NEW item \in Items, NEW more \in Seq(Items), item.kind # "text",
             rest = Cat(<<item>>, more)
      PROVE  FALSE
  <2>1. PICK tail \in Seq(Chars) : Format(rest) = Cat(<<"%">>, tail)
    BY <1>7, CommandFormat
  <2>2. Format(todo) # <<>>
    BY <1>4, <2>1, LiteralIs
  <2>3. QED
    BY <1>5, <2>2
<1>8. rest = <<>>
  BY <1>4, <1>7
<1>9. Cat(texts, <<>>) = texts /\ Cat(done, <<>>) = done
  BY <1>6, CatLaws
<1>10. todo = texts
  BY <1>4, <1>8, <1>9
<1>11. Format(<<>>) = <<>>
  <2>1. \A f : Joined(f, <<>>) = <<>>
    BY JoinedNothing
  <2>2. QED
    BY <1>6, <2>1, ItemsAreJoined
<1>12. text = <<>>
  <2>1. Cat(text, <<>>) = <<>>
    BY <1>4, <1>5, <1>8, <1>11
  <2>2. Cat(text, <<>>) = text
    BY <1>6, CatLaws
  <2>3. QED
    BY <2>1, <2>2
<1>13. Expectation(texts) = <<>>
  <2>1. Written(<<>>) = <<>>
    BY <1>6, CatWritten
  <2>2. QED
    BY <1>4, <1>12, <2>1
<1>14. Expectation(job) = Expectation(done)
  <2>1. /\ Expectation(Cat(done, texts)) = Cat(Expectation(done), Expectation(texts))
        /\ Expectation(done) \in Seq(Chars)
    BY ExpectationJoins
  <2>2. Cat(Expectation(done), <<>>) = Expectation(done)
    BY <1>6, <2>1, CatLaws
  <2>3. QED
    BY <1>5, <1>10, <1>13, <2>1, <2>2
<1>15. QED
  BY <1>4, <1>5, <1>10, <1>14
-----------------------------------------------------------------------------
(* The character that is read next, and what each command prints.          *)

\* The command itself comes next, and everything before it has been read.
AtKind(item, todo) ==
  /\ Head(format) = item.kind /\ Tail(format) = Format(todo)
  /\ width = item.width /\ fill = FillOf(item)

\* A digit comes next.
AtDigit(item, todo, k, e) ==
  /\ Head(format) = Digit[k + 1] /\ Tail(format) = Cat(Cat(e, <<item.kind>>), Format(todo))
  /\ Stage(item, e, (10 * width + k) % Word, IF k = 0 /\ width = 0 THEN "0" ELSE fill)

LEMMA WithinHead ==
  ASSUME NEW done \in Seq(Items), NEW item \in Items, NEW todo \in Seq(Items), NEW d,
         WithinAt(done, item, todo, d)
  PROVE  \/ AtKind(item, todo)
         \/ \E k \in 0..9, e \in Seq(Chars) : AtDigit(item, todo, k, e)
<1>1. /\ item.kind # "text" /\ Stage(item, d, width, fill)
      /\ format = Cat(Cat(d, <<item.kind>>), Format(todo))
  BY DEF WithinAt
<1>2. item.kind \in Chars /\ Format(todo) \in Seq(Chars)
  BY <1>1, ItemIs, ItemsJoin
<1>3. <<item.kind>> \in Seq(Chars)
  BY <1>2, CatFirst
<1>4. ASSUME d = <<>> PROVE AtKind(item, todo)
  <2>1. width = item.width /\ fill = FillOf(item)
    BY <1>1, <1>4, DigitsDone
  <2>2. Cat(<<>>, <<item.kind>>) = <<item.kind>>
    BY <1>3, CatLaws
  <2>3. format = Cat(<<item.kind>>, Format(todo))
    BY <1>1, <1>4, <2>2
  <2>4. Head(format) = item.kind /\ Tail(format) = Format(todo)
    BY <1>2, <2>3, CatFirst
  <2>5. QED
    BY <2>1, <2>4 DEF AtKind
<1>5. ASSUME d # <<>> PROVE \E k \in 0..9, e \in Seq(Chars) : AtDigit(item, todo, k, e)
  <2>1. PICK k \in 0..9, e \in Seq(Chars) :
          /\ d = Cat(<<Digit[k + 1]>>, e)
          /\ Stage(item, e, (10 * width + k) % Word, IF k = 0 /\ width = 0 THEN "0" ELSE fill)
    BY <1>1, <1>5, DigitRead
  <2> DEFINE c == Digit[k + 1]
             own == <<item.kind>>
             tail == Cat(e, own)
             left == Cat(tail, Format(todo))
  <2>2. c \in Chars
    <3>1. k + 1 \in 1..10
      OBVIOUS
    <3>2. QED
      BY <3>1, PlainIs
  <2>3. own \in Seq(Chars)
    BY <1>3
  <2>4. d = Cat(<<c>>, e)
    BY <2>1
  <2> HIDE DEF c, own
  <2>5. Cat(Cat(<<c>>, e), own) = Cat(<<c>>, tail) /\ tail \in Seq(Chars)
    <3>1. Cat(Cat(<<c>>, e), own) = Cat(<<c>>, tail)
      BY <2>2, <2>3, CatMoves
    <3>2. tail \in Seq(Chars)
      BY <2>3, CatLaws
    <3>3. QED
      BY <3>1, <3>2
  <2> HIDE DEF tail
  <2>6. Cat(Cat(<<c>>, tail), Format(todo)) = Cat(<<c>>, left) /\ left \in Seq(Chars)
    <3>1. Cat(Cat(<<c>>, tail), Format(todo)) = Cat(<<c>>, left)
      BY <1>2, <2>2, <2>5, CatMoves
    <3>2. left \in Seq(Chars)
      BY <1>2, <2>5, CatLaws
    <3>3. QED
      BY <3>1, <3>2
  <2>7. format = Cat(Cat(d, own), Format(todo))
    BY <1>1 DEF own
  <2> HIDE DEF left
  <2>8. format = Cat(<<c>>, left)
    BY <2>4, <2>5, <2>6, <2>7
  <2>9. Head(format) = c /\ Tail(format) = left
    BY <2>2, <2>6, <2>8, CatFirst
  <2>10. AtDigit(item, todo, k, e)
    BY <2>1, <2>9 DEF AtDigit, c, left, tail, own
  <2>11. QED
    BY <2>10
<1>6. QED
  BY <1>4, <1>5

LEMMA ReadWidthKeeps ==
  ASSUME Within, ReadWidth
  PROVE  Within'
<1>1. command
  BY WithinOpens
<1>2. PICK done \in Seq(Items), todo \in Seq(Items), item \in Items :
        \E d : WithinAt(done, item, todo, d)
  BY WithinOpens
<1>3. PICK d : WithinAt(done, item, todo, d)
  BY <1>2
<1>4. PICK n \in 0..9 :
        /\ Head(format) = Digit[n + 1]
        /\ fill' = IF n = 0 /\ width = 0 THEN "0" ELSE fill
        /\ width' = (10 * width + n) % Word
        /\ format' = Tail(format)
        /\ job' = job /\ args' = args /\ command' = command /\ out' = out
  BY DEF ReadWidth, Reads
<1>5. Digit[n + 1] \in Range(Digit) /\ item.kind \notin Range(Digit)
  BY DigitsAre, ItemIs
<1>6. ~AtKind(item, todo)
  BY <1>4, <1>5 DEF AtKind
<1>7. PICK k \in 0..9, e \in Seq(Chars) : AtDigit(item, todo, k, e)
  BY <1>3, <1>6, WithinHead
<1>8. /\ Head(format) = Digit[k + 1]
      /\ Tail(format) = Cat(Cat(e, <<item.kind>>), Format(todo))
      /\ Stage(item, e, (10 * width + k) % Word, IF k = 0 /\ width = 0 THEN "0" ELSE fill)
  BY <1>7 DEF AtDigit
<1>9. k = n
  <2>1. k + 1 \in 1..10 /\ n + 1 \in 1..10
    OBVIOUS
  <2>2. Digit[k + 1] = Digit[n + 1]
    BY <1>4, <1>8
  <2>3. k + 1 = n + 1
    BY <2>1, <2>2, DigitsAre
  <2>4. QED
    BY <2>3
<1>10. WithinAt(done, item, todo, e)'
  <2>1. Stage(item, e, width', fill')
    BY <1>4, <1>8, <1>9
  <2>2. /\ job = Cat(Cat(done, <<item>>), todo) /\ out = Expectation(done)
        /\ item.kind # "text" /\ args = Arguments(Cat(<<item>>, todo))
    BY <1>3 DEF WithinAt
  <2>3. QED
    BY <1>4, <1>8, <2>1, <2>2 DEF WithinAt
<1>11. command'
  BY <1>1, <1>4
<1>12. QED
  BY <1>10, <1>11, WithinNext

\* A command that is read ends with its argument taken and its text printed.
LEMMA CommandEnds ==
  ASSUME NEW done \in Seq(Items), NEW item \in Items, NEW todo \in Seq(Items), NEW d,
         WithinAt(done, item, todo, d), AtKind(item, todo),
         out' = Cat(out, Expected(item)), format' = Tail(format), job' = job, ~command',
         args' = IF Takes(item) THEN Tail(args) ELSE args
  PROVE  Between'
<1> DEFINE all == Cat(done, <<item>>)
<1>1. <<item>> \in Seq(Items)
  BY CatFirst
<1>2. all \in Seq(Items)
  BY <1>1, CatLaws
<1>3. /\ job = Cat(all, todo) /\ out = Expectation(done)
      /\ args = Arguments(Cat(<<item>>, todo))
  BY DEF WithinAt
<1>4. out' = Expectation(all)
  <2>1. Expectation(Cat(done, <<item>>)) = Cat(Expectation(done), Expectation(<<item>>))
    BY <1>1, ExpectationJoins
  <2>2. Expectation(<<item>>) = ExpectationOf[item]
    BY <1>1, ItemsJoin
  <2>3. ExpectationOf[item] = Expected(item)
    BY DEF ExpectationOf
  <2>4. QED
    BY <1>3, <2>1, <2>2, <2>3
<1>5. args' = Arguments(todo)
  <2>1. /\ Arguments(Cat(<<item>>, todo)) = Cat(Arguments(<<item>>), Arguments(todo))
        /\ Arguments(<<item>>) = ArgumentsOf[item] /\ Arguments(todo) \in Seq(Values)
    BY <1>1, ItemsJoin
  <2>2. args = Cat(ArgumentsOf[item], Arguments(todo))
    BY <1>3, <2>1
  <2>3. CASE Takes(item)
    <3>1. ArgumentsOf[item] = <<item.value>>
      BY <2>3 DEF ArgumentsOf
    <3>2. item.value \in Values
      BY DEF Values
    <3>3. Tail(Cat(<<item.value>>, Arguments(todo))) = Arguments(todo)
      BY <2>1, <3>2, CatFirst
    <3>4. QED
      BY <2>2, <2>3, <3>1, <3>3
  <2>4. CASE ~Takes(item)
    <3>1. ArgumentsOf[item] = <<>>
      BY <2>4 DEF ArgumentsOf
    <3>2. Cat(<<>>, Arguments(todo)) = Arguments(todo)
      BY <2>1, CatLaws
    <3>3. QED
      BY <2>2, <2>4, <3>1, <3>2
  <2>5. QED
    BY <2>3, <2>4
<1>6. format' = Format(todo)
  BY DEF AtKind
<1> HIDE DEF all
<1>7. BetweenAt(all, todo)'
  BY <1>3, <1>4, <1>5, <1>6 DEF BetweenAt
<1>8. QED
  BY <1>2, <1>7, BetweenNext

\* The argument of a command is the next one.
LEMMA ArgumentNext ==
  ASSUME NEW done \in Seq(Items), NEW item \in Items, NEW todo \in Seq(Items), NEW d,
         WithinAt(done, item, todo, d), Takes(item)
  PROVE  Head(args) = item.value
<1>1. <<item>> \in Seq(Items)
  BY CatFirst
<1>2. args = Arguments(Cat(<<item>>, todo))
  BY DEF WithinAt
<1>3. /\ Arguments(Cat(<<item>>, todo)) = Cat(Arguments(<<item>>), Arguments(todo))
      /\ Arguments(<<item>>) = ArgumentsOf[item] /\ Arguments(todo) \in Seq(Values)
  BY <1>1, ItemsJoin
<1>4. ArgumentsOf[item] = <<item.value>>
  BY DEF ArgumentsOf
<1>5. item.value \in Values
  BY DEF Values
<1>6. Head(Cat(<<item.value>>, Arguments(todo))) = item.value
  BY <1>3, <1>5, CatFirst
<1>7. QED
  BY <1>2, <1>3, <1>4, <1>6
CommandAt(done, item, todo) ==
  /\ item.kind = Head(format) /\ item.kind # "text" /\ AtKind(item, todo)
  /\ \E d : WithinAt(done, item, todo, d)

LEMMA CommandNext ==
  ASSUME Within, Head(format) \notin Range(Digit)
  PROVE  \E done, todo \in Seq(Items), item \in Items : CommandAt(done, item, todo)
<1>1. PICK done \in Seq(Items), todo \in Seq(Items), item \in Items :
        \E d : WithinAt(done, item, todo, d)
  BY WithinOpens
<1>2. PICK d : WithinAt(done, item, todo, d)
  BY <1>1
<1>3. ASSUME NEW k \in 0..9, NEW e \in Seq(Chars), AtDigit(item, todo, k, e) PROVE FALSE
  <2>1. Head(format) = Digit[k + 1]
    BY <1>3 DEF AtDigit
  <2>2. Digit[k + 1] \in Range(Digit)
    BY DigitsAre
  <2>3. QED
    BY <2>1, <2>2
<1>4. AtKind(item, todo)
  BY <1>2, <1>3, WithinHead
<1>5. item.kind = Head(format)
  BY <1>4 DEF AtKind
<1>6. item.kind # "text"
  BY <1>2 DEF WithinAt
<1>7. QED
  BY <1>2, <1>4, <1>5, <1>6 DEF CommandAt

LEMMA CommandEmits ==
  ASSUME NEW done \in Seq(Items), NEW item \in Items, NEW todo \in Seq(Items),
         CommandAt(done, item, todo),
         out' = Cat(out, Expected(item)), format' = Tail(format), job' = job, ~command',
         args' = IF Takes(item) THEN Tail(args) ELSE args
  PROVE  Between'
<1>1. PICK d : WithinAt(done, item, todo, d)
  BY DEF CommandAt
<1>2. AtKind(item, todo)
  BY DEF CommandAt
<1>3. QED
  BY <1>1, <1>2, CommandEnds

LEMMA CommandTakes ==
  ASSUME NEW done \in Seq(Items), NEW item \in Items, NEW todo \in Seq(Items),
         CommandAt(done, item, todo)
  PROVE  /\ Takes(item) => Head(args) = item.value
         /\ width = item.width /\ fill = FillOf(item)
         /\ width \in 0..(BufSize - 1) /\ width < Word /\ fill \in {" ", "0"}
<1>1. PICK d : WithinAt(done, item, todo, d)
  BY DEF CommandAt
<1>2. width = item.width /\ fill = FillOf(item)
  BY DEF CommandAt, AtKind
<1>3. Takes(item) => Head(args) = item.value
  BY <1>1, ArgumentNext
<1>4. item.width \in 0..(BufSize - 1) /\ item.width < Word
  <2>1. item.width \in Nat /\ item.width < BufSize
    BY ItemIs
  <2>2. BufSize \in Nat /\ WordBits \in Nat /\ BufSize + WordBits < Word /\ Word \in Nat
    BY SizesAssumption, WordType
  <2>3. QED
    BY <2>1, <2>2
<1>5. FillOf(item) \in {" ", "0"}
  BY DEF FillOf
<1>6. QED
  BY <1>2, <1>3, <1>4, <1>5

\* What a number prints.
LEMMA NumberPrints ==
  ASSUME NEW item \in Items, width = item.width, fill = FillOf(item),
         width \in 0..(BufSize - 1), fill \in {" ", "0"},
         NEW base \in Bases, NEW value \in 0..(Word - 1)
  PROVE  /\ Written(Converted(value, base, FALSE)) = Padded(item, <<>>, Numeral(value, base))
         /\ Written(Converted(value, base, TRUE)) = Padded(item, <<"-">>, Numeral(value, base))
<1> DEFINE numeral == Numeral(value, base)
<1>1. numeral \in Seq(Plain)
  BY NumeralPlain
<1>2. /\ Converted(value, base, FALSE) = PaddedNow(<<>>, numeral)
      /\ Converted(value, base, TRUE) = PaddedNow(<<"-">>, numeral)
  BY ConvertedIs
<1> HIDE DEF numeral
<1>3. ASSUME NEW sign \in Seq(Plain)
      PROVE  PaddedNow(sign, numeral) = Padded(item, sign, numeral)
  <2>1. (fill = "0") <=> item.zero
    BY ItemIs DEF FillOf
  <2>2. QED
    BY <2>1 DEF PaddedNow, Padded
<1>4. ASSUME NEW sign \in Seq(Plain)
      PROVE  Written(PaddedNow(sign, numeral)) = Padded(item, sign, numeral)
  <2>1. Padded(item, sign, numeral) \in Seq(Plain)
    BY <1>1, PaddedTyped
  <2>2. Written(Padded(item, sign, numeral)) = Padded(item, sign, numeral)
    BY <2>1, PlainWritten
  <2>3. QED
    BY <1>3, <2>2
<1>5. <<>> \in Seq(Plain) /\ <<"-">> \in Seq(Plain)
  BY SignsPlain
<1>6. Written(PaddedNow(<<>>, numeral)) = Padded(item, <<>>, numeral)
  BY <1>4, <1>5
<1>7. Written(PaddedNow(<<"-">>, numeral)) = Padded(item, <<"-">>, numeral)
  BY <1>4, <1>5
<1>8. QED
  BY <1>2, <1>6, <1>7 DEF numeral

LEMMA BasesAre == 10 \in Bases /\ 16 \in Bases
BY DEF Bases

\* Which letters are not digits, and which take an argument.
LEMMA LettersAre ==
  /\ \A c \in Kinds : c \notin Range(Digit)
  /\ \A item : /\ item.kind \in {"c", "d", "i", "u", "x", "X", "p", "s"} => Takes(item)
               /\ item.kind \notin {"c", "d", "i", "u", "x", "X", "p", "s"} => ~Takes(item)
<1>1. \A c \in Kinds : c \notin Range(Digit)
  BY DigitsAre DEF Kinds
<1>2. QED
  BY <1>1 DEF Takes, Numeric

LEMMA PrintCharKeeps ==
  ASSUME Within, PrintChar
  PROVE  Between'
<1>1. /\ Head(format) = "c" /\ args' = Tail(args)
      /\ out' = Cat(out, Written(<<Head(args)>>)) /\ ~command'
      /\ format' = Tail(format) /\ job' = job
  BY DEF PrintChar, Reads, Emit, Cat
<1>2. "c" \notin Range(Digit)
  BY LettersAre DEF Kinds
<1>3. PICK done \in Seq(Items), todo \in Seq(Items), item \in Items : CommandAt(done, item, todo)
  BY <1>1, <1>2, CommandNext
<1>4. item.kind = "c"
  BY <1>1, <1>3 DEF CommandAt
<1>5. Takes(item)
  BY <1>4, LettersAre
<1>6. Head(args) = item.value
  BY <1>3, <1>5, CommandTakes
<1>7. Expected(item) = Written(<<item.value>>)
  BY <1>4, ExpectedIs
<1>8. out' = Cat(out, Expected(item))
  BY <1>1, <1>6, <1>7
<1>9. QED
  BY <1>1, <1>3, <1>5, <1>8, CommandEmits

LEMMA PrintUnsignedKeeps ==
  ASSUME Within, PrintUnsigned
  PROVE  Between'
<1>1. /\ Head(format) = "u" /\ args' = Tail(args)
      /\ out' = Cat(out, Written(Converted(Head(args), 10, FALSE))) /\ ~command'
      /\ format' = Tail(format) /\ job' = job
  BY DEF PrintUnsigned, Reads, Emit, Cat
<1>2. "u" \notin Range(Digit)
  BY LettersAre DEF Kinds
<1>3. PICK done \in Seq(Items), todo \in Seq(Items), item \in Items : CommandAt(done, item, todo)
  BY <1>1, <1>2, CommandNext
<1>4. item.kind = "u"
  BY <1>1, <1>3 DEF CommandAt
<1>5. Takes(item)
  BY <1>4, LettersAre
<1>6. /\ Head(args) = item.value /\ width = item.width /\ fill = FillOf(item)
      /\ width \in 0..(BufSize - 1) /\ fill \in {" ", "0"}
  BY <1>3, <1>5, CommandTakes
<1>7. item.value \in 0..(Word - 1)
  BY <1>4, ItemIs DEF Numeric
<1>8. Written(Converted(item.value, 10, FALSE)) = Padded(item, <<>>, Numeral(item.value, 10))
  BY <1>6, <1>7, BasesAre, NumberPrints
<1>9. Expected(item) = Padded(item, <<>>, Numeral(item.value, 10))
  BY <1>4, ExpectedIs
<1>10. out' = Cat(out, Expected(item))
  BY <1>1, <1>6, <1>8, <1>9
<1>11. QED
  BY <1>1, <1>3, <1>5, <1>10, CommandEmits

LEMMA PrintHexKeeps ==
  ASSUME Within, PrintHex
  PROVE  Between'
<1>1. /\ Head(format) \in {"x", "X", "p"} /\ args' = Tail(args)
      /\ out' = Cat(out, Written(Converted(Head(args), 16, FALSE))) /\ ~command'
      /\ format' = Tail(format) /\ job' = job
  BY DEF PrintHex, Reads, Emit, Cat
<1>2. Head(format) \notin Range(Digit)
  BY <1>1, LettersAre DEF Kinds
<1>3. PICK done \in Seq(Items), todo \in Seq(Items), item \in Items : CommandAt(done, item, todo)
  BY <1>2, CommandNext
<1>4. item.kind \in {"x", "X", "p"}
  BY <1>1, <1>3 DEF CommandAt
<1>5. Takes(item)
  BY <1>4, LettersAre
<1>6. /\ Head(args) = item.value /\ width = item.width /\ fill = FillOf(item)
      /\ width \in 0..(BufSize - 1) /\ fill \in {" ", "0"}
  BY <1>3, <1>5, CommandTakes
<1>7. item.value \in 0..(Word - 1)
  BY <1>4, ItemIs DEF Numeric
<1>8. Written(Converted(item.value, 16, FALSE)) = Padded(item, <<>>, Numeral(item.value, 16))
  BY <1>6, <1>7, BasesAre, NumberPrints
<1>9. Expected(item) = Padded(item, <<>>, Numeral(item.value, 16))
  BY <1>4, ExpectedIs
<1>10. out' = Cat(out, Expected(item))
  BY <1>1, <1>6, <1>8, <1>9
<1>11. QED
  BY <1>1, <1>3, <1>5, <1>10, CommandEmits

LEMMA PrintSignedKeeps ==
  ASSUME Within, PrintSigned
  PROVE  Between'
<1> DEFINE value == Head(args)
<1>1. /\ Head(format) \in {"d", "i"} /\ args' = Tail(args) /\ ~command'
      /\ format' = Tail(format) /\ job' = job
  BY DEF PrintSigned, Reads, Emit
<1>2. out' = Cat(out, Written(Converted(IF value >= Word \div 2 THEN (Word - value) % Word
                                        ELSE value, 10, value >= Word \div 2)))
  BY Zenon DEF PrintSigned, Emit, Cat
<1>3. Head(format) \notin Range(Digit)
  BY <1>1, LettersAre DEF Kinds
<1>4. PICK done \in Seq(Items), todo \in Seq(Items), item \in Items : CommandAt(done, item, todo)
  BY <1>3, CommandNext
<1>5. item.kind \in {"d", "i"}
  BY <1>1, <1>4 DEF CommandAt
<1>6. Takes(item)
  BY <1>5, LettersAre
<1>7. /\ value = item.value /\ width = item.width /\ fill = FillOf(item)
      /\ width \in 0..(BufSize - 1) /\ fill \in {" ", "0"}
  BY <1>4, <1>6, CommandTakes
<1>8. item.value \in 0..(Word - 1)
  BY <1>5, ItemIs DEF Numeric
<1>9. Expected(item) = IF item.value < Word \div 2 THEN Padded(item, <<>>, Numeral(item.value, 10))
                         ELSE Padded(item, <<"-">>, Numeral(Word - item.value, 10))
  BY <1>5, ExpectedIs
<1> HIDE DEF value
<1>10. ASSUME item.value < Word \div 2 PROVE out' = Cat(out, Expected(item))
  <2>1. (value >= Word \div 2) = FALSE
    <3>1. ~(item.value >= Word \div 2)
      BY <1>8, <1>10, SignedIs
    <3>2. ~(value >= Word \div 2)
      BY <1>7, <3>1
    <3>3. QED
      BY <3>2
  <2>2. out' = Cat(out, Written(Converted(item.value, 10, FALSE)))
    BY <1>2, <1>7, <2>1
  <2>3. Written(Converted(item.value, 10, FALSE)) = Padded(item, <<>>, Numeral(item.value, 10))
    BY <1>7, <1>8, BasesAre, NumberPrints
  <2>4. QED
    BY <1>9, <1>10, <2>2, <2>3
<1>11. ASSUME ~(item.value < Word \div 2) PROVE out' = Cat(out, Expected(item))
  <2>1. /\ (value >= Word \div 2) = TRUE /\ (Word - value) % Word = Word - item.value
        /\ Word - item.value \in 0..(Word - 1)
    BY <1>7, <1>8, <1>11, SignedIs
  <2>2. out' = Cat(out, Written(Converted(Word - item.value, 10, TRUE)))
    BY <1>2, <2>1
  <2>3. Written(Converted(Word - item.value, 10, TRUE))
          = Padded(item, <<"-">>, Numeral(Word - item.value, 10))
    BY <1>7, <2>1, BasesAre, NumberPrints
  <2>4. QED
    BY <1>9, <1>11, <2>2, <2>3
<1>12. QED
  BY <1>1, <1>4, <1>6, <1>10, <1>11, CommandEmits
\* A string longer than its width is printed whole.
LEMMA StringPrints ==
  ASSUME NEW item \in Items, item.kind = "s"
  PROVE  Written(item.value \o Filled(item.width - Len(item.value), " ")) = Expected(item)
<1> DEFINE n == item.width - Len(item.value)
<1>1. item.value \in Seq(Chars)
  BY ItemIs
<1>2. n \in Int
  <2>1. item.width \in Nat /\ Len(item.value) \in Nat
    BY <1>1, ItemIs, LenProperties
  <2>2. QED
    BY <2>1
<1> HIDE DEF n
<1>3. Filled(n, " ") \in Seq(Plain)
  BY <1>2, PlainIs, FilledIs
<1>4. Written(Filled(n, " ")) = Filled(n, " ") /\ Filled(n, " ") \in Seq(Chars)
  BY <1>3, PlainWritten
<1>5. Written(Cat(item.value, Filled(n, " "))) = Cat(Written(item.value), Written(Filled(n, " ")))
  BY <1>1, <1>4, CatWritten
<1>6. Expected(item) = Cat(Written(item.value), Filled(n, " "))
  BY ExpectedIs DEF n
<1>7. QED
  BY <1>4, <1>5, <1>6 DEF Cat, n

LEMMA PrintStringKeeps ==
  ASSUME Within, PrintString
  PROVE  Between'
<1>1. /\ Head(format) = "s" /\ args' = Tail(args)
      /\ out' = Cat(out, Written(Head(args) \o Filled(width - Len(Head(args)), " ")))
      /\ ~command' /\ format' = Tail(format) /\ job' = job
  BY DEF PrintString, Reads, Emit, Cat
<1>2. "s" \notin Range(Digit)
  BY LettersAre DEF Kinds
<1>3. PICK done \in Seq(Items), todo \in Seq(Items), item \in Items : CommandAt(done, item, todo)
  BY <1>1, <1>2, CommandNext
<1>4. item.kind = "s"
  BY <1>1, <1>3 DEF CommandAt
<1>5. Takes(item)
  BY <1>4, LettersAre
<1>6. Head(args) = item.value /\ width = item.width
  BY <1>3, <1>5, CommandTakes
<1>7. Written(item.value \o Filled(item.width - Len(item.value), " ")) = Expected(item)
  BY <1>4, StringPrints
<1>8. out' = Cat(out, Expected(item))
  BY <1>1, <1>6, <1>7
<1>9. QED
  BY <1>1, <1>3, <1>5, <1>8, CommandEmits

LEMMA PrintPercentKeeps ==
  ASSUME Within, PrintPercent
  PROVE  Between'
<1>1. /\ Head(format) = "%" /\ args' = args
      /\ out' = Cat(out, Written(<<"%">>)) /\ ~command'
      /\ format' = Tail(format) /\ job' = job
  BY DEF PrintPercent, Reads, Emit, Cat
<1>2. "%" \notin Range(Digit)
  BY LettersAre DEF Kinds
<1>3. PICK done \in Seq(Items), todo \in Seq(Items), item \in Items : CommandAt(done, item, todo)
  BY <1>1, <1>2, CommandNext
<1>4. item.kind = "%"
  BY <1>1, <1>3 DEF CommandAt
<1>5. ~Takes(item)
  BY <1>4, LettersAre
<1>6. Written(<<"%">>) = <<"%">>
  BY SignsPlain, PlainWritten
<1>7. Expected(item) = <<"%">>
  BY <1>4, ExpectedIs
<1>8. out' = Cat(out, Expected(item))
  BY <1>1, <1>6, <1>7
<1>9. QED
  BY <1>1, <1>3, <1>5, <1>8, CommandEmits

LEMMA PrintErrorKeeps ==
  ASSUME Within, PrintError
  PROVE  Between'
<1>1. /\ Head(format) \notin Range(Digit)
                     \cup {"c", "d", "i", "u", "x", "X", "p", "s", "%"}
      /\ args' = args
      /\ out' = Cat(out, Written(<<"E", "R", "R", "O", "R">>)) /\ ~command'
      /\ format' = Tail(format) /\ job' = job
  BY DEF PrintError, Emit, Cat
<1>2. Head(format) \notin Range(Digit) /\ Head(format) \notin Kinds
  BY <1>1 DEF Kinds
<1>3. PICK done \in Seq(Items), todo \in Seq(Items), item \in Items : CommandAt(done, item, todo)
  BY <1>2, CommandNext
<1>4. item.kind = Head(format) /\ item.kind # "text"
  BY <1>3 DEF CommandAt
<1>5. item.kind \notin Kinds \cup {"text"}
  BY <1>2, <1>4
<1>6. ~Takes(item)
  BY <1>5, LettersAre DEF Kinds
<1>7. Written(<<"E", "R", "R", "O", "R">>) = <<"E", "R", "R", "O", "R">>
  BY SignsPlain, PlainWritten
<1>8. Expected(item) = <<"E", "R", "R", "O", "R">>
  BY <1>5, ExpectedIs
<1>9. out' = Cat(out, Expected(item))
  BY <1>1, <1>7, <1>8
<1>10. QED
  BY <1>1, <1>3, <1>6, <1>9, CommandEmits

-----------------------------------------------------------------------------
(* The call as a whole.                                                    *)

LEMMA InitPInv == Init => PInv
<1> SUFFICES ASSUME Init PROVE PInv
  OBVIOUS
<1>1. /\ job \in Jobs /\ format = Format(job) /\ args = Arguments(job) /\ ~command
      /\ out = <<>> /\ input = <<>>
  BY DEF Init
<1>2. job \in Seq(Items) /\ <<>> \in Seq(Items)
  BY <1>1, JobsAssumption, Starts
<1>3. job = Cat(<<>>, job)
  BY <1>2, CatLaws
<1>4. Expectation(<<>>) = <<>>
  <2>1. \A f : Joined(f, <<>>) = <<>>
    BY JoinedNothing
  <2>2. QED
    BY <1>2, <2>1, ItemsAreJoined
<1>5. Between
  BY <1>1, <1>2, <1>3, <1>4 DEF Between, Cat
<1>6. QED
  BY <1>1, <1>5 DEF PInv

LEMMA VprintfKeepsPInv ==
  ASSUME PInv, NotPrinting, UARTvprintf
  PROVE  PInv'
<1> SUFFICES ASSUME keys' = 0 PROVE (input = <<>> /\ (reading \/ Between \/ Within))'
  BY DEF PInv
<1>1. format # <<>> /\ UNCHANGED readVars
  BY DEF UARTvprintf, PrintText, ReadWidth, PrintChar, PrintSigned, PrintUnsigned, PrintHex,
         PrintString, PrintPercent, PrintError, Reads, Emit
<1>2. keys' = keys /\ input' = input
  BY <1>1 DEF readVars
<1>3. input = <<>> /\ (Between \/ Within)
  BY <1>1, <1>2 DEF PInv, NotPrinting
<1>4. CASE PrintText
  <2>1. ~command
    BY <1>4 DEF PrintText
  <2>2. Between
    BY <1>3, <2>1, WithinOpens
  <2>3. QED
    BY <1>2, <1>3, <1>4, <2>2, PrintTextKeeps
<1>5. CASE ~PrintText
  <2>1. command
    BY <1>5 DEF UARTvprintf, ReadWidth, PrintChar, PrintSigned, PrintUnsigned, PrintHex,
                PrintString, PrintPercent, PrintError, Reads
  <2>2. Within
    BY <1>3, <2>1, BetweenOpens
  <2>3. (Between \/ Within)'
    BY <1>5, <2>2, ReadWidthKeeps, PrintCharKeeps, PrintSignedKeeps, PrintUnsignedKeeps,
       PrintHexKeeps, PrintStringKeeps, PrintPercentKeeps, PrintErrorKeeps DEF UARTvprintf
  <2>4. QED
    BY <1>2, <1>3, <2>3
<1>6. QED
  BY <1>4, <1>5

LEMMA NextPInv == PInv /\ RInv /\ [Next]_vars => PInv'
<1> SUFFICES ASSUME PInv, RInv, [Next]_vars PROVE PInv'
  OBVIOUS
<1>1. keys \in Nat
  <2>1. keys \in 0..MaxKeys
    BY DEF RInv, TypeOK
  <2>2. QED
    BY <2>1
<1>2. CASE UARTvprintf
  BY <1>2, VprintfKeepsPInv DEF RInv
<1>3. CASE CallGets
  <2>1. reading' /\ input' = input /\ keys' = keys
    BY <1>3 DEF CallGets
  <2>2. QED
    BY <2>1 DEF PInv
<1>4. CASE Backspace \/ SkipLF \/ EndLine \/ StoreKey \/ UARTgetc
  <2>1. input # <<>> /\ keys' = keys
    BY <1>4 DEF Backspace, SkipLF, EndLine, StoreKey, UARTgetc, NextChar
  <2>2. QED
    BY <2>1 DEF PInv
<1>5. CASE PressKey \/ PressEnter
  <2>1. keys' = keys + 1
    BY <1>5 DEF PressKey, PressEnter, Press
  <2>2. keys' # 0
    BY <1>1, <2>1
  <2>3. QED
    BY <2>2 DEF PInv
<1>6. CASE UNCHANGED vars
  <2>1. UNCHANGED <<job, format, args, command, width, fill, out, input, reading, keys>>
    BY <1>6 DEF vars, printVars, readVars
  <2>2. Between => Between'
    BY <2>1 DEF Between
  <2>3. Within => Within'
    BY <2>1 DEF Within
  <2>4. QED
    BY <2>1, <2>2, <2>3 DEF PInv
<1>7. QED
  BY <1>2, <1>3, <1>4, <1>5, <1>6 DEF Next, UARTgets

THEOREM PrintingInvariance == Spec => []PInv
<1>1. Init => PInv
  BY InitPInv
<1>2. PInv /\ RInv /\ [Next]_vars => PInv'
  BY NextPInv
<1>3. Spec => []RInv
  BY ReadingInvariance
<1>4. QED
  BY <1>1, <1>2, <1>3, PTL DEF Spec

\* For every call, and every width, argument and size of a word that meet the
\* assumptions: when UARTprintf returns, what it has sent is what its comment says
\* of each item of the call in turn, and every argument has been used.
THEOREM PrintsAsDocumented == Spec => []PrintedAsDocumented
<1>1. PInv => PrintedAsDocumented
  <2> SUFFICES ASSUME PInv, Idle, keys = 0 PROVE out = Expectation(job) /\ args = <<>>
    BY DEF PrintedAsDocumented
  <2>1. format = <<>> /\ ~command /\ ~reading
    BY DEF Idle
  <2>2. Between
    BY <2>1, WithinOpens DEF PInv
  <2>3. QED
    BY <2>1, <2>2, BetweenEnds
<1>2. Spec => []PInv
  BY PrintingInvariance
<1>3. QED
  BY <1>1, <1>2, PTL
=============================================================================
