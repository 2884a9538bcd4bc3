----------------------------- MODULE LabsProofs -----------------------------
(***************************************************************************)
(* Proofs about the laboratory programs (module Labs).                     *)
(***************************************************************************)
EXTENDS Labs, RingProofs, FiniteSetTheorems, TLAPS

-----------------------------------------------------------------------------
(* The board.                                                              *)

LEMMA ElapseTyped ==
  ASSUME BoardTypeOK, NEW n \in Nat, Elapse(n)
  PROVE  BoardTypeOK'
<1>1. Hold \in Nat
  BY BoardAssumption
<1>2. since' \in [Buttons -> 0..Hold]
  BY <1>1 DEF BoardTypeOK, Elapse
<1>3. QED
  BY <1>2 DEF BoardTypeOK, Elapse

LEMMA MoveTyped ==
  ASSUME BoardTypeOK, NEW k \in Buttons, Move(k)
  PROVE  BoardTypeOK'
<1>1. Hold \in Nat
  BY BoardAssumption
<1>2. finger' \in [Buttons -> BOOLEAN] /\ since' \in [Buttons -> 0..Hold]
  BY <1>1 DEF BoardTypeOK, Move
<1>3. presses' \in [Buttons -> Nat]
  BY DEF BoardTypeOK, Move
<1>4. QED
  BY <1>2, <1>3 DEF BoardTypeOK

-----------------------------------------------------------------------------
(* The types of the programs of experiments 0 and 1.                       *)

Lab0s == [ui8LED : {2, 4, 8}, led : {0, 2, 4, 8}]
Lab1s == [at : Checks \cup {"lit", "dark"}, again : BOOLEAN,
          sw1 : BOOLEAN, count : 0..255, delay : {1, 2, 4},
          colour : {2, 4, 8}, led : {0, 2, 4, 8}]
LabCs == [uicount : 0..2, val : {1, 2, 4}, temp : BOOLEAN,
          debounce : 0..2, closed : BOOLEAN, uicountSW2 : 0..2,
          lock2 : BOOLEAN, lock : BOOLEAN, lit : SUBSET (0..2)]
LabABs == [debounceSW2 : 0..Debounce - 1, pressed2 : BOOLEAN,
           uicountSW2 : 0..255, debounce : 0..Debounce,
           closed : BOOLEAN, temp : BOOLEAN, uicount : 0..2,
           lit : SUBSET (0..2)]

LEMMA Lab1Typed == Lab1TypeOK <=> lab0 \in Lab0s /\ lab1 \in Lab1s /\ labC \in LabCs /\ labAB \in LabABs
BY DEF Lab1TypeOK, Lab0s, Lab1s, LabCs, LabABs

LEMMA Lab0Typed == lab0 \in Lab0s /\ Lab0Turn => lab0' \in Lab0s
BY DEF Lab0s, Lab0Turn, NextColour

LEMMA ReturnsTyped ==
  ASSUME lab1 \in Lab1s, NEW closed \in BOOLEAN
  PROVE  Returns(closed) \in Lab1s
<1> DEFINE s == [lab1 EXCEPT !.again = FALSE]
<1>1. s \in Lab1s
  BY DEF Lab1s
<1>2. /\ (s.count + 1) % 256 \in 0..255 /\ NextDelay(s.delay) \in {1, 2, 4}
      /\ NextColour(s.colour) \in {2, 4, 8}
  <2>1. s.count \in 0..255 /\ s.delay \in {1, 2, 4} /\ s.colour \in {2, 4, 8}
    BY <1>1 DEF Lab1s
  <2> HIDE DEF s
  <2>2. QED
    BY <2>1 DEF NextDelay, NextColour
<1>3. AfterButton2(s) \in {"hold1", "lit"}
  BY DEF AfterButton2
<1>4. Returns(closed) = CASE s.at = "sw1" -> [s EXCEPT !.at = "sw2", !.sw1 = closed]
         [] s.at = "sw2" /\ closed ->
                [s EXCEPT !.at = "hold2", !.count = (s.count + 1) % 256]
         [] s.at = "sw2" /\ ~closed -> [s EXCEPT !.at = AfterButton2(s)]
         [] s.at = "hold2" /\ ~closed ->
                [s EXCEPT !.at = AfterButton2(s), !.delay = NextDelay(s.delay)]
         [] s.at = "hold1" /\ ~closed ->
                [s EXCEPT !.at = "lit", !.colour = NextColour(s.colour)]
         [] OTHER -> s
  BY <1>1 DEF Returns, Lab1s
<1> HIDE DEF s
<1> DEFINE count == (s.count + 1) % 256
           next == AfterButton2(s)
           delay == NextDelay(s.delay)
           colour == NextColour(s.colour)
<1>5. count \in 0..255 /\ delay \in {1, 2, 4} /\ colour \in {2, 4, 8} /\ next \in {"hold1", "lit"}
  BY <1>2, <1>3
<1> HIDE DEF count, next, delay, colour
<1>6. [s EXCEPT !.at = "sw2", !.sw1 = closed] \in Lab1s
  BY <1>1 DEF Lab1s, Checks
<1>7. [s EXCEPT !.at = "hold2", !.count = count] \in Lab1s
  BY <1>1, <1>5 DEF Lab1s, Checks
<1>8. [s EXCEPT !.at = next] \in Lab1s /\ [s EXCEPT !.at = next, !.delay = delay] \in Lab1s
  BY <1>1, <1>5 DEF Lab1s, Checks
<1>9. [s EXCEPT !.at = "lit", !.colour = colour] \in Lab1s
  BY <1>1, <1>5 DEF Lab1s, Checks
<1>10. QED
  BY <1>1, <1>4, <1>6, <1>7, <1>8, <1>9 DEF count, next, delay, colour

LEMMA ToggleTyped == lab1 \in Lab1s /\ Toggle => lab1' \in Lab1s
<1>1. SUFFICES ASSUME lab1 \in Lab1s, Toggle PROVE lab1' \in Lab1s
  OBVIOUS
<1>2. lab1.colour \in {0, 2, 4, 8}
  BY <1>1 DEF Lab1s
<1>3. /\ [lab1 EXCEPT !.at = "dark", !.led = lab1.colour] \in Lab1s
      /\ [lab1 EXCEPT !.at = "sw1", !.led = 0] \in Lab1s
  BY <1>1, <1>2 DEF Lab1s, Checks
<1>4. QED
  BY <1>1, <1>3 DEF Toggle

LEMMA SelectLedTyped ==
  ASSUME NEW s \in LabCs, NEW down \in BOOLEAN
  PROVE  SelectLed(s, down) \in LabCs
<1>1. (s.uicountSW2 + 1) % 3 \in 0..2 /\ (s.lock2 /\ down) \in BOOLEAN
  BY DEF LabCs
<1>2. QED
  BY <1>1 DEF LabCs, SelectLed

LEMMA SelectDelayTyped ==
  ASSUME NEW s \in LabCs, NEW down \in BOOLEAN
  PROVE  SelectDelay(s, down) \in LabCs
<1> DEFINE n == IF down THEN IF s.debounce < 2 THEN s.debounce + 1 ELSE 2 ELSE 0
           pressed == down /\ (n = 2 \/ s.closed)
           moved == ~pressed /\ s.temp
           v == IF pressed THEN 2 ^ s.uicount ELSE s.val
           u == IF moved THEN (s.uicount + 1) % 3 ELSE s.uicount
<1>1. n \in 0..2 /\ pressed \in BOOLEAN
  BY DEF LabCs
<1>2. v \in {1, 2, 4} /\ u \in 0..2
  <2>1. s.uicount \in 0..2 /\ s.val \in {1, 2, 4}
    BY DEF LabCs
  <2>2. 2 ^ 0 = 1 /\ 2 ^ 1 = 2 /\ 2 ^ 2 = 4
    OBVIOUS
  <2>3. 2 ^ s.uicount \in {1, 2, 4}
    <3>1. s.uicount = 0 \/ s.uicount = 1 \/ s.uicount = 2
      BY <2>1
    <3>2. QED
      BY <2>2, <3>1, Zenon
  <2>4. (s.uicount + 1) % 3 \in 0..2
    BY <2>1
  <2>5. QED
    BY <2>1, <2>3, <2>4
<1>3. SelectDelay(s, down) = [s EXCEPT !.debounce = n, !.closed = pressed, !.temp = pressed,
                                       !.val = v, !.uicount = u]
  BY Zenon DEF SelectDelay
<1> HIDE DEF n, pressed, v, u
<1>4. QED
  BY <1>1, <1>2, <1>3 DEF LabCs

LEMMA BlinkTyped ==
  ASSUME NEW s \in LabCs
  PROVE  Blink(s) \in LabCs
BY DEF LabCs, Blink

LEMMA CountTyped ==
  ASSUME NEW s \in LabABs, NEW down \in BOOLEAN
  PROVE  CountButton2(s, down) \in LabABs
<1>1. /\ (s.uicountSW2 + 1) % 256 \in 0..255 /\ 0 \in 0..Debounce - 1
      /\ s.debounceSW2 + 1 < Debounce => s.debounceSW2 + 1 \in 0..Debounce - 1
      /\ ~(s.debounceSW2 + 1 >= Debounce) => s.debounceSW2 + 1 < Debounce
  <2>1. s.uicountSW2 \in 0..255 /\ s.debounceSW2 \in 0..Debounce - 1 /\ Debounce \in Nat \ {0}
    BY DebounceAssumption DEF LabABs
  <2>2. QED
    BY <2>1
<1>2. QED
  <2> DEFINE c == (s.uicountSW2 + 1) % 256
             n == s.debounceSW2 + 1
  <2>1. c \in 0..255 /\ 0 \in 0..Debounce - 1
    BY <1>1
  <2>2. CountButton2(s, down) =
          IF down /\ ~s.pressed2
          THEN IF n >= Debounce
               THEN [s EXCEPT !.pressed2 = TRUE, !.debounceSW2 = 0, !.uicountSW2 = c]
               ELSE [s EXCEPT !.debounceSW2 = n]
          ELSE IF down THEN s ELSE [s EXCEPT !.debounceSW2 = 0, !.pressed2 = FALSE]
    BY Zenon DEF CountButton2
  <2>3. ~(n >= Debounce) => n \in 0..Debounce - 1
    BY <1>1
  <2> HIDE DEF c, n
  <2>4. [s EXCEPT !.pressed2 = TRUE, !.debounceSW2 = 0, !.uicountSW2 = c] \in LabABs
    BY <2>1 DEF LabABs
  <2>5. n \in 0..Debounce - 1 => [s EXCEPT !.debounceSW2 = n] \in LabABs
    BY DEF LabABs
  <2>6. [s EXCEPT !.debounceSW2 = 0, !.pressed2 = FALSE] \in LabABs
    BY <2>1 DEF LabABs
  <2>7. QED
    BY <2>2, <2>3, <2>4, <2>5, <2>6

LEMMA LightTyped ==
  ASSUME NEW s \in LabABs, NEW down \in BOOLEAN
  PROVE  LightButton1(s, down) \in LabABs
<1> DEFINE n == IF down THEN IF s.debounce < Debounce THEN s.debounce + 1 ELSE Debounce ELSE 0
           pressed == down /\ (n >= Debounce \/ s.closed)
           l == IF pressed THEN s.lit \cup {s.uicount} ELSE s.lit \ {s.uicount}
           u == IF ~pressed /\ s.temp THEN (s.uicount + 1) % 3 ELSE s.uicount
<1>1. n \in 0..Debounce /\ pressed \in BOOLEAN
  <2>1. s.debounce \in 0..Debounce /\ Debounce \in Nat
    BY DebounceAssumption DEF LabABs
  <2>2. QED
    BY <2>1
<1>2. u \in 0..2
  <2>1. s.uicount \in 0..2
    BY DEF LabABs
  <2>2. (s.uicount + 1) % 3 \in 0..2
    BY <2>1
  <2> HIDE DEF pressed
  <2>3. QED
    BY <2>1, <2>2
<1>3. l \in SUBSET (0..2)
  <2>1. s.lit \subseteq 0..2 /\ s.uicount \in 0..2
    BY DEF LabABs
  <2> HIDE DEF pressed
  <2>2. QED
    BY <2>1
<1>4. LightButton1(s, down) = [s EXCEPT !.debounce = n, !.closed = pressed, !.temp = pressed,
                                        !.lit = l, !.uicount = u]
  BY Zenon DEF LightButton1
<1> HIDE DEF n, pressed, l, u
<1> DEFINE s1 == [s EXCEPT !.debounce = n, !.closed = pressed, !.temp = pressed]
<1>5. s1 \in LabABs
  BY <1>1 DEF LabABs
<1>6. [s1 EXCEPT !.lit = l, !.uicount = u] \in LabABs
  <2> HIDE DEF s1
  <2>1. QED
    BY <1>2, <1>3, <1>5 DEF LabABs
<1>7. QED
  BY <1>4, <1>6
-----------------------------------------------------------------------------
(* What a step of each program leaves alone.                               *)

\* The programs of experiments 0, 1 and 2 let time pass, the user moves a button
\* between their readings, and the others do neither.
BoardMoves ==
  \/ UNCHANGED board
  \/ \E k \in Buttons : Move(k) /\ UNCHANGED programs
  \/ program \in {"lab-0", "lab-1", "lab-1_PartC"} /\ Elapse(Hold)
  \/ program \in {"lab-1_PartA_B", "lab-2"} /\ Elapse(1)

BlinkerMoves ==
  \/ UNCHANGED <<lab0, lab1, labC, labAB>>
  \/ program = "lab-0" /\ Lab0Turn /\ UNCHANGED <<lab1, labC, labAB>>
  \/ program = "lab-1" /\ Lab1Turn /\ UNCHANGED <<lab0, labC, labAB>>
  \/ program = "lab-1_PartC" /\ LabCTurn /\ UNCHANGED <<lab0, lab1, labAB>>
  \/ program = "lab-1_PartA_B" /\ LabABTurn /\ UNCHANGED <<lab0, lab1, labC>>

TimedMoves ==
  /\ \/ UNCHANGED lab2
     \/ program = "lab-2" /\ Timer0IntHandler
  /\ \/ UNCHANGED rainbow
     \/ program = "Lab3P1A" /\ RainbowNext
  /\ \/ UNCHANGED ui8Adjust
     \/ program = "LAB3P2" /\ ServoTurn
  /\ \/ UNCHANGED lamps
     \/ program = "lab3P1B" /\ LampNext

LEMMA StepIs ==
  ASSUME [Next]_vars
  PROVE  /\ program' = program /\ BoardMoves /\ BlinkerMoves /\ TimedMoves
         /\ \/ UNCHANGED plotter
            \/ program = "lab4" /\ PlotterNext
         /\ UNCHANGED display \/ Display
<1>1. CASE Blinkers /\ UNCHANGED <<program, plotter, display>>
  <2>1. UNCHANGED <<lab2, rainbow, ui8Adjust, lamps>>
    BY <1>1 DEF Blinkers
  <2>2. BlinkerMoves
    BY <1>1 DEF Blinkers, BlinkerMoves
  <2>3. BoardMoves
    BY <1>1 DEF Blinkers, BoardMoves, Lab0Turn, Lab1Turn, FirstReading, SecondReading, Toggle,
                LabCTurn, LabABTurn
  <2>4. QED
    BY <1>1, <2>1, <2>2, <2>3 DEF TimedMoves
<1>2. CASE Timed /\ UNCHANGED <<program, plotter, display>>
  <2>1. UNCHANGED <<lab0, lab1, labC, labAB>>
    BY <1>2 DEF Timed, blinkers
  <2>2. TimedMoves
    BY <1>2 DEF Timed, TimedMoves
  <2>3. BoardMoves
    BY <1>2 DEF Timed, BoardMoves, Timer0IntHandler
  <2>4. QED
    BY <1>2, <2>1, <2>2, <2>3 DEF BlinkerMoves
<1>3. CASE User /\ UNCHANGED <<program, plotter, display>>
  <2>1. BoardMoves
    BY <1>3 DEF User, BoardMoves
  <2>2. UNCHANGED programs
    BY <1>3 DEF User
  <2>3. QED
    BY <1>3, <2>1, <2>2 DEF programs, blinkers, BlinkerMoves, TimedMoves
<1>4. CASE program = "lab4" /\ PlotterNext /\ UNCHANGED <<program, board, programs, display>>
  BY <1>4 DEF programs, blinkers, BoardMoves, BlinkerMoves, TimedMoves
<1>5. CASE Display /\ UNCHANGED <<program, board, programs, plotter>>
  BY <1>5 DEF programs, blinkers, BoardMoves, BlinkerMoves, TimedMoves
<1>6. CASE UNCHANGED vars
  BY <1>6 DEF vars, programs, blinkers, BoardMoves, BlinkerMoves, TimedMoves
<1>7. QED
  BY <1>1, <1>2, <1>3, <1>4, <1>5, <1>6 DEF Next

LEMMA InitBoard == Init => BoardTypeOK /\ program \in Programs
<1>1. Hold \in 0..Hold /\ 0 \in Nat
  BY BoardAssumption
<1>2. QED
  BY <1>1 DEF Init, BoardInit, BoardTypeOK

LEMMA NextBoard == BoardTypeOK /\ [Next]_vars => BoardTypeOK'
<1>1. SUFFICES ASSUME BoardTypeOK, [Next]_vars PROVE BoardTypeOK'
  OBVIOUS
<1>2. BoardMoves
  BY <1>1, StepIs
<1>3. CASE UNCHANGED board
  BY <1>1, <1>3 DEF board, BoardTypeOK
<1>4. CASE \E n \in Nat : Elapse(n)
  BY <1>1, <1>4, ElapseTyped
<1>5. CASE \E k \in Buttons : Move(k)
  BY <1>1, <1>5, MoveTyped
<1>6. 1 \in Nat /\ Hold \in Nat
  BY BoardAssumption
<1>7. QED
  BY <1>2, <1>3, <1>4, <1>5, <1>6 DEF BoardMoves

LEMMA ReadingsTyped ==
  ASSUME BoardTypeOK, NEW k \in {1, 2}
  PROVE  Readings(k) \subseteq BOOLEAN
BY DEF BoardTypeOK, Readings, Buttons

\* The buttons and their clocks stay in their ranges.
THEOREM BoardInvariance == Spec => []BoardTypeOK
<1>1. QED
  BY InitBoard, NextBoard, PTL DEF Spec

-----------------------------------------------------------------------------
(* Experiments 0 and 1.                                                    *)

LEMMA InitLab1Type == Init => Lab1TypeOK
<1>1. SUFFICES ASSUME Init PROVE Lab1TypeOK
  OBVIOUS
<1>2. /\ lab0 = [ui8LED |-> 2, led |-> 0]
      /\ lab1 = [at |-> "sw1", again |-> FALSE, sw1 |-> FALSE, count |-> 0,
                 delay |-> 1, colour |-> 2, led |-> 0]
      /\ labC = [uicount |-> 0, val |-> 1, temp |-> FALSE, debounce |-> 0,
                 closed |-> FALSE, uicountSW2 |-> 0, lock2 |-> FALSE,
                 lock |-> FALSE, lit |-> {}]
      /\ labAB = [debounceSW2 |-> 0, pressed2 |-> FALSE, uicountSW2 |-> 0,
                  debounce |-> 0, closed |-> FALSE, temp |-> FALSE,
                  uicount |-> 0, lit |-> {}]
  BY <1>1 DEF Init, Lab0Init, Lab1Init, LabCInit, LabABInit
<1>3. 0 \in 0..Debounce - 1 /\ 0 \in 0..Debounce
  BY DebounceAssumption
<1>4. lab0 \in Lab0s /\ lab1 \in Lab1s
  BY <1>2 DEF Lab0s, Lab1s, Checks
<1>5. labC \in LabCs
  BY <1>2 DEF LabCs
<1>6. labAB \in LabABs
  BY <1>2, <1>3 DEF LabABs
<1>7. QED
  BY <1>4, <1>5, <1>6, Lab1Typed

LEMMA NextLab1Type == Lab1TypeOK /\ BoardTypeOK /\ [Next]_vars => Lab1TypeOK'
<1>1. SUFFICES ASSUME Lab1TypeOK, BoardTypeOK, [Next]_vars PROVE Lab1TypeOK'
  OBVIOUS
<1>2. lab0 \in Lab0s /\ lab1 \in Lab1s /\ labC \in LabCs /\ labAB \in LabABs
  BY <1>1, Lab1Typed
<1>3. BlinkerMoves
  BY <1>1, StepIs
<1>4. Readings(1) \subseteq BOOLEAN /\ Readings(2) \subseteq BOOLEAN
  BY <1>1, ReadingsTyped
<1>5. lab0' \in Lab0s
  BY <1>2, <1>3, Lab0Typed DEF BlinkerMoves
<1>6. lab1' \in Lab1s
  <2>1. CASE lab1' = lab1
    BY <1>2, <2>1
  <2>2. CASE Lab1Turn
    <3>1. Readings(Checked) \subseteq BOOLEAN
      BY <1>4 DEF Checked
    <3>2. \A closed \in BOOLEAN : Returns(closed) \in Lab1s
      BY <1>2, ReturnsTyped
    <3>3. [lab1 EXCEPT !.again = TRUE] \in Lab1s
      BY <1>2 DEF Lab1s
    <3>4. CASE FirstReading
      BY <3>1, <3>2, <3>3, <3>4 DEF FirstReading
    <3>5. CASE SecondReading
      BY <3>1, <3>2, <3>5 DEF SecondReading
    <3>6. CASE Toggle
      BY <1>2, <3>6, ToggleTyped
    <3>7. QED
      BY <2>2, <3>4, <3>5, <3>6 DEF Lab1Turn
  <2>3. QED
    BY <1>3, <2>1, <2>2 DEF BlinkerMoves
<1>7. labC' \in LabCs
  <2>1. CASE labC' = labC
    BY <1>2, <2>1
  <2>2. CASE LabCTurn
    <3>1. PICK one \in Readings(1), two \in Readings(2) :
            labC' = Blink(SelectDelay(SelectLed(labC, two), one))
      BY <2>2 DEF LabCTurn
    <3>2. SelectLed(labC, two) \in LabCs
      BY <1>2, <1>4, SelectLedTyped
    <3>3. SelectDelay(SelectLed(labC, two), one) \in LabCs
      BY <1>4, <3>2, SelectDelayTyped
    <3>4. QED
      BY <3>1, <3>3, BlinkTyped
  <2>3. QED
    BY <1>3, <2>1, <2>2 DEF BlinkerMoves
<1>8. labAB' \in LabABs
  <2>1. CASE labAB' = labAB
    BY <1>2, <2>1
  <2>2. CASE LabABTurn
    <3>1. PICK one \in Readings(1), two \in Readings(2) :
            labAB' = LightButton1(CountButton2(labAB, two), one)
      BY <2>2 DEF LabABTurn
    <3>2. CountButton2(labAB, two) \in LabABs
      BY <1>2, <1>4, CountTyped
    <3>3. QED
      BY <1>4, <3>1, <3>2, LightTyped
  <2>3. QED
    BY <1>3, <2>1, <2>2 DEF BlinkerMoves
<1>9. QED
  BY <1>5, <1>6, <1>7, <1>8 DEF Lab1TypeOK, Lab0s, Lab1s, LabCs, LabABs

\* No counter, delay or colour of the programs of experiments 0 and 1 leaves its
\* range, whatever the contacts do.
THEOREM Lab1TypeCorrect == Spec => []Lab1TypeOK
<1>1. QED
  BY InitLab1Type, NextLab1Type, BoardInvariance, PTL DEF Spec
-----------------------------------------------------------------------------
(* lab-1_PartC.c: the passes that light and those that clear alternate.    *)

LEMMA LabCKeeps ==
  ASSUME labC \in LabCs, LabCIInv, NEW one \in BOOLEAN, NEW two \in BOOLEAN,
         labC' = Blink(SelectDelay(SelectLed(labC, two), one))
  PROVE  LabCIInv'
<1> DEFINE s == SelectLed(labC, two)
           t == SelectDelay(s, one)
<1>1. s \in LabCs /\ s.lock = labC.lock /\ s.lit = labC.lit
  <2>1. s \in LabCs
    BY SelectLedTyped
  <2>2. QED
    BY <2>1 DEF SelectLed, LabCs
<1> HIDE DEF s
<1>2. t \in LabCs /\ t.lock = s.lock /\ t.lit = s.lit
  <2>1. t \in LabCs
    BY <1>1, SelectDelayTyped
  <2>2. QED
    BY <1>1, <2>1 DEF SelectDelay, LabCs
<1>3. labC' = Blink(t)
  BY DEF t, s
<1> HIDE DEF t
<1>4. labC'.lock = ~t.lock /\ labC'.lit = IF t.lock THEN t.lit \cup {t.uicountSW2} ELSE {}
  BY <1>2, <1>3 DEF Blink, LabCs
<1>5. t.uicountSW2 \in 0..2 /\ t.lock \in BOOLEAN
  BY <1>2 DEF LabCs
<1>6. CASE t.lock
  <2>1. t.lit = {}
    BY <1>1, <1>2, <1>6 DEF LabCIInv
  <2>2. ~labC'.lock /\ labC'.lit \subseteq {t.uicountSW2}
    BY <1>4, <1>6, <2>1
  <2>3. QED
    BY <1>5, <2>2 DEF LabCIInv
<1>7. CASE ~t.lock
  BY <1>4, <1>7 DEF LabCIInv
<1>8. QED
  BY <1>5, <1>6, <1>7

\* The invariant of lab-1_PartC.c: no LED is lit when the next pass may light one.
THEOREM LabCInvariance == Spec => []LabCIInv
<1>1. Init => LabCIInv
  BY DEF Init, LabCInit, LabCIInv
<1>2. LabCIInv /\ Lab1TypeOK /\ BoardTypeOK /\ [Next]_vars => LabCIInv'
  <2>1. SUFFICES ASSUME LabCIInv, Lab1TypeOK, BoardTypeOK, [Next]_vars PROVE LabCIInv'
    OBVIOUS
  <2>2. labC \in LabCs /\ BlinkerMoves
    BY <2>1, Lab1Typed, StepIs
  <2>3. Readings(1) \subseteq BOOLEAN /\ Readings(2) \subseteq BOOLEAN
    BY <2>1, ReadingsTyped
  <2>4. CASE labC' = labC
    BY <2>1, <2>4 DEF LabCIInv
  <2>5. CASE LabCTurn
    BY <2>1, <2>2, <2>3, <2>5, LabCKeeps DEF LabCTurn
  <2>6. QED
    BY <2>2, <2>4, <2>5 DEF BlinkerMoves
<1>3. QED
  BY <1>1, <1>2, BoardInvariance, Lab1TypeCorrect, PTL DEF Spec

\* The program never leaves two LEDs lit, whichever button 2 selects between
\* the pass that lights and the pass that clears (lab-1_PartC.c).
THEOREM OneLed == Spec => []OneLedAtATime
<1>1. LabCIInv => OneLedAtATime
  <2>1. SUFFICES ASSUME LabCIInv PROVE Cardinality(labC.lit) <= 1
    BY DEF OneLedAtATime
  <2>2. PICK k \in 0..2 : labC.lit \subseteq {k}
    <3>1. 0 \in 0..2
      OBVIOUS
    <3>2. QED
      BY <2>1, <3>1 DEF LabCIInv
  <2>3. IsFiniteSet({k}) /\ Cardinality({k}) = 1
    BY FS_Singleton
  <2>4. Cardinality(labC.lit) <= Cardinality({k})
    BY <2>2, <2>3, FS_Subset
  <2>5. QED
    BY <2>3, <2>4
<1>2. QED
  BY <1>1, LabCInvariance, PTL

-----------------------------------------------------------------------------
(* lab-1.c: every wait is as long as a finger stays, so a contact has      *)
(* either just moved or is quiet.                                          *)

\* The invariant while main is at "place", with the count c.
Lab1At(place, again, c, f, s, p) ==
    /\ s \in {0, Hold} /\ c <= p
    /\ f /\ (place # "hold2" \/ s = 0) => c + 1 <= p
    /\ ~f /\ s = 0 /\ place \in {"dark", "sw1", "sw2"} => c + 1 <= p
    /\ place = "sw2" /\ again => c + 1 <= p /\ (f /\ s = 0 => c + 2 <= p)

LEMMA Lab1AtIs ==
  ASSUME lab1 \in Lab1s, BoardTypeOK
  PROVE  Lab1IInv <=> Lab1At(lab1.at, lab1.again, lab1.count, finger[2], since[2], presses[2])
<1>1. lab1.count \in Nat /\ presses[2] \in Nat
  BY DEF Lab1s, BoardTypeOK, Buttons
<1>2. QED
  BY <1>1 DEF Lab1IInv, Lab1At, Behind

LEMMA ReturnsIs ==
  ASSUME lab1 \in Lab1s, NEW closed \in BOOLEAN
  PROVE  LET r == Returns(closed)
         IN  /\ ~r.again
             /\ lab1.at = "sw1" => r.at = "sw2" /\ r.count = lab1.count
             /\ lab1.at = "sw2" /\ closed => r.at = "hold2" /\ r.count = (lab1.count + 1) % 256
             /\ lab1.at = "sw2" /\ ~closed => r.at \in {"hold1", "lit"} /\ r.count = lab1.count
             /\ lab1.at = "hold2" /\ closed => r.at = "hold2" /\ r.count = lab1.count
             /\ lab1.at = "hold2" /\ ~closed => r.at \in {"hold1", "lit"} /\ r.count = lab1.count
             /\ lab1.at = "hold1" => r.at \in {"hold1", "lit"} /\ r.count = lab1.count
<1> DEFINE s == [lab1 EXCEPT !.again = FALSE]
<1>1. s \in Lab1s /\ s.at = lab1.at /\ s.count = lab1.count /\ ~s.again
  BY DEF Lab1s
<1>2. Returns(closed) = CASE s.at = "sw1" -> [s EXCEPT !.at = "sw2", !.sw1 = closed]
         [] s.at = "sw2" /\ closed ->
                [s EXCEPT !.at = "hold2", !.count = (s.count + 1) % 256]
         [] s.at = "sw2" /\ ~closed -> [s EXCEPT !.at = AfterButton2(s)]
         [] s.at = "hold2" /\ ~closed ->
                [s EXCEPT !.at = AfterButton2(s), !.delay = NextDelay(s.delay)]
         [] s.at = "hold1" /\ ~closed ->
                [s EXCEPT !.at = "lit", !.colour = NextColour(s.colour)]
         [] OTHER -> s
  BY <1>1 DEF Returns, Lab1s
<1>3. AfterButton2(s) \in {"hold1", "lit"}
  BY DEF AfterButton2
<1> HIDE DEF s
<1> DEFINE r == Returns(closed)
<1>4. lab1.at = "sw1" => r = [s EXCEPT !.at = "sw2", !.sw1 = closed]
  BY <1>1, <1>2
<1>5. lab1.at = "sw2" /\ closed => r = [s EXCEPT !.at = "hold2", !.count = (s.count + 1) % 256]
  BY <1>1, <1>2
<1>6. lab1.at = "sw2" /\ ~closed => r = [s EXCEPT !.at = AfterButton2(s)]
  BY <1>1, <1>2
<1>7. lab1.at = "hold2" /\ ~closed
        => r = [s EXCEPT !.at = AfterButton2(s), !.delay = NextDelay(s.delay)]
  BY <1>1, <1>2
<1>8. lab1.at = "hold1" /\ ~closed => r = [s EXCEPT !.at = "lit", !.colour = NextColour(s.colour)]
  BY <1>1, <1>2
<1>9. lab1.at \in {"hold1", "hold2"} /\ closed => r = s
  BY <1>1, <1>2
<1>10. lab1.at \in {"lit", "dark"} => r = s
  BY <1>1, <1>2
<1> HIDE DEF r
<1>11. lab1.at \in Checks \cup {"lit", "dark"}
  BY DEF Lab1s
<1>12. ~r.again
  <2>1. lab1.at \in {"sw1", "sw2", "hold2", "hold1", "lit", "dark"}
    BY <1>11 DEF Checks
  <2>2. lab1.at = "sw1" => ~r.again
    BY <1>1, <1>4 DEF Lab1s
  <2>3. lab1.at = "sw2" => ~r.again
    <3> DEFINE n == (s.count + 1) % 256
    <3>1. lab1.at = "sw2" /\ closed => r = [s EXCEPT !.at = "hold2", !.count = n]
      BY <1>5
    <3> HIDE DEF n
    <3>2. QED
      BY <1>1, <1>6, <3>1 DEF Lab1s
  <2>4. lab1.at = "hold2" => ~r.again
    BY <1>1, <1>7, <1>9 DEF Lab1s
  <2>5. lab1.at = "hold1" => ~r.again
    BY <1>1, <1>8, <1>9 DEF Lab1s
  <2>6. lab1.at \in {"lit", "dark"} => ~r.again
    BY <1>1, <1>10
  <2>7. QED
    BY <2>1, <2>2, <2>3, <2>4, <2>5, <2>6
<1>13. lab1.at = "sw1" => r.at = "sw2" /\ r.count = lab1.count
  BY <1>1, <1>4 DEF Lab1s
<1>14. lab1.at = "sw2" /\ closed => r.at = "hold2" /\ r.count = (lab1.count + 1) % 256
  <2> DEFINE n == (s.count + 1) % 256
  <2>1. n = (lab1.count + 1) % 256
    BY <1>1
  <2>2. lab1.at = "sw2" /\ closed => r = [s EXCEPT !.at = "hold2", !.count = n]
    BY <1>5
  <2> HIDE DEF n
  <2>3. QED
    BY <1>1, <2>1, <2>2 DEF Lab1s
<1>15. lab1.at = "sw2" /\ ~closed => r.at \in {"hold1", "lit"} /\ r.count = lab1.count
  BY <1>1, <1>3, <1>6 DEF Lab1s
<1>16. lab1.at = "hold2" /\ closed => r.at = "hold2" /\ r.count = lab1.count
  BY <1>1, <1>9
<1>17. lab1.at = "hold2" /\ ~closed => r.at \in {"hold1", "lit"} /\ r.count = lab1.count
  BY <1>1, <1>3, <1>7 DEF Lab1s
<1>18. lab1.at = "hold1" => r.at \in {"hold1", "lit"} /\ r.count = lab1.count
  <2>1. CASE closed
    BY <1>1, <1>9, <2>1
  <2>2. CASE ~closed
    BY <1>1, <1>8, <2>2 DEF Lab1s
  <2>3. QED
    BY <2>1, <2>2
<1>19. QED
  BY <1>12, <1>13, <1>14, <1>15, <1>16, <1>17, <1>18 DEF r

\* A check returns.  Only a second reading counts a press.
LEMMA ReturnKeeps ==
  ASSUME lab1 \in Lab1s, BoardTypeOK, Lab1IInv, lab1.at \in Checks,
         NEW closed \in Readings(Checked), closed => lab1.again,
         lab1' = Returns(closed), UNCHANGED board
  PROVE  Lab1IInv'
<1> DEFINE c == lab1.count
           f == finger[2]
           s == since[2]
           p == presses[2]
<1>1. /\ c \in Nat /\ f \in BOOLEAN /\ p \in Nat /\ s \in {0, Hold}
      /\ Hold \in Nat \ {0} /\ Bounce \in Nat /\ Bounce < Hold /\ c \in 0..255
  BY BoardAssumption DEF Lab1s, BoardTypeOK, Buttons, Lab1IInv
<1>2. Lab1At(lab1.at, lab1.again, c, f, s, p)
  BY Lab1AtIs
<1>3. closed \in BOOLEAN
  BY ReadingsTyped DEF Checked
<1>4. lab1.at \in {"sw2", "hold2"} /\ s = Hold => closed = f
  BY <1>1 DEF Readings, Checked
<1>5. finger' = finger /\ since' = since /\ presses' = presses
  BY DEF board
<1>6. LET r == lab1' IN
        /\ ~r.again
        /\ lab1.at = "sw1" => r.at = "sw2" /\ r.count = lab1.count
        /\ lab1.at = "sw2" /\ closed => r.at = "hold2" /\ r.count = (lab1.count + 1) % 256
        /\ lab1.at = "sw2" /\ ~closed => r.at \in {"hold1", "lit"} /\ r.count = lab1.count
        /\ lab1.at = "hold2" /\ closed => r.at = "hold2" /\ r.count = lab1.count
        /\ lab1.at = "hold2" /\ ~closed => r.at \in {"hold1", "lit"} /\ r.count = lab1.count
        /\ lab1.at = "hold1" => r.at \in {"hold1", "lit"} /\ r.count = lab1.count
  BY <1>3, ReturnsIs
<1>7. lab1.at \in {"sw1", "sw2", "hold2", "hold1"}
  BY DEF Checks
<1> DEFINE d == lab1'.count
           a == lab1'.at
           g == lab1'.again
<1>8. Lab1At(a, g, d, f, s, p)
  <2>1. CASE lab1.at = "sw1"
    BY <1>1, <1>2, <1>6, <2>1 DEF Lab1At
  <2>2. CASE lab1.at = "sw2" /\ closed
    <3>1. d = (c + 1) % 256 /\ a = "hold2" /\ ~g
      BY <1>6, <2>2
    <3>2. c + 1 <= p /\ (f /\ s = 0 => c + 2 <= p) /\ (s = Hold => f)
      BY <1>2, <1>3, <1>4, <2>2 DEF Lab1At
    <3>3. d \in Nat /\ d <= c + 1
      <4> HIDE DEF c
      <4>1. (c + 1) % 256 \in Nat /\ (c + 1) % 256 <= c + 1
        BY <1>1
      <4>2. QED
        BY <3>1, <4>1
    <3> HIDE DEF c, d, a, g, f, s, p
    <3>4. d <= p /\ (f /\ s = 0 => d + 1 <= p)
      BY <1>1, <3>2, <3>3
    <3>5. QED
      BY <1>1, <3>1, <3>2, <3>4 DEF Lab1At
  <2>3. CASE lab1.at = "sw2" /\ ~closed
    <3>1. d = c /\ a \in {"hold1", "lit"} /\ ~g
      BY <1>6, <2>3
    <3>2. c <= p /\ s \in {0, Hold} /\ (f => c + 1 <= p)
      BY <1>2, <2>3 DEF Lab1At
    <3> HIDE DEF c, d, a, g, f, s, p
    <3>3. QED
      BY <3>1, <3>2 DEF Lab1At
  <2>4. CASE lab1.at = "hold2" /\ closed
    <3>1. d = c /\ a = "hold2" /\ ~g
      BY <1>6, <2>4
    <3>2. c <= p /\ s \in {0, Hold} /\ (f /\ s = 0 => c + 1 <= p)
      BY <1>2 DEF Lab1At
    <3> HIDE DEF c, d, a, g, f, s, p
    <3>3. QED
      BY <3>1, <3>2 DEF Lab1At
  <2>5. CASE lab1.at = "hold2" /\ ~closed
    <3>1. d = c /\ a \in {"hold1", "lit"} /\ ~g
      BY <1>6, <2>5
    <3>2. c <= p /\ s \in {0, Hold} /\ (f /\ s = 0 => c + 1 <= p) /\ (s = Hold => ~f)
      BY <1>2, <1>4, <2>5 DEF Lab1At
    <3> HIDE DEF c, d, a, g, f, s, p
    <3>3. QED
      BY <3>1, <3>2 DEF Lab1At
  <2>6. CASE lab1.at = "hold1"
    <3>1. d = c /\ a \in {"hold1", "lit"} /\ ~g
      BY <1>6, <2>6
    <3>2. c <= p /\ s \in {0, Hold} /\ (f => c + 1 <= p)
      BY <1>2, <2>6 DEF Lab1At
    <3> HIDE DEF c, d, a, g, f, s, p
    <3>3. QED
      BY <3>1, <3>2 DEF Lab1At
  <2>7. QED
    BY <1>7, <2>1, <2>2, <2>3, <2>4, <2>5, <2>6
<1>9. Lab1At(lab1.at, lab1.again, lab1.count, finger[2], since[2], presses[2])'
  BY <1>5, <1>8 DEF Lab1At
<1>10. lab1'.count \in Nat /\ presses'[2] \in Nat
  <2>1. (c + 1) % 256 \in Nat
    BY <1>1
  <2>2. d \in Nat
    BY <1>1, <1>6, <1>7, <2>1
  <2>3. QED
    BY <1>1, <1>5, <2>2
<1>11. QED
  BY <1>9, <1>10 DEF Lab1IInv, Lab1At, Behind

\* Time passes, to the second reading or through a half period of the blinking.
LEMMA WaitKeeps ==
  ASSUME lab1 \in Lab1s, BoardTypeOK, Lab1IInv, Elapse(Hold), lab1'.count = lab1.count,
         \/ lab1'.at = lab1.at /\ lab1'.again /\ ~lab1.again
            /\ (lab1.at \in {"sw2", "hold2"} => TRUE \in Readings(2))
         \/ lab1.at = "lit" /\ lab1'.at = "dark"
         \/ lab1.at = "dark" /\ lab1'.at = "sw1"
  PROVE  Lab1IInv'
<1> DEFINE c == lab1.count
           f == finger[2]
           s == since[2]
           p == presses[2]
<1>1. /\ c \in Nat /\ f \in BOOLEAN /\ p \in Nat /\ s \in {0, Hold}
      /\ Hold \in Nat \ {0} /\ Bounce \in Nat /\ Bounce < Hold
  BY BoardAssumption DEF Lab1s, BoardTypeOK, Buttons, Lab1IInv
<1>2. Lab1At(lab1.at, lab1.again, c, f, s, p)
  BY Lab1AtIs
<1>3. /\ since'[2] = Hold /\ finger' = finger /\ presses' = presses
  BY <1>1 DEF Elapse, Buttons
<1>4. lab1.at = "sw2" /\ lab1'.at = "sw2" /\ lab1'.again => c + 1 <= p
  <2>1. SUFFICES ASSUME lab1.at = "sw2", lab1'.at = "sw2" PROVE c + 1 <= p
    OBVIOUS
  <2>2. TRUE \in Readings(2)
    BY <2>1
  <2>3. f \/ s = 0
    <3>1. CASE s = Hold
      <4>1. ~(since[2] < Bounce)
        BY <1>1, <3>1
      <4>2. Readings(2) = {finger[2]}
        BY <4>1 DEF Readings
      <4>3. finger[2] = TRUE
        BY <2>2, <4>2
      <4>4. QED
        BY <4>3
    <3>2. QED
      BY <1>1, <3>1
  <2>4. QED
    BY <1>2, <2>1, <2>3 DEF Lab1At
<1>5. Hold # 0 /\ Hold \in {0, Hold}
  BY <1>1
<1>6. f /\ lab1'.at # "hold2" => c + 1 <= p
  BY <1>2 DEF Lab1At
<1>7. c <= p
  BY <1>2 DEF Lab1At
<1>8. lab1'.at = "sw2" => lab1.at = "sw2"
  OBVIOUS
<1>9. Lab1At(lab1'.at, lab1'.again, c, f, Hold, p)
  BY <1>4, <1>5, <1>6, <1>7, <1>8 DEF Lab1At
<1>10. QED
  BY <1>1, <1>3, <1>9 DEF Lab1IInv, Lab1At, Behind

\* The user presses or releases a button that is quiet.
LEMMA MoveKeeps ==
  ASSUME lab1 \in Lab1s, BoardTypeOK, Lab1IInv, NEW k \in Buttons, Move(k), lab1' = lab1
  PROVE  Lab1IInv'
<1> DEFINE c == lab1.count
           f == finger[2]
           p == presses[2]
<1>1. /\ c \in Nat /\ f \in BOOLEAN /\ p \in Nat /\ since[2] \in {0, Hold}
      /\ Hold \in Nat \ {0}
  BY BoardAssumption DEF Lab1s, BoardTypeOK, Buttons, Lab1IInv
<1>2. Lab1At(lab1.at, lab1.again, c, f, since[2], p)
  BY Lab1AtIs
<1>3. CASE k = 1
  <2>1. finger'[2] = f /\ since'[2] = since[2] /\ presses'[2] = p
    BY <1>3 DEF Move, BoardTypeOK, Buttons
  <2>2. QED
    BY <2>1 DEF Lab1IInv, Behind
<1>4. CASE k = 2
  <2>1. /\ since[2] = Hold /\ finger'[2] = ~f /\ since'[2] = 0
        /\ presses'[2] = IF f THEN p ELSE p + 1
    BY <1>4 DEF Move, BoardTypeOK, Buttons
  <2>2. since[2] # 0
    BY <1>1, <2>1
  <2>3. CASE f
    <3>1. ~finger'[2] /\ since'[2] = 0 /\ presses'[2] = p
      BY <2>1, <2>3
    <3>2. /\ c <= p /\ (lab1.at # "hold2" => c + 1 <= p)
      BY <1>2, <2>3 DEF Lab1At
    <3>3. Lab1At(lab1.at, lab1.again, c, FALSE, 0, p)
      BY <3>2 DEF Lab1At
    <3>4. QED
      BY <1>1, <3>1, <3>3 DEF Lab1IInv, Lab1At, Behind
  <2>4. CASE ~f
    <3>1. finger'[2] /\ since'[2] = 0 /\ presses'[2] = p + 1
      BY <2>1, <2>4
    <3>2. c <= p /\ (lab1.at = "sw2" /\ lab1.again => c + 1 <= p)
      BY <1>2 DEF Lab1At
    <3>3. c <= p + 1 /\ c + 1 <= p + 1 /\ (c + 1 <= p => c + 2 <= p + 1)
      BY <1>1, <3>2
    <3>4. Lab1At(lab1.at, lab1.again, c, TRUE, 0, p + 1)
      BY <3>2, <3>3 DEF Lab1At
    <3>5. QED
      BY <1>1, <3>1, <3>4 DEF Lab1IInv, Lab1At, Behind
  <2>5. QED
    BY <1>1, <2>3, <2>4
<1>5. QED
  BY <1>3, <1>4 DEF Buttons
LEMMA Lab1TurnKeeps == Lab1TypeOK /\ BoardTypeOK /\ Lab1IInv /\ Lab1Turn => Lab1IInv'
<1>1. SUFFICES ASSUME Lab1TypeOK, BoardTypeOK, Lab1IInv, Lab1Turn PROVE Lab1IInv'
  OBVIOUS
<1>2. lab1 \in Lab1s
  BY <1>1, Lab1Typed
<1>3. CASE FirstReading
  <2>1. lab1.at \in Checks /\ ~lab1.again
    BY <1>3 DEF FirstReading
  <2>2. PICK closed \in Readings(Checked) :
          IF closed THEN lab1' = [lab1 EXCEPT !.again = TRUE] /\ Elapse(Hold)
                    ELSE lab1' = Returns(FALSE) /\ UNCHANGED board
    BY <1>3 DEF FirstReading
  <2>3. closed \in BOOLEAN
    BY <1>1, ReadingsTyped DEF Checked
  <2>4. CASE closed = TRUE
    <3>1. Elapse(Hold) /\ lab1' = [lab1 EXCEPT !.again = TRUE]
      BY <2>2, <2>4
    <3>2. lab1'.at = lab1.at /\ lab1'.again /\ lab1'.count = lab1.count
      BY <1>2, <3>1 DEF Lab1s
    <3>3. lab1.at \in {"sw2", "hold2"} => TRUE \in Readings(2)
      <4>1. lab1.at \in {"sw2", "hold2"} => Readings(Checked) = Readings(2)
        BY DEF Checked
      <4>2. QED
        BY <2>4, <4>1
    <3>4. QED
      BY <1>1, <1>2, <2>1, <3>1, <3>2, <3>3, WaitKeeps
  <2>5. CASE closed = FALSE
    <3>1. lab1' = Returns(FALSE) /\ UNCHANGED board /\ FALSE \in Readings(Checked)
      BY <2>2, <2>5
    <3>2. QED
      BY <1>1, <1>2, <2>1, <3>1, ReturnKeeps
  <2>6. QED
    BY <2>3, <2>4, <2>5
<1>4. CASE SecondReading
  BY <1>1, <1>2, <1>4, ReturnKeeps DEF SecondReading
<1>5. CASE Toggle
  <2>1. Elapse(Hold) /\ lab1'.count = lab1.count
    BY <1>2, <1>5 DEF Toggle, Lab1s
  <2>2. \/ lab1.at = "lit" /\ lab1'.at = "dark"
        \/ lab1.at = "dark" /\ lab1'.at = "sw1"
    BY <1>2, <1>5 DEF Toggle, Lab1s
  <2>3. QED
    BY <1>1, <1>2, <2>1, <2>2, WaitKeeps
<1>6. QED
  BY <1>1, <1>3, <1>4, <1>5 DEF Lab1Turn

\* The invariant of lab-1.c; under the other programs its count stays zero.
CountedOnce == IF program = "lab-1" THEN Lab1IInv ELSE lab1.count = 0

LEMMA InitCounted == Init => CountedOnce
<1>1. SUFFICES ASSUME Init PROVE CountedOnce
  OBVIOUS
<1>2. /\ finger[2] = FALSE /\ since[2] = Hold /\ presses[2] = 0 /\ lab1.count = 0
      /\ lab1.at = "sw1" /\ lab1.again = FALSE /\ Hold \in Nat \ {0}
  BY <1>1, BoardAssumption DEF Init, BoardInit, Lab1Init, Buttons
<1>3. QED
  BY <1>2 DEF CountedOnce, Lab1IInv, Behind

LEMMA NextCounted ==
  CountedOnce /\ Lab1TypeOK /\ BoardTypeOK /\ [Next]_vars => CountedOnce'
<1>1. SUFFICES ASSUME CountedOnce, Lab1TypeOK, BoardTypeOK, [Next]_vars PROVE CountedOnce'
  OBVIOUS
<1>2. program' = program /\ BlinkerMoves /\ BoardMoves
  BY <1>1, StepIs
<1>3. lab1 \in Lab1s
  BY <1>1, Lab1Typed
<1>4. CASE program # "lab-1"
  <2>1. lab1' = lab1
    BY <1>2, <1>4 DEF BlinkerMoves
  <2>2. QED
    BY <1>1, <1>2, <1>4, <2>1 DEF CountedOnce
<1>5. CASE program = "lab-1"
  <2>1. Lab1IInv
    BY <1>1, <1>5 DEF CountedOnce
  <2>2. CASE Lab1Turn
    BY <1>1, <1>2, <1>5, <2>1, <2>2, Lab1TurnKeeps DEF CountedOnce
  <2>3. CASE \E k \in Buttons : Move(k) /\ UNCHANGED programs
    <3>1. lab1' = lab1
      BY <2>3 DEF programs, blinkers
    <3>2. QED
      BY <1>1, <1>2, <1>3, <1>5, <2>1, <2>3, <3>1, MoveKeeps DEF CountedOnce
  <2>4. CASE UNCHANGED board /\ lab1' = lab1
    BY <1>2, <1>5, <2>1, <2>4 DEF CountedOnce, Lab1IInv, Behind, board
  <2>5. (Blinkers => Lab1Turn) /\ (~Blinkers => lab1' = lab1)
    <3>1. Blinkers => Lab1Turn
      BY <1>5 DEF Blinkers
    <3>2. ~Blinkers => lab1' = lab1
      BY <1>1 DEF Next, Timed, User, vars, programs, blinkers
    <3>3. QED
      BY <3>1, <3>2
  <2>6. ~Blinkers => (UNCHANGED board \/ \E k \in Buttons : Move(k) /\ UNCHANGED programs)
    BY <1>1, <1>5 DEF Next, Timed, User, vars
  <2>7. QED
    BY <2>2, <2>3, <2>4, <2>5, <2>6
<1>6. QED
  BY <1>4, <1>5

\* The inductive invariant of lab-1.c.
THEOREM Lab1Invariance == Spec => []CountedOnce
<1>1. QED
  BY InitCounted, NextCounted, BoardInvariance, Lab1TypeCorrect, PTL DEF Spec

\* lab-1.c never counts more presses of button 2 than there were, for any chatter
\* that is shorter than its waits: what keeps the chatter of a release out is the
\* time for which it blinks before it looks again.
THEOREM PressesCountedOnce == Spec => []NoPressCountedTwice
<1>1. CountedOnce /\ BoardTypeOK /\ Lab1TypeOK => NoPressCountedTwice
  <2>1. SUFFICES ASSUME CountedOnce, BoardTypeOK, Lab1TypeOK PROVE lab1.count <= presses[2]
    BY DEF NoPressCountedTwice
  <2>2. presses[2] \in Nat /\ lab1.count \in Nat
    BY <2>1 DEF BoardTypeOK, Buttons, Lab1TypeOK
  <2>3. CASE program = "lab-1"
    <3>1. lab1.count + 0 <= presses[2]
      BY <2>1, <2>3 DEF CountedOnce, Lab1IInv, Behind
    <3>2. QED
      BY <2>2, <3>1
  <2>4. CASE program # "lab-1"
    BY <2>1, <2>2, <2>4 DEF CountedOnce
  <2>5. QED
    BY <2>3, <2>4
<1>2. QED
  BY <1>1, Lab1Invariance, BoardInvariance, Lab1TypeCorrect, PTL
-----------------------------------------------------------------------------
(* lab-1_PartA_B.c: a counter of closed readings for each button.          *)

\* Counting, of values.
CountingAt(f, s, p, n, counted) ==
    IF f
    THEN /\ p > 0
         /\ counted => s >= Debounce
         /\ ~counted => n < Debounce /\ n <= s /\ s <= n + Bounce
    ELSE /\ s = 0 => counted
         /\ s > Bounce => ~counted /\ n = 0
         /\ ~counted => n <= s
         /\ counted => p > 0

\* A reading either starts the counter again, or moves it on until it reaches the
\* threshold.
CountsOn(closed, n, counted, m, next) ==
    /\ ~closed => ~next /\ m = 0
    /\ closed /\ counted => next
    /\ closed /\ ~counted /\ n + 1 >= Debounce => next
    /\ closed /\ ~counted /\ n + 1 < Debounce => ~next /\ m = n + 1

LEMMA CountingKeeps ==
  ASSUME NEW f \in BOOLEAN, NEW s \in 0..Hold, NEW p \in Nat, NEW n \in Nat, NEW m \in Nat,
         NEW counted \in BOOLEAN, NEW next \in BOOLEAN, NEW closed \in BOOLEAN,
         s >= Bounce => closed = f, CountingAt(f, s, p, n, counted),
         CountsOn(closed, n, counted, m, next)
  PROVE  /\ CountingAt(f, IF s + 1 > Hold THEN Hold ELSE s + 1, p, m, next)
         /\ next /\ ~counted => f
         /\ ~next /\ counted => ~f
         /\ p > 0 \/ (~f /\ ~counted)
<1> DEFINE t == IF s + 1 > Hold THEN Hold ELSE s + 1
<1>0. (s >= Bounce /\ f => closed) /\ (s >= Bounce /\ ~f => ~closed)
  BY Zenon
<1>1. /\ Bounce \in Nat /\ Hold \in Nat /\ Debounce \in Nat /\ Debounce > 0
      /\ Bounce < Debounce /\ Bounce + Debounce <= Hold
  BY BoardAssumption, DebounceAssumption
<1>2. t \in Nat /\ t # 0 /\ (s < Hold => t = s + 1) /\ (s = Hold => t = Hold) /\ t >= s /\ t <= s + 1
  BY <1>1
<1> HIDE DEF t
<1>3. CASE f
  <2>1. p > 0 /\ (counted => s >= Debounce)
        /\ (~counted => n < Debounce /\ n <= s /\ s <= n + Bounce)
    BY <1>3 DEF CountingAt
  <2>2. ~counted => s < Hold /\ t = s + 1
    BY <1>1, <1>2, <2>1
  <2>3. ~closed => s < Bounce
    BY <1>0, <1>1, <1>3
  <2>4. counted => closed /\ next
    <3>1. counted => closed
      BY <1>1, <2>1, <2>3
    <3>2. QED
      BY <3>1 DEF CountsOn
  <2>5. next => t >= Debounce
    <3>1. counted => t >= Debounce
      BY <1>1, <1>2, <2>1
    <3>2. next /\ ~counted => closed /\ n + 1 >= Debounce
      <4>1. next => closed
        BY DEF CountsOn
      <4>2. n + 1 >= Debounce \/ n + 1 < Debounce
        BY <1>1
      <4>3. QED
        BY <4>1, <4>2 DEF CountsOn
    <3>3. next /\ ~counted => t >= Debounce
      BY <1>1, <2>1, <2>2, <3>2
    <3>4. QED
      BY <3>1, <3>3
  <2>6. ~next => m < Debounce /\ m <= t /\ t <= m + Bounce
    <3>1. CASE closed
      <4>1. ~next => ~counted /\ n + 1 < Debounce /\ m = n + 1
        <5>1. n + 1 >= Debounce \/ n + 1 < Debounce
          BY <1>1
        <5>2. QED
          BY <3>1, <5>1 DEF CountsOn
      <4>2. QED
        BY <1>1, <2>1, <2>2, <4>1
    <3>2. CASE ~closed
      <4>1. m = 0 /\ s < Bounce
        BY <2>3, <3>2 DEF CountsOn
      <4>2. QED
        BY <1>1, <1>2, <4>1
    <3>3. QED
      BY <3>1, <3>2
  <2>7. CountingAt(f, t, p, m, next)
    BY <1>3, <2>1, <2>5, <2>6 DEF CountingAt
  <2>8. QED
    BY <1>3, <2>1, <2>4, <2>7 DEF t
<1>4. CASE ~f
  <2>1. /\ s = 0 => counted
        /\ s > Bounce => ~counted /\ n = 0
        /\ ~counted => n <= s
        /\ counted => p > 0
    BY <1>4 DEF CountingAt
  <2>2. closed => s < Bounce
    BY <1>0, <1>1, <1>4
  <2>3. next => counted
    <3>1. next => closed
      BY DEF CountsOn
    <3>2. closed /\ ~counted => n + 1 < Debounce
      BY <1>1, <2>1, <2>2
    <3>3. QED
      BY <3>1, <3>2 DEF CountsOn
  <2>4. t > Bounce => ~next /\ m = 0
    <3>1. t > Bounce => s >= Bounce
      BY <1>1, <1>2
    <3>2. s >= Bounce => ~closed
      BY <1>1, <2>2
    <3>3. QED
      BY <3>1, <3>2 DEF CountsOn
  <2>5. ~next => m <= t
    <3>1. CASE closed
      <4>1. ~next => ~counted /\ m = n + 1
        <5>1. n + 1 >= Debounce \/ n + 1 < Debounce
          BY <1>1
        <5>2. QED
          BY <3>1, <5>1 DEF CountsOn
      <4>2. s < Hold
        BY <1>1, <2>2, <3>1
      <4>3. QED
        BY <1>1, <1>2, <2>1, <4>1, <4>2
    <3>2. CASE ~closed
      <4>1. m = 0
        BY <3>2 DEF CountsOn
      <4>2. QED
        BY <1>2, <4>1
    <3>3. QED
      BY <3>1, <3>2
  <2>6. next => p > 0
    BY <2>1, <2>3
  <2>7. CountingAt(f, t, p, m, next)
    BY <1>2, <1>4, <2>4, <2>5, <2>6 DEF CountingAt
  <2>8. QED
    BY <1>4, <2>1, <2>3, <2>7 DEF t
<1>5. QED
  BY <1>3, <1>4

\* What a reading makes of a counter, of values.
KeepsCounting(f, s, p, counted, m, next) ==
    /\ CountingAt(f, IF s + 1 > Hold THEN Hold ELSE s + 1, p, m, next)
    /\ next /\ ~counted => f
    /\ ~next /\ counted => ~f
    /\ p > 0 \/ (~f /\ ~counted)

\* A reading that CountsOn, of a counter that is Counting.
ReadsCounting(f, s, p, n, counted, closed, m, next) ==
    /\ f \in BOOLEAN /\ s \in 0..Hold /\ p \in Nat /\ n \in Nat /\ m \in Nat
    /\ counted \in BOOLEAN /\ next \in BOOLEAN /\ closed \in BOOLEAN
    /\ s >= Bounce => closed = f
    /\ CountingAt(f, s, p, n, counted)
    /\ CountsOn(closed, n, counted, m, next)

LEMMA CountingGoesOn ==
  ASSUME NEW f, NEW s, NEW p, NEW n, NEW m, NEW counted, NEW next, NEW closed,
         ReadsCounting(f, s, p, n, counted, closed, m, next)
  PROVE  KeepsCounting(f, s, p, counted, m, next)
<1>1. /\ f \in BOOLEAN /\ s \in 0..Hold /\ p \in Nat /\ n \in Nat /\ m \in Nat
      /\ counted \in BOOLEAN /\ next \in BOOLEAN /\ closed \in BOOLEAN
      /\ s >= Bounce => closed = f
      /\ CountingAt(f, s, p, n, counted)
      /\ CountsOn(closed, n, counted, m, next)
  BY Zenon DEF ReadsCounting
<1>2. /\ CountingAt(f, IF s + 1 > Hold THEN Hold ELSE s + 1, p, m, next)
      /\ next /\ ~counted => f
      /\ ~next /\ counted => ~f
      /\ p > 0 \/ (~f /\ ~counted)
  BY <1>1, CountingKeeps
<1>3. QED
  BY <1>2, Zenon DEF KeepsCounting

LEMMA CountIs ==
  ASSUME NEW s \in LabABs, NEW down \in BOOLEAN
  PROVE  LET r == CountButton2(s, down)
         IN  /\ r.debounce = s.debounce /\ r.closed = s.closed /\ r.temp = s.temp
             /\ r.uicount = s.uicount /\ r.lit = s.lit
             /\ CountsOn(down, s.debounceSW2, s.pressed2, r.debounceSW2, r.pressed2)
             /\ r.pressed2 /\ ~s.pressed2 =>
                  r.debounceSW2 = 0 /\ r.uicountSW2 = (s.uicountSW2 + 1) % 256
             /\ ~(r.pressed2 /\ ~s.pressed2) => r.uicountSW2 = s.uicountSW2
             /\ r.pressed2 /\ s.pressed2 => r.debounceSW2 = s.debounceSW2
<1> DEFINE c == (s.uicountSW2 + 1) % 256
           n == s.debounceSW2 + 1
           r == CountButton2(s, down)
<1>1. r = IF down /\ ~s.pressed2
          THEN IF n >= Debounce
               THEN [s EXCEPT !.pressed2 = TRUE, !.debounceSW2 = 0, !.uicountSW2 = c]
               ELSE [s EXCEPT !.debounceSW2 = n]
          ELSE IF down THEN s ELSE [s EXCEPT !.debounceSW2 = 0, !.pressed2 = FALSE]
  BY Zenon DEF CountButton2
<1>2. n \in Nat /\ Debounce \in Nat /\ (n < Debounce <=> ~(n >= Debounce))
  BY DebounceAssumption DEF LabABs
<1> HIDE DEF c, r
<1>3. CASE down /\ ~s.pressed2 /\ n >= Debounce
  <2>1. r = [s EXCEPT !.pressed2 = TRUE, !.debounceSW2 = 0, !.uicountSW2 = c]
    BY <1>1, <1>3
  <2>2. /\ r.debounce = s.debounce /\ r.closed = s.closed /\ r.temp = s.temp
        /\ r.uicount = s.uicount /\ r.lit = s.lit
        /\ r.pressed2 = TRUE /\ r.debounceSW2 = 0 /\ r.uicountSW2 = c
    BY <2>1 DEF LabABs
  <2>3. CountsOn(down, s.debounceSW2, s.pressed2, r.debounceSW2, r.pressed2)
    BY <1>2, <1>3, <2>2 DEF CountsOn
  <2>4. QED
    BY <1>3, <2>2, <2>3 DEF c, r
<1>4. CASE down /\ ~s.pressed2 /\ ~(n >= Debounce)
  <2>1. r = [s EXCEPT !.debounceSW2 = n]
    BY <1>1, <1>4
  <2>2. /\ r.debounce = s.debounce /\ r.closed = s.closed /\ r.temp = s.temp
        /\ r.uicount = s.uicount /\ r.lit = s.lit
        /\ r.pressed2 = s.pressed2 /\ r.debounceSW2 = n /\ r.uicountSW2 = s.uicountSW2
    BY <2>1 DEF LabABs
  <2>3. CountsOn(down, s.debounceSW2, s.pressed2, r.debounceSW2, r.pressed2)
    BY <1>2, <1>4, <2>2 DEF CountsOn
  <2>4. QED
    BY <1>4, <2>2, <2>3 DEF r
<1>5. CASE down /\ s.pressed2
  <2>1. r = s
    BY <1>1, <1>5
  <2>2. CountsOn(down, s.debounceSW2, s.pressed2, r.debounceSW2, r.pressed2)
    BY <1>5, <2>1 DEF CountsOn
  <2>3. QED
    BY <1>5, <2>1, <2>2 DEF r
<1>6. CASE ~down
  <2>1. r = [s EXCEPT !.debounceSW2 = 0, !.pressed2 = FALSE]
    BY <1>1, <1>6
  <2>2. /\ r.debounce = s.debounce /\ r.closed = s.closed /\ r.temp = s.temp
        /\ r.uicount = s.uicount /\ r.lit = s.lit
        /\ r.pressed2 = FALSE /\ r.debounceSW2 = 0 /\ r.uicountSW2 = s.uicountSW2
    BY <2>1 DEF LabABs
  <2>3. CountsOn(down, s.debounceSW2, s.pressed2, r.debounceSW2, r.pressed2)
    BY <1>6, <2>2 DEF CountsOn
  <2>4. QED
    BY <2>2, <2>3 DEF r
<1>7. QED
  BY <1>3, <1>4, <1>5, <1>6

LEMMA LightIs ==
  ASSUME NEW s \in LabABs, NEW down \in BOOLEAN, s.closed = (s.debounce = Debounce)
  PROVE  LET r == LightButton1(s, down)
         IN  /\ r.debounceSW2 = s.debounceSW2 /\ r.pressed2 = s.pressed2
             /\ r.uicountSW2 = s.uicountSW2
             /\ CountsOn(down, s.debounce, s.closed, r.debounce, r.closed)
             /\ r.closed = (r.debounce = Debounce) /\ r.temp = r.closed
             /\ r.lit = IF r.closed THEN s.lit \cup {s.uicount} ELSE s.lit \ {s.uicount}
             /\ r.uicount = IF ~r.closed /\ s.temp THEN (s.uicount + 1) % 3 ELSE s.uicount
<1> DEFINE n == IF down THEN IF s.debounce < Debounce THEN s.debounce + 1 ELSE Debounce ELSE 0
           pressed == down /\ (n >= Debounce \/ s.closed)
           l == IF pressed THEN s.lit \cup {s.uicount} ELSE s.lit \ {s.uicount}
           u == IF ~pressed /\ s.temp THEN (s.uicount + 1) % 3 ELSE s.uicount
           r == LightButton1(s, down)
<1>1. r = [s EXCEPT !.debounce = n, !.closed = pressed, !.temp = pressed,
                    !.lit = l, !.uicount = u]
  BY Zenon DEF LightButton1
<1>2. s.debounce \in 0..Debounce /\ Debounce \in Nat /\ Debounce > 0 /\ s.closed \in BOOLEAN
  BY DebounceAssumption DEF LabABs
<1>3. pressed = (n = Debounce) /\ pressed \in BOOLEAN
  <2>1. (s.closed => s.debounce = Debounce) /\ (s.debounce = Debounce => s.closed)
    BY Zenon
  <2>2. n \in 0..Debounce
    BY <1>2
  <2>3. down /\ s.closed => n = Debounce
    BY <1>2, <2>1
  <2>4. n = Debounce => down
    BY <1>2
  <2> HIDE DEF n
  <2>5. pressed <=> n = Debounce
    BY <1>2, <2>2, <2>3, <2>4
  <2>6. pressed \in BOOLEAN
    OBVIOUS
  <2> HIDE DEF pressed
  <2>7. QED
    BY <2>5, <2>6
<1>4. CountsOn(down, s.debounce, s.closed, n, pressed)
  <2>1. ~down => ~pressed /\ n = 0
    OBVIOUS
  <2>2. down /\ s.closed => pressed
    OBVIOUS
  <2>3. down /\ ~s.closed => s.debounce < Debounce /\ n = s.debounce + 1
    <3>1. s.debounce = Debounce => s.closed
      BY Zenon
    <3>2. QED
      BY <1>2, <3>1
  <2>4. down /\ ~s.closed /\ s.debounce + 1 >= Debounce => pressed
    BY <2>3
  <2>5. down /\ ~s.closed /\ s.debounce + 1 < Debounce => ~pressed
    BY <1>2, <2>3
  <2> HIDE DEF n, pressed
  <2>6. QED
    BY <2>1, <2>2, <2>3, <2>4, <2>5 DEF CountsOn
<1>5. /\ r.debounce = n /\ r.closed = pressed /\ r.temp = pressed /\ r.lit = l /\ r.uicount = u
      /\ r.debounceSW2 = s.debounceSW2 /\ r.pressed2 = s.pressed2
      /\ r.uicountSW2 = s.uicountSW2
  <2> HIDE DEF n, pressed, l, u, r
  <2>1. QED
    BY <1>1 DEF LabABs
<1>6. QED
  <2> HIDE DEF n, pressed, r
  <2>1. r.lit = IF r.closed THEN s.lit \cup {s.uicount} ELSE s.lit \ {s.uicount}
    BY <1>5
  <2>2. r.uicount = IF ~r.closed /\ s.temp THEN (s.uicount + 1) % 3 ELSE s.uicount
    BY <1>5
  <2> HIDE DEF l, u
  <2>3. QED
    BY <1>3, <1>4, <1>5, <2>1, <2>2 DEF r
LEMMA CountingIs ==
  ASSUME NEW k, NEW n, NEW counted
  PROVE  Counting(k, n, counted) <=> CountingAt(finger[k], since[k], presses[k], n, counted)
BY DEF Counting, CountingAt

\* Counting round is counting.
LEMMA CountingRound ==
  \A n \in Nat : n > 0 => /\ (((n - 1) % 256) + 1) % 256 = n % 256
                          /\ (((n - 1) % 3) + 1) % 3 = n % 3
<1>1. SUFFICES ASSUME NEW n \in Nat, n > 0
               PROVE  /\ (((n - 1) % 256) + 1) % 256 = n % 256
                      /\ (((n - 1) % 3) + 1) % 3 = n % 3
  OBVIOUS
<1>2. PICK m \in Nat : m = n - 1
  BY <1>1
<1>3. ((m % 256) + 1) % 256 = (m + 1) % 256 /\ ((m % 3) + 1) % 3 = (m + 1) % 3
  OBVIOUS
<1>4. m + 1 = n
  BY <1>2
<1>5. QED
  BY <1>2, <1>3, <1>4

\* What a reading of button k is, and what its clock becomes.
LEMMA ReadingIs ==
  ASSUME BoardTypeOK, Elapse(1), NEW k \in Buttons, NEW closed \in Readings(k)
  PROVE  /\ finger[k] \in BOOLEAN /\ since[k] \in 0..Hold /\ presses[k] \in Nat
         /\ closed \in BOOLEAN /\ (since[k] >= Bounce => closed = finger[k])
         /\ finger' = finger /\ presses' = presses
         /\ since'[k] = IF since[k] + 1 > Hold THEN Hold ELSE since[k] + 1
<1>1. finger[k] \in BOOLEAN /\ since[k] \in 0..Hold /\ presses[k] \in Nat
  BY DEF BoardTypeOK
<1>2. Bounce \in Nat /\ Hold \in Nat
  BY BoardAssumption
<1>3. ASSUME since[k] >= Bounce PROVE closed = finger[k]
  <2>1. ~(since[k] < Bounce)
    BY <1>1, <1>2, <1>3
  <2>2. QED
    BY <2>1 DEF Readings
<1>4. closed \in BOOLEAN
  BY <1>1 DEF Readings
<1>5. /\ finger' = finger /\ presses' = presses
      /\ since'[k] = IF since[k] + 1 > Hold THEN Hold ELSE since[k] + 1
  BY DEF Elapse
<1>6. QED
  BY <1>1, <1>3, <1>4, <1>5

LEMMA LabABKeeps ==
  ASSUME labAB \in LabABs, BoardTypeOK, LabABIInv, Elapse(1),
         NEW one \in Readings(1), NEW two \in Readings(2),
         labAB' = LightButton1(CountButton2(labAB, two), one)
  PROVE  LabABIInv'
<1> DEFINE r == CountButton2(labAB, two)
<1>1. 1 \in Buttons /\ 2 \in Buttons
  BY DEF Buttons
<1>2. /\ finger[2] \in BOOLEAN /\ since[2] \in 0..Hold /\ presses[2] \in Nat
      /\ two \in BOOLEAN /\ (since[2] >= Bounce => two = finger[2])
      /\ finger' = finger /\ presses' = presses
      /\ since'[2] = IF since[2] + 1 > Hold THEN Hold ELSE since[2] + 1
  BY <1>1, ReadingIs
<1>3. /\ finger[1] \in BOOLEAN /\ since[1] \in 0..Hold /\ presses[1] \in Nat
      /\ one \in BOOLEAN /\ (since[1] >= Bounce => one = finger[1])
      /\ since'[1] = IF since[1] + 1 > Hold THEN Hold ELSE since[1] + 1
  BY <1>1, ReadingIs
<1>4. r \in LabABs
  BY <1>2, CountTyped
<1>5. /\ r.debounce = labAB.debounce /\ r.closed = labAB.closed /\ r.temp = labAB.temp
      /\ r.uicount = labAB.uicount /\ r.lit = labAB.lit
      /\ CountsOn(two, labAB.debounceSW2, labAB.pressed2, r.debounceSW2, r.pressed2)
      /\ r.pressed2 /\ ~labAB.pressed2 =>
           r.debounceSW2 = 0 /\ r.uicountSW2 = (labAB.uicountSW2 + 1) % 256
      /\ ~(r.pressed2 /\ ~labAB.pressed2) => r.uicountSW2 = labAB.uicountSW2
      /\ r.pressed2 /\ labAB.pressed2 => r.debounceSW2 = labAB.debounceSW2
  BY <1>2, CountIs
<1>6. /\ labAB.pressed2 => labAB.debounceSW2 = 0
      /\ Counting(2, labAB.debounceSW2, labAB.pressed2)
      /\ labAB.uicountSW2 = (IF finger[2] /\ ~labAB.pressed2 THEN presses[2] - 1
                                                           ELSE presses[2]) % 256
      /\ labAB.closed = (labAB.debounce = Debounce) /\ labAB.temp = labAB.closed
      /\ Counting(1, labAB.debounce, labAB.closed)
      /\ labAB.lit = IF labAB.closed THEN {labAB.uicount} ELSE {}
      /\ labAB.uicount = (IF finger[1] \/ labAB.closed THEN presses[1] - 1
                                                     ELSE presses[1]) % 3
  BY DEF LabABIInv
<1>7. labAB' = LightButton1(r, one)
  OBVIOUS
<1> HIDE DEF r
<1>8. r.closed = (r.debounce = Debounce)
  BY <1>5, <1>6
<1>9. /\ labAB'.debounceSW2 = r.debounceSW2 /\ labAB'.pressed2 = r.pressed2
      /\ labAB'.uicountSW2 = r.uicountSW2
      /\ CountsOn(one, r.debounce, r.closed, labAB'.debounce, labAB'.closed)
      /\ labAB'.closed = (labAB'.debounce = Debounce) /\ labAB'.temp = labAB'.closed
      /\ labAB'.lit = IF labAB'.closed THEN r.lit \cup {r.uicount} ELSE r.lit \ {r.uicount}
      /\ labAB'.uicount = IF ~labAB'.closed /\ r.temp THEN (r.uicount + 1) % 3 ELSE r.uicount
  BY <1>3, <1>4, <1>7, <1>8, LightIs
<1>10. labAB' \in LabABs
  BY <1>3, <1>4, <1>7, LightTyped
<1>11. /\ labAB.debounceSW2 \in Nat /\ labAB.pressed2 \in BOOLEAN
       /\ labAB.debounce \in Nat /\ labAB.closed \in BOOLEAN
       /\ labAB'.debounceSW2 \in Nat /\ labAB'.pressed2 \in BOOLEAN
       /\ labAB'.debounce \in Nat /\ labAB'.closed \in BOOLEAN
  <2>1. Debounce \in Nat
    BY DebounceAssumption
  <2>2. /\ labAB.debounceSW2 \in 0..Debounce - 1 /\ labAB.pressed2 \in BOOLEAN
        /\ labAB.debounce \in 0..Debounce /\ labAB.closed \in BOOLEAN
        /\ labAB'.debounceSW2 \in 0..Debounce - 1 /\ labAB'.pressed2 \in BOOLEAN
        /\ labAB'.debounce \in 0..Debounce /\ labAB'.closed \in BOOLEAN
    BY <1>10 DEF LabABs
  <2>3. QED
    BY <2>1, <2>2
<1>12. /\ CountingAt(finger[2], since'[2], presses[2], labAB'.debounceSW2, labAB'.pressed2)
       /\ labAB'.pressed2 /\ ~labAB.pressed2 => finger[2]
       /\ ~labAB'.pressed2 /\ labAB.pressed2 => ~finger[2]
       /\ presses[2] > 0 \/ (~finger[2] /\ ~labAB.pressed2)
  <2>1. CountingAt(finger[2], since[2], presses[2], labAB.debounceSW2, labAB.pressed2)
    BY <1>6, CountingIs
  <2>2. CountsOn(two, labAB.debounceSW2, labAB.pressed2, labAB'.debounceSW2, labAB'.pressed2)
    BY <1>5, <1>9
  <2>3. ReadsCounting(finger[2], since[2], presses[2], labAB.debounceSW2, labAB.pressed2, two,
                      labAB'.debounceSW2, labAB'.pressed2)
    BY <1>2, <1>11, <2>1, <2>2, Zenon DEF ReadsCounting
  <2>4. KeepsCounting(finger[2], since[2], presses[2], labAB.pressed2,
                      labAB'.debounceSW2, labAB'.pressed2)
    BY <2>3, CountingGoesOn, Zenon
  <2>5. QED
    BY <1>2, <2>4, Zenon DEF KeepsCounting
<1>13. /\ CountingAt(finger[1], since'[1], presses[1], labAB'.debounce, labAB'.closed)
       /\ labAB'.closed /\ ~labAB.closed => finger[1]
       /\ ~labAB'.closed /\ labAB.closed => ~finger[1]
       /\ presses[1] > 0 \/ (~finger[1] /\ ~labAB.closed)
  <2>1. CountingAt(finger[1], since[1], presses[1], labAB.debounce, labAB.closed)
    BY <1>6, CountingIs
  <2>2. CountsOn(one, labAB.debounce, labAB.closed, labAB'.debounce, labAB'.closed)
    BY <1>5, <1>9
  <2>3. ReadsCounting(finger[1], since[1], presses[1], labAB.debounce, labAB.closed, one,
                      labAB'.debounce, labAB'.closed)
    BY <1>3, <1>11, <2>1, <2>2, Zenon DEF ReadsCounting
  <2>4. KeepsCounting(finger[1], since[1], presses[1], labAB.closed,
                      labAB'.debounce, labAB'.closed)
    BY <2>3, CountingGoesOn, Zenon
  <2>5. QED
    BY <1>3, <2>4, Zenon DEF KeepsCounting
<1>14. labAB'.pressed2 => labAB'.debounceSW2 = 0
  BY <1>5, <1>6, <1>9
<1>15. labAB'.uicountSW2 = (IF finger[2] /\ ~labAB'.pressed2 THEN presses[2] - 1
                                                           ELSE presses[2]) % 256
  <2>1. CASE labAB'.pressed2 /\ ~labAB.pressed2
    <3>1. finger[2] /\ presses[2] > 0
      BY <1>12, <2>1
    <3>2. labAB.uicountSW2 = (presses[2] - 1) % 256
      BY <1>6, <2>1, <3>1
    <3>3. labAB'.uicountSW2 = (labAB.uicountSW2 + 1) % 256
      BY <1>5, <1>9, <2>1
    <3>4. labAB'.uicountSW2 = presses[2] % 256
      BY <1>2, <3>1, <3>2, <3>3, CountingRound
    <3>5. QED
      BY <2>1, <3>4
  <2>2. CASE ~(labAB'.pressed2 /\ ~labAB.pressed2)
    <3>1. labAB'.uicountSW2 = labAB.uicountSW2
      BY <1>5, <1>9, <2>2
    <3>2. (finger[2] /\ ~labAB'.pressed2) <=> (finger[2] /\ ~labAB.pressed2)
      BY <1>12, <2>2
    <3>3. QED
      BY <1>6, <3>1, <3>2
  <2>3. QED
    BY <2>1, <2>2
<1>16. /\ labAB'.lit = IF labAB'.closed THEN {labAB'.uicount} ELSE {}
       /\ labAB'.uicount = (IF finger[1] \/ labAB'.closed THEN presses[1] - 1
                                                        ELSE presses[1]) % 3
  <2>1. CASE labAB'.closed
    <3>1. labAB'.uicount = labAB.uicount /\ labAB'.lit = labAB.lit \cup {labAB.uicount}
      BY <1>5, <1>9, <2>1
    <3>2. labAB'.lit = {labAB'.uicount}
      BY <1>6, <3>1
    <3>3. finger[1] \/ labAB.closed
      BY <1>13, <2>1
    <3>4. QED
      BY <1>6, <2>1, <3>1, <3>2, <3>3
  <2>2. CASE ~labAB'.closed /\ labAB.closed
    <3>1. labAB'.uicount = (labAB.uicount + 1) % 3 /\ labAB'.lit = labAB.lit \ {labAB.uicount}
      BY <1>5, <1>6, <1>9, <2>2
    <3>2. labAB'.lit = {}
      BY <1>6, <2>2, <3>1
    <3>3. ~finger[1] /\ presses[1] > 0
      BY <1>13, <2>2
    <3>4. labAB.uicount = (presses[1] - 1) % 3
      BY <1>6, <2>2
    <3>5. labAB'.uicount = presses[1] % 3
      BY <1>3, <3>1, <3>3, <3>4, CountingRound
    <3>6. QED
      BY <2>2, <3>2, <3>3, <3>5
  <2>3. CASE ~labAB'.closed /\ ~labAB.closed
    <3>1. labAB'.uicount = labAB.uicount /\ labAB'.lit = labAB.lit \ {labAB.uicount}
      BY <1>5, <1>6, <1>9, <2>3
    <3>2. labAB'.lit = {}
      BY <1>6, <2>3, <3>1
    <3>3. QED
      BY <1>6, <2>3, <3>1, <3>2
  <2>4. QED
    BY <2>1, <2>2, <2>3
<1>17. Counting(2, labAB.debounceSW2, labAB.pressed2)' /\ Counting(1, labAB.debounce, labAB.closed)'
  BY <1>2, <1>12, <1>13 DEF Counting, CountingAt
<1>18. QED
  BY <1>2, <1>9, <1>14, <1>15, <1>16, <1>17 DEF LabABIInv
\* The user moves a button: the counter has told what the finger does for long.
LEMMA CountingMoves ==
  ASSUME NEW f \in BOOLEAN, NEW p \in Nat, NEW n \in Nat, NEW counted \in BOOLEAN,
         NEW q \in Nat, q = IF f THEN p ELSE p + 1, CountingAt(f, Hold, p, n, counted)
  PROVE  /\ counted <=> f
         /\ f => p > 0
         /\ CountingAt(~f, 0, q, n, counted)
<1>1. /\ Bounce \in Nat /\ Hold \in Nat /\ Debounce \in Nat /\ Debounce > 0
      /\ Bounce < Debounce /\ Bounce + Debounce <= Hold
  BY BoardAssumption, DebounceAssumption
<1>2. CASE f
  <2>1. p > 0 /\ (~counted => n < Debounce /\ n <= Hold /\ Hold <= n + Bounce)
    BY <1>2 DEF CountingAt
  <2>2. ~(n < Debounce /\ Hold <= n + Bounce)
    BY <1>1
  <2>3. counted /\ q = p
    BY <1>2, <2>1, <2>2
  <2>4. ~(0 > Bounce)
    BY <1>1
  <2>5. QED
    BY <1>2, <2>1, <2>3, <2>4 DEF CountingAt
<1>3. CASE ~f
  <2>1. Hold > Bounce
    BY <1>1
  <2>2. ~counted /\ n = 0
    BY <1>3, <2>1 DEF CountingAt
  <2>3. q > 0 /\ n < Debounce /\ n <= 0 /\ 0 <= n + Bounce
    BY <1>1, <1>3, <2>2
  <2>4. QED
    BY <1>3, <2>2, <2>3 DEF CountingAt
<1>4. QED
  BY <1>2, <1>3

LEMMA MoveABKeeps ==
  ASSUME labAB \in LabABs, BoardTypeOK, LabABIInv, NEW k \in Buttons, Move(k), labAB' = labAB
  PROVE  LabABIInv'
<1>1. /\ since[k] = Hold /\ finger' = [finger EXCEPT ![k] = ~@]
      /\ since' = [since EXCEPT ![k] = 0]
      /\ presses' = IF finger[k] THEN presses ELSE [presses EXCEPT ![k] = @ + 1]
  BY DEF Move
<1>2. /\ finger \in [Buttons -> BOOLEAN] /\ since \in [Buttons -> 0..Hold]
      /\ presses \in [Buttons -> Nat] /\ 1 \in Buttons /\ 2 \in Buttons
  BY DEF BoardTypeOK, Buttons
<1>3. \A j \in Buttons : /\ finger[j] \in BOOLEAN /\ since[j] \in 0..Hold /\ presses[j] \in Nat
                         /\ finger'[j] \in BOOLEAN /\ presses'[j] \in Nat
                         /\ j # k => /\ finger'[j] = finger[j] /\ since'[j] = since[j]
                                     /\ presses'[j] = presses[j]
  <2>1. SUFFICES ASSUME NEW j \in Buttons
                 PROVE  /\ finger[j] \in BOOLEAN /\ since[j] \in 0..Hold /\ presses[j] \in Nat
                        /\ finger'[j] \in BOOLEAN /\ presses'[j] \in Nat
                        /\ j # k => /\ finger'[j] = finger[j] /\ since'[j] = since[j]
                                    /\ presses'[j] = presses[j]
    OBVIOUS
  <2>2. finger[j] \in BOOLEAN /\ since[j] \in 0..Hold /\ presses[j] \in Nat
    BY <1>2
  <2>3. finger' \in [Buttons -> BOOLEAN] /\ presses' \in [Buttons -> Nat]
    BY <1>1, <1>2
  <2>4. j # k => finger'[j] = finger[j]
    BY <1>1, <1>2
  <2>5. j # k => since'[j] = since[j] /\ presses'[j] = presses[j]
    BY <1>1, <1>2
  <2>6. QED
    BY <2>2, <2>3, <2>4, <2>5
<1>4. /\ finger'[k] = ~finger[k] /\ since'[k] = 0
      /\ presses'[k] = IF finger[k] THEN presses[k] ELSE presses[k] + 1
  BY <1>1, <1>2
<1>5. /\ labAB.debounceSW2 \in Nat /\ labAB.pressed2 \in BOOLEAN
      /\ labAB.debounce \in Nat /\ labAB.closed \in BOOLEAN
  <2>1. Debounce \in Nat
    BY DebounceAssumption
  <2>2. /\ labAB.debounceSW2 \in 0..Debounce - 1 /\ labAB.pressed2 \in BOOLEAN
        /\ labAB.debounce \in 0..Debounce /\ labAB.closed \in BOOLEAN
    BY DEF LabABs
  <2>3. QED
    BY <2>1, <2>2
<1>6. ASSUME NEW j \in Buttons, NEW n \in Nat, NEW counted \in BOOLEAN,
             CountingAt(finger[j], since[j], presses[j], n, counted)
      PROVE  /\ CountingAt(finger'[j], since'[j], presses'[j], n, counted)
             /\ j = k => (counted <=> finger[j]) /\ (finger[j] => presses[j] > 0)
  <2>1. CASE j # k
    BY <1>3, <1>6, <2>1
  <2>2. CASE j = k
    <3>1. CountingAt(finger[k], Hold, presses[k], n, counted)
      BY <1>1, <1>6, <2>2
    <3>2. /\ counted <=> finger[k]
          /\ finger[k] => presses[k] > 0
          /\ CountingAt(~finger[k], 0, presses'[k], n, counted)
      BY <1>3, <1>4, <3>1, CountingMoves
    <3>3. QED
      BY <1>4, <2>2, <3>2
  <2>3. QED
    BY <2>1, <2>2
<1>7. /\ labAB.pressed2 => labAB.debounceSW2 = 0
      /\ CountingAt(finger[2], since[2], presses[2], labAB.debounceSW2, labAB.pressed2)
      /\ labAB.uicountSW2 = (IF finger[2] /\ ~labAB.pressed2 THEN presses[2] - 1
                                                           ELSE presses[2]) % 256
      /\ labAB.closed = (labAB.debounce = Debounce) /\ labAB.temp = labAB.closed
      /\ CountingAt(finger[1], since[1], presses[1], labAB.debounce, labAB.closed)
      /\ labAB.lit = IF labAB.closed THEN {labAB.uicount} ELSE {}
      /\ labAB.uicount = (IF finger[1] \/ labAB.closed THEN presses[1] - 1
                                                     ELSE presses[1]) % 3
  BY CountingIs DEF LabABIInv
<1>8. /\ CountingAt(finger'[2], since'[2], presses'[2], labAB.debounceSW2, labAB.pressed2)
      /\ 2 = k => (labAB.pressed2 <=> finger[2]) /\ (finger[2] => presses[2] > 0)
  BY <1>2, <1>5, <1>6, <1>7
<1>9. /\ CountingAt(finger'[1], since'[1], presses'[1], labAB.debounce, labAB.closed)
      /\ 1 = k => (labAB.closed <=> finger[1]) /\ (finger[1] => presses[1] > 0)
  <2>1. CountingAt(finger[1], since[1], presses[1], labAB.debounce, labAB.closed)
    BY <1>7
  <2>2. QED
    BY <1>2, <1>5, <1>6, <2>1
<1>10. Counting(2, labAB.debounceSW2, labAB.pressed2)' /\ Counting(1, labAB.debounce, labAB.closed)'
  BY <1>8, <1>9 DEF Counting, CountingAt
<1>11. labAB.uicountSW2 = (IF finger'[2] /\ ~labAB.pressed2 THEN presses'[2] - 1
                                                          ELSE presses'[2]) % 256
  <2>1. CASE k # 2
    BY <1>2, <1>3, <1>7, <2>1
  <2>2. CASE k = 2 /\ finger[2]
    <3>1. labAB.pressed2 /\ ~finger'[2] /\ presses'[2] = presses[2]
      BY <1>4, <1>8, <2>2
    <3>2. QED
      BY <1>7, <3>1
  <2>3. CASE k = 2 /\ ~finger[2]
    <3>1. ~labAB.pressed2 /\ finger'[2] /\ presses'[2] - 1 = presses[2]
      BY <1>2, <1>3, <1>4, <1>8, <2>3
    <3>2. QED
      BY <1>7, <2>3, <3>1
  <2>4. QED
    BY <2>1, <2>2, <2>3
<1>12. labAB.uicount = (IF finger'[1] \/ labAB.closed THEN presses'[1] - 1
                                                    ELSE presses'[1]) % 3
  <2>1. CASE k # 1
    BY <1>2, <1>3, <1>7, <2>1
  <2>2. CASE k = 1 /\ finger[1]
    <3>1. labAB.closed /\ ~finger'[1] /\ presses'[1] = presses[1]
      BY <1>4, <1>9, <2>2
    <3>2. QED
      BY <1>7, <2>2, <3>1
  <2>3. CASE k = 1 /\ ~finger[1]
    <3>1. ~labAB.closed /\ finger'[1] /\ presses'[1] - 1 = presses[1]
      BY <1>2, <1>3, <1>4, <1>9, <2>3
    <3>2. QED
      BY <1>7, <2>3, <3>1
  <2>4. QED
    BY <2>1, <2>2, <2>3
<1>13. QED
  BY <1>7, <1>10, <1>11, <1>12 DEF LabABIInv

\* The invariant of lab-1_PartA_B.c.
EachPressSeen == program = "lab-1_PartA_B" => LabABIInv

LEMMA InitABInv == Init => EachPressSeen
<1>1. SUFFICES ASSUME Init PROVE LabABIInv
  BY DEF EachPressSeen
<1>2. /\ finger[1] = FALSE /\ since[1] = Hold /\ presses[1] = 0
      /\ finger[2] = FALSE /\ since[2] = Hold /\ presses[2] = 0
  BY <1>1 DEF Init, BoardInit, Buttons
<1>3. /\ labAB.debounceSW2 = 0 /\ labAB.pressed2 = FALSE /\ labAB.uicountSW2 = 0
      /\ labAB.debounce = 0 /\ labAB.closed = FALSE /\ labAB.temp = FALSE
      /\ labAB.uicount = 0 /\ labAB.lit = {}
  BY <1>1 DEF Init, LabABInit
<1>4. Hold > 0 /\ Hold # 0 /\ Debounce # 0 /\ 0 <= Hold
  BY BoardAssumption, DebounceAssumption
<1>5. Counting(1, 0, FALSE) /\ Counting(2, 0, FALSE)
  BY <1>2, <1>4 DEF Counting
<1>6. (labAB.debounce = Debounce) = FALSE
  BY <1>3, <1>4
<1>7. /\ labAB.pressed2 => labAB.debounceSW2 = 0
      /\ Counting(2, labAB.debounceSW2, labAB.pressed2)
      /\ Counting(1, labAB.debounce, labAB.closed)
  BY <1>3, <1>5
<1>8. /\ labAB.uicountSW2 = (IF finger[2] /\ ~labAB.pressed2 THEN presses[2] - 1
                                                            ELSE presses[2]) % 256
      /\ labAB.uicount = (IF finger[1] \/ labAB.closed THEN presses[1] - 1
                                                     ELSE presses[1]) % 3
  BY <1>2, <1>3
<1>9. labAB.closed = (labAB.debounce = Debounce) /\ labAB.temp = labAB.closed
  BY <1>3, <1>6
<1>10. labAB.lit = IF labAB.closed THEN {labAB.uicount} ELSE {}
  BY <1>3
<1>11. QED
  BY <1>7, <1>8, <1>9, <1>10, Zenon DEF LabABIInv

LEMMA NextABInv ==
  EachPressSeen /\ Lab1TypeOK /\ BoardTypeOK /\ [Next]_vars => EachPressSeen'
<1>1. SUFFICES ASSUME EachPressSeen, Lab1TypeOK, BoardTypeOK, [Next]_vars,
                      program' = "lab-1_PartA_B"
               PROVE  LabABIInv'
  BY DEF EachPressSeen
<1>2. program' = program
  BY <1>1, StepIs
<1>3. program = "lab-1_PartA_B" /\ LabABIInv /\ labAB \in LabABs
  BY <1>1, <1>2, Lab1Typed DEF EachPressSeen
<1>4. CASE Blinkers
  <2>1. LabABTurn
    BY <1>3, <1>4 DEF Blinkers
  <2>2. QED
    BY <1>1, <1>3, <2>1, LabABKeeps DEF LabABTurn
<1>5. CASE ~Blinkers
  <2>1. labAB' = labAB
    BY <1>1, <1>5 DEF Next, Timed, User, vars, programs, blinkers
  <2>2. UNCHANGED board \/ \E k \in Buttons : Move(k)
    BY <1>1, <1>3, <1>5 DEF Next, Timed, User, vars
  <2>3. CASE UNCHANGED board
    BY <1>3, <2>1, <2>3 DEF LabABIInv, Counting, board
  <2>4. QED
    BY <1>1, <1>3, <2>1, <2>2, <2>3, MoveABKeeps
<1>6. QED
  BY <1>4, <1>5

\* The inductive invariant of lab-1_PartA_B.c.
THEOREM LabABInvariance == Spec => []EachPressSeen
<1>1. QED
  BY InitABInv, NextABInv, BoardInvariance, Lab1TypeCorrect, PTL DEF Spec

\* lab-1_PartA_B.c sees each press once, for any chatter shorter than its
\* threshold and any number of presses: once a button has been still for long
\* enough the counter is the presses of button 2, and the LED of button 1's last
\* press is lit, alone, exactly while the button is down.
THEOREM PressesSeen == Spec => []EveryPressSeen
<1>1. EachPressSeen /\ BoardTypeOK /\ Lab1TypeOK => EveryPressSeen
  <2>1. SUFFICES ASSUME EachPressSeen, BoardTypeOK, Lab1TypeOK, program = "lab-1_PartA_B"
                 PROVE  /\ Settled(2, Debounce) => labAB.uicountSW2 = presses[2] % 256
                        /\ Settled(1, Debounce) =>
                             labAB.lit = IF finger[1] THEN {(presses[1] - 1) % 3} ELSE {}
    BY DEF EveryPressSeen
  <2>2. LabABIInv /\ labAB \in LabABs
    BY <2>1, Lab1Typed DEF EachPressSeen
  <2>3. /\ Counting(2, labAB.debounceSW2, labAB.pressed2)
        /\ labAB.uicountSW2 = (IF finger[2] /\ ~labAB.pressed2 THEN presses[2] - 1
                                                             ELSE presses[2]) % 256
        /\ Counting(1, labAB.debounce, labAB.closed)
        /\ labAB.lit = IF labAB.closed THEN {labAB.uicount} ELSE {}
        /\ labAB.uicount = (IF finger[1] \/ labAB.closed THEN presses[1] - 1
                                                       ELSE presses[1]) % 3
    BY <2>2 DEF LabABIInv
  <2>4. \A k \in Buttons, n \in Nat, counted \in BOOLEAN :
          Counting(k, n, counted) /\ Settled(k, Debounce) => (finger[k] <=> counted)
    <3>1. SUFFICES ASSUME NEW k \in Buttons, NEW n \in Nat, NEW counted \in BOOLEAN,
                          Counting(k, n, counted), Settled(k, Debounce)
                   PROVE  finger[k] <=> counted
      OBVIOUS
    <3>2. /\ Bounce \in Nat /\ Debounce \in Nat /\ Debounce > 0
          /\ since[k] \in 0..Hold /\ Hold \in Nat /\ finger[k] \in BOOLEAN
      BY <2>1, BoardAssumption, DebounceAssumption DEF BoardTypeOK
    <3>3. since[k] >= Bounce + Debounce
      BY <3>1 DEF Settled
    <3>4. since[k] > Bounce /\ (n < Debounce => ~(since[k] <= n + Bounce))
      BY <3>2, <3>3
    <3>5. CASE finger[k]
      BY <3>1, <3>4, <3>5 DEF Counting
    <3>6. CASE ~finger[k]
      BY <3>1, <3>4, <3>6 DEF Counting
    <3>7. QED
      BY <3>5, <3>6
  <2>5. /\ labAB.debounceSW2 \in Nat /\ labAB.pressed2 \in BOOLEAN
        /\ labAB.debounce \in Nat /\ labAB.closed \in BOOLEAN
    <3>1. Debounce \in Nat
      BY DebounceAssumption
    <3>2. /\ labAB.debounceSW2 \in 0..Debounce - 1 /\ labAB.pressed2 \in BOOLEAN
          /\ labAB.debounce \in 0..Debounce /\ labAB.closed \in BOOLEAN
      BY <2>2 DEF LabABs
    <3>3. QED
      BY <3>1, <3>2
  <2>6. ASSUME Settled(2, Debounce) PROVE labAB.uicountSW2 = presses[2] % 256
    <3>1. finger[2] <=> labAB.pressed2
      BY <2>3, <2>4, <2>5, <2>6 DEF Buttons
    <3>2. QED
      BY <2>3, <3>1
  <2>7. ASSUME Settled(1, Debounce)
        PROVE  labAB.lit = IF finger[1] THEN {(presses[1] - 1) % 3} ELSE {}
    <3>1. finger[1] <=> labAB.closed
      BY <2>3, <2>4, <2>5, <2>7 DEF Buttons
    <3>2. CASE finger[1]
      BY <2>3, <3>1, <3>2
    <3>3. CASE ~finger[1]
      BY <2>3, <3>1, <3>3
    <3>4. QED
      BY <3>2, <3>3
  <2>8. QED
    BY <2>6, <2>7
<1>2. QED
  BY <1>1, LabABInvariance, BoardInvariance, Lab1TypeCorrect, PTL
-----------------------------------------------------------------------------(* lab-2.c: a state machine for each button.                               *)

\* Counting in eight bits, or round the three colours, is counting.
LEMMA Modulo == \A n \in Nat : /\ ((n % 256) + 1) % 256 = (n + 1) % 256
                               /\ (IF (n % 3) + 1 > 2 THEN 0 ELSE (n % 3) + 1) = (n + 1) % 3
                               /\ n % 256 \in 0..255 /\ n % 3 \in 0..2
  OBVIOUS

\* What a reading makes of the state of one button: it stays where a contact
\* that chatters no longer than Bounce can bring it, and a press becomes known
\* exactly when the state machine gets to "Release".
LEMMA ReadingKeeps ==
  ASSUME NEW k \in Buttons, NEW closed \in Readings(k),
         ButtonsTyped, Settling(k), Elapse(1),
         key'[k] = IF ~closed THEN "Idle"
                   ELSE IF key[k] = "Idle" THEN "Press" ELSE "Release"
  PROVE  /\ Settling(k)'
         /\ key'[k] = "Release" /\ key[k] # "Release" =>
              finger[k] /\ Known(k)' = presses[k] /\ Known(k) = presses[k] - 1
         /\ ~(key'[k] = "Release" /\ key[k] # "Release") => Known(k)' = Known(k)
<1>1. /\ since[k] \in 0..Hold /\ presses[k] \in Nat /\ finger[k] \in BOOLEAN
      /\ key[k] \in {"Idle", "Press", "Release"} /\ closed \in BOOLEAN
  BY DEF ButtonsTyped, Readings
<1>2. /\ Hold \in Nat /\ Bounce \in Nat /\ Bounce <= 2 /\ Bounce + 2 <= Hold
  BY BoardAssumption, TimingAssumption
<1>3. /\ finger'[k] = finger[k] /\ presses'[k] = presses[k]
      /\ since'[k] = IF since[k] + 1 > Hold THEN Hold ELSE since[k] + 1
  BY DEF Elapse
<1>4. since[k] >= Bounce => closed = finger[k]
  BY <1>1, <1>2 DEF Readings
<1>5. CASE finger[k]
  <2>1. since[k] >= Bounce
          => key'[k] = IF key[k] = "Idle" THEN "Press" ELSE "Release"
    BY <1>4, <1>5
  <2>2. /\ presses[k] > 0
        /\ since[k] = 0 => key[k] = "Idle"
        /\ since[k] = 1 => key[k] # "Release"
        /\ since[k] >= Bounce + 1 => key[k] # "Idle"
        /\ since[k] >= Bounce + 2 => key[k] = "Release"
    BY <1>5 DEF Settling
  <2>3. key'[k] = "Release" => key[k] # "Idle"
    <3>1. CASE closed
      BY <3>1
    <3>2. CASE ~closed
      BY <3>2
    <3>3. QED
      BY <3>1, <3>2
  <2>4. since'[k] \in Nat /\ since'[k] # 0 /\ finger'[k]
    BY <1>1, <1>2, <1>3, <1>5
  <2>5. since'[k] = 1 => key'[k] # "Release"
    BY <1>1, <1>2, <1>3, <2>2, <2>3
  <2>6. since'[k] >= Bounce + 1 => key'[k] # "Idle"
    <3>1. since'[k] >= Bounce + 1 => since[k] >= Bounce
      BY <1>1, <1>2, <1>3
    <3>2. QED
      BY <2>1, <3>1
  <2>7. since'[k] >= Bounce + 2 => key'[k] = "Release"
    <3>1. since'[k] >= Bounce + 2 => since[k] >= Bounce /\ since[k] >= Bounce + 1
      BY <1>1, <1>2, <1>3
    <3>2. QED
      BY <2>1, <2>2, <3>1
  <2>8. Settling(k)'
    BY <1>3, <2>2, <2>4, <2>5, <2>6, <2>7 DEF Settling
  <2>9. key[k] = "Release" => key'[k] = "Release"
    <3>1. key[k] = "Release" => since[k] >= Bounce
      BY <1>1, <1>2, <2>2
    <3>2. QED
      BY <2>1, <3>1
  <2>10. QED
    BY <1>1, <1>3, <1>5, <2>8, <2>9 DEF Known
<1>6. CASE ~finger[k]
  <2>1. Settling(k)'
    BY <1>1, <1>2, <1>3, <1>4, <1>6 DEF Settling
  <2>2. ~(key'[k] = "Release" /\ key[k] # "Release")
    BY <1>1, <1>2, <1>4, <1>6 DEF Settling
  <2>3. QED
    BY <1>1, <1>3, <1>6, <2>1, <2>2 DEF Known
<1>7. QED
  BY <1>1, <1>5, <1>6

LEMMA InitLab2IInv == BoardInit /\ Lab2Init => Lab2IInv
<1>1. SUFFICES ASSUME BoardInit, Lab2Init PROVE Lab2IInv
  OBVIOUS
<1>2. Hold \in Nat /\ Bounce \in Nat /\ Bounce + 2 <= Hold
  BY BoardAssumption, TimingAssumption
<1>3. ButtonsTyped
  <2>1. /\ finger = [k \in Buttons |-> FALSE] /\ since = [k \in Buttons |-> Hold]
        /\ presses = [k \in Buttons |-> 0] /\ key = [k \in Buttons |-> "Idle"]
        /\ locked = [k \in Buttons |-> FALSE]
    BY <1>1 DEF BoardInit, Lab2Init
  <2>2. locked = [k \in Buttons |-> key[k] = "Release"]
    <3>1. \A k \in Buttons : key[k] # "Release"
      BY <2>1
    <3>2. \A k \in Buttons : (key[k] = "Release") = FALSE
      BY <3>1
    <3>3. QED
      BY <2>1, <3>2, Zenon
  <2>3. Hold \in 0..Hold
    BY <1>2
  <2>4. /\ finger \in [Buttons -> BOOLEAN] /\ since \in [Buttons -> 0..Hold]
        /\ presses \in [Buttons -> Nat]
        /\ key \in [Buttons -> {"Idle", "Press", "Release"}]
    BY <2>1, <2>3
  <2>5. QED
    BY <2>2, <2>4 DEF ButtonsTyped
<1>4. \A k \in Buttons : Settling(k) /\ Known(k) = 0
  BY <1>1, <1>2 DEF BoardInit, Lab2Init, Settling, Known
<1>5. 1 \in Buttons /\ 2 \in Buttons
  BY DEF Buttons
<1>6. ucSW2Counter = Known(2) % 256 /\ ucLEDState = Known(1) % 3
  BY <1>1, <1>4, <1>5 DEF Lab2Init
<1>7. Shown
  BY <1>1, <1>5 DEF Lab2Init, Shown
<1>8. QED
  BY <1>3, <1>4, <1>6, <1>7 DEF Lab2IInv

\* A tick of the timer.
LEMMA TickLab2IInv == Lab2IInv /\ Timer0IntHandler => Lab2IInv'
<1>1. SUFFICES ASSUME Lab2IInv, NEW one \in Readings(1), NEW two \in Readings(2),
                      LET state1 == Switch1StateMachine(key[1], one)
                          state2 == Switch2StateMachine(key[2], two)
                      IN /\ key' = [k \in Buttons |-> IF k = 1 THEN state1 ELSE state2]
                         /\ locked' = [k \in Buttons |-> key'[k] = "Release"]
                         /\ ShowColour(state1 = "Release")
                         /\ CountPress(state2 = "Release")
                         /\ Elapse(1)
               PROVE  Lab2IInv'
  BY DEF Timer0IntHandler
<1>2. /\ ButtonsTyped /\ Settling(1) /\ Settling(2) /\ 1 \in Buttons /\ 2 \in Buttons
      /\ ucSW2Counter = Known(2) % 256 /\ ucLEDState = Known(1) % 3 /\ Shown
  BY <1>1 DEF Lab2IInv, Buttons
<1>3. /\ key'[1] = IF ~one THEN "Idle" ELSE IF key[1] = "Idle" THEN "Press" ELSE "Release"
      /\ key'[2] = IF ~two THEN "Idle" ELSE IF key[2] = "Idle" THEN "Press" ELSE "Release"
      /\ locked' = [k \in Buttons |-> key'[k] = "Release"]
      /\ key' \in [Buttons -> {"Idle", "Press", "Release"}]
      /\ Elapse(1)
  BY <1>1, <1>2 DEF Switch1StateMachine, Switch2StateMachine
<1>4. /\ ShowColour(key'[1] = "Release") /\ CountPress(key'[2] = "Release")
  BY <1>1, <1>3, <1>2 DEF Switch1StateMachine, Switch2StateMachine
<1>5. ButtonsTyped'
  <2>1. Hold \in Nat /\ since \in [Buttons -> 0..Hold]
    BY <1>2, BoardAssumption DEF ButtonsTyped
  <2>2. since' \in [Buttons -> 0..Hold]
    BY <1>3, <2>1 DEF Elapse
  <2>3. QED
    BY <1>2, <1>3, <2>2 DEF ButtonsTyped, Elapse
<1>6. /\ Settling(1)'
      /\ key'[1] = "Release" /\ key[1] # "Release" =>
           finger[1] /\ Known(1)' = presses[1] /\ Known(1) = presses[1] - 1
      /\ ~(key'[1] = "Release" /\ key[1] # "Release") => Known(1)' = Known(1)
  BY <1>2, <1>3, ReadingKeeps
<1>7. /\ Settling(2)'
      /\ key'[2] = "Release" /\ key[2] # "Release" =>
           finger[2] /\ Known(2)' = presses[2] /\ Known(2) = presses[2] - 1
      /\ ~(key'[2] = "Release" /\ key[2] # "Release") => Known(2)' = Known(2)
  BY <1>2, <1>3, ReadingKeeps
<1>8. /\ locked[1] = (key[1] = "Release") /\ locked[2] = (key[2] = "Release")
      /\ presses \in [Buttons -> Nat] /\ presses' = presses
      /\ finger[1] => presses[1] > 0
      /\ finger[2] => presses[2] > 0
  BY <1>2, <1>3 DEF ButtonsTyped, Elapse, Settling
<1>9. ucSW2Counter' = Known(2)' % 256
  <2>1. CASE key'[2] = "Release" /\ key[2] # "Release"
    <3>1. ucSW2Counter' = (ucSW2Counter + 1) % 256
      BY <1>4, <1>8, <2>1 DEF CountPress
    <3>2. presses[2] - 1 \in Nat /\ (presses[2] - 1) + 1 = presses[2]
      BY <1>2, <1>7, <1>8, <2>1
    <3>3. QED
      BY <1>2, <1>7, <2>1, <3>1, <3>2, Modulo
  <2>2. CASE ~(key'[2] = "Release" /\ key[2] # "Release")
    <3>1. ucSW2Counter' = ucSW2Counter
      BY <1>4, <1>8, <2>2 DEF CountPress
    <3>2. QED
      BY <1>2, <1>7, <2>2, <3>1
  <2>3. QED
    BY <2>1, <2>2
<1>10. ucLEDState' = Known(1)' % 3 /\ Shown'
  <2>1. CASE key'[1] = "Release" /\ key[1] # "Release"
    <3>1. /\ led' = 2 ^ (ucLEDState + 1)
          /\ ucLEDState' = IF ucLEDState + 1 > 2 THEN 0 ELSE ucLEDState + 1
      BY <1>4, <1>8, <2>1 DEF ShowColour
    <3>2. presses[1] - 1 \in Nat /\ (presses[1] - 1) + 1 = presses[1]
      BY <1>2, <1>6, <1>8, <2>1
    <3>3. ucLEDState = (presses[1] - 1) % 3
      BY <1>2, <1>6, <2>1
    <3>4. ucLEDState' = presses[1] % 3
      BY <3>1, <3>2, <3>3, Modulo
    <3>5. Shown'
      BY <1>8, <2>1, <3>1, <3>3 DEF Shown
    <3>6. QED
      BY <1>6, <2>1, <3>4, <3>5
  <2>2. CASE key'[1] = "Release" /\ key[1] = "Release"
    <3>1. UNCHANGED <<ucLEDState, led>>
      BY <1>4, <1>8, <2>2 DEF ShowColour
    <3>2. QED
      BY <1>2, <1>6, <1>8, <2>2, <3>1 DEF Shown
  <2>3. CASE key'[1] # "Release"
    <3>1. led' = 0 /\ ucLEDState' = ucLEDState
      BY <1>4, <2>3 DEF ShowColour
    <3>2. QED
      BY <1>2, <1>6, <2>3, <3>1 DEF Shown
  <2>4. QED
    BY <2>1, <2>2, <2>3
<1>11. QED
  BY <1>5, <1>6, <1>7, <1>9, <1>10 DEF Lab2IInv, Buttons

\* The user moves a button whose contact is quiet.
LEMMA MoveLab2IInv ==
  ASSUME NEW k \in Buttons, Lab2IInv, Move(k), UNCHANGED lab2
  PROVE  Lab2IInv'
<1>1. /\ Hold \in Nat /\ Bounce \in Nat /\ Bounce + 2 <= Hold
  BY BoardAssumption, TimingAssumption
<1>2. /\ ButtonsTyped /\ \A j \in Buttons : Settling(j)
  BY DEF Lab2IInv
<1>3. UNCHANGED <<key, locked, ucLEDState, led, ucSW2Counter>>
  BY DEF lab2
<1>4. /\ finger \in [Buttons -> BOOLEAN] /\ since \in [Buttons -> 0..Hold]
      /\ presses \in [Buttons -> Nat] /\ key \in [Buttons -> {"Idle", "Press", "Release"}]
  BY <1>2 DEF ButtonsTyped
<1>5. /\ since[k] = Hold /\ finger' = [finger EXCEPT ![k] = ~@]
      /\ since' = [since EXCEPT ![k] = 0]
      /\ presses' = IF finger[k] THEN presses ELSE [presses EXCEPT ![k] = @ + 1]
  BY DEF Move
<1>6. ButtonsTyped'
  <2>1. finger' \in [Buttons -> BOOLEAN]
    BY <1>4, <1>5
  <2>2. since' \in [Buttons -> 0..Hold]
    BY <1>1, <1>4, <1>5
  <2>3. presses' \in [Buttons -> Nat]
    BY <1>4, <1>5
  <2>4. QED
    BY <1>2, <1>3, <2>1, <2>2, <2>3 DEF ButtonsTyped
<1>7. \A j \in Buttons : j # k => /\ finger'[j] = finger[j] /\ since'[j] = since[j]
                                  /\ presses'[j] = presses[j]
  BY <1>4, <1>5
<1>8. \A j \in Buttons : j # k => Settling(j)' /\ Known(j)' = Known(j)
  BY <1>2, <1>3, <1>7 DEF Settling, Known
<1>9. /\ finger'[k] = ~finger[k] /\ since'[k] = 0
      /\ presses'[k] = IF finger[k] THEN presses[k] ELSE presses[k] + 1
  BY <1>4, <1>5
<1>10. key[k] = IF finger[k] THEN "Release" ELSE "Idle"
  BY <1>1, <1>2, <1>5 DEF Settling
<1>11. Settling(k)' /\ Known(k)' = Known(k)
  <2>1. finger[k] => presses[k] > 0
    BY <1>2 DEF Settling
  <2>2. finger[k] \in BOOLEAN /\ presses[k] \in Nat
    BY <1>4
  <2>3. CASE finger[k]
    <3>1. /\ ~finger'[k] /\ since'[k] = 0 /\ presses'[k] = presses[k]
          /\ key'[k] = "Release" /\ key[k] = "Release"
      BY <1>3, <1>9, <1>10, <2>3
    <3>2. Settling(k)'
      BY <1>1, <3>1 DEF Settling
    <3>3. QED
      BY <3>1, <3>2 DEF Known
  <2>4. CASE ~finger[k]
    <3>1. /\ finger'[k] /\ since'[k] = 0 /\ presses'[k] = presses[k] + 1
          /\ key'[k] = "Idle" /\ key[k] = "Idle"
      BY <1>3, <1>9, <1>10, <2>4
    <3>2. Settling(k)'
      BY <1>1, <2>2, <3>1 DEF Settling
    <3>3. QED
      BY <2>2, <2>4, <3>1, <3>2 DEF Known
  <2>5. QED
    BY <2>3, <2>4
<1>12. \A j \in Buttons : Settling(j)' /\ Known(j)' = Known(j)
  BY <1>8, <1>11
<1>13. ucSW2Counter' = Known(2)' % 256 /\ ucLEDState' = Known(1)' % 3
  <2>1. Known(1)' = Known(1) /\ Known(2)' = Known(2)
    BY <1>12 DEF Buttons
  <2>2. QED
    BY <1>3, <2>1 DEF Lab2IInv
<1>14. Shown'
  <2>1. key[1] = "Release" => presses'[1] = presses[1]
    BY <1>7, <1>9, <1>10 DEF Buttons
  <2>2. QED
    BY <1>3, <2>1 DEF Lab2IInv, Shown
<1>15. QED
  BY <1>6, <1>12, <1>13, <1>14 DEF Lab2IInv

LEMMA InitLab2Type == Init => Lab2TypeOK
<1>1. SUFFICES ASSUME Init PROVE Lab2TypeOK
  OBVIOUS
<1>2. /\ key = [k \in Buttons |-> "Idle"] /\ locked = [k \in Buttons |-> FALSE]
      /\ ucLEDState = 0 /\ led = 0 /\ ucSW2Counter = 0
  BY <1>1 DEF Init, Lab2Init
<1>3. QED
  BY <1>2 DEF Lab2TypeOK

LEMMA NextLab2Type == Lab2TypeOK /\ [Next]_vars => Lab2TypeOK'
<1>1. SUFFICES ASSUME Lab2TypeOK, [Next]_vars PROVE Lab2TypeOK'
  OBVIOUS
<1>2. UNCHANGED lab2 \/ Timer0IntHandler
  BY <1>1, StepIs DEF TimedMoves
<1>3. CASE UNCHANGED lab2
  BY <1>1, <1>3 DEF Lab2TypeOK, lab2
<1>4. CASE Timer0IntHandler
  <2>1. PICK one \in Readings(1), two \in Readings(2) :
          LET state1 == Switch1StateMachine(key[1], one)
              state2 == Switch2StateMachine(key[2], two)
          IN /\ key' = [k \in Buttons |-> IF k = 1 THEN state1 ELSE state2]
             /\ locked' = [k \in Buttons |-> key'[k] = "Release"]
             /\ ShowColour(state1 = "Release")
             /\ CountPress(state2 = "Release")
    BY <1>4 DEF Timer0IntHandler
  <2>2. key' \in [Buttons -> {"Idle", "Press", "Release"}]
    BY <2>1 DEF Switch1StateMachine, Switch2StateMachine
  <2>3. locked' \in [Buttons -> BOOLEAN]
    <3>1. \A k \in Buttons : (key'[k] = "Release") \in BOOLEAN
      OBVIOUS
    <3>2. locked' = [k \in Buttons |-> key'[k] = "Release"]
      BY <2>1
    <3>3. QED
      BY <3>1, <3>2, Zenon
  <2>4. /\ ucLEDState \in 0..2 /\ led \in {0, 2, 4, 8} /\ ucSW2Counter \in 0..255
    BY <1>1 DEF Lab2TypeOK
  <2>5. \A n \in 0..2 : 2 ^ (n + 1) \in {0, 2, 4, 8}
    <3>1. 2 ^ 1 = 2 /\ 2 ^ 2 = 4 /\ 2 ^ 3 = 8
      OBVIOUS
    <3>2. SUFFICES ASSUME NEW n \in 0..2 PROVE n + 1 = 1 \/ n + 1 = 2 \/ n + 1 = 3
      BY <3>1
    <3>3. QED
      OBVIOUS
  <2>6. ucLEDState' \in 0..2 /\ led' \in {0, 2, 4, 8}
    <3>1. /\ \/ ucLEDState' = IF ucLEDState + 1 > 2 THEN 0 ELSE ucLEDState + 1
             \/ ucLEDState' = ucLEDState
          /\ led' = 2 ^ (ucLEDState + 1) \/ led' = 0 \/ led' = led
      BY <2>1, Zenon DEF ShowColour
    <3>2. 0 \in {0, 2, 4, 8} /\ 2 ^ (ucLEDState + 1) \in {0, 2, 4, 8}
      BY <2>4, <2>5
    <3>3. led' \in {0, 2, 4, 8}
      BY <2>4, <3>1, <3>2
    <3>4. ucLEDState' \in 0..2
      BY <2>4, <3>1
    <3>5. QED
      BY <3>3, <3>4
  <2>7. ucSW2Counter' \in 0..255
    <3>1. ucSW2Counter' = (ucSW2Counter + 1) % 256 \/ ucSW2Counter' = ucSW2Counter
      BY <2>1 DEF CountPress
    <3>2. QED
      BY <2>4, <3>1
  <2>8. QED
    BY <2>2, <2>3, <2>6, <2>7 DEF Lab2TypeOK
<1>5. QED
  BY <1>2, <1>3, <1>4

\* No state, colour or counter of lab-2.c leaves its range.
THEOREM Lab2TypeCorrect == Spec => []Lab2TypeOK
<1>1. QED
  BY InitLab2Type, NextLab2Type, PTL DEF Spec

\* The invariant of lab-2.c.
PressesKept == program = "lab-2" => Lab2IInv

LEMMA NextLab2Inv == PressesKept /\ [Next]_vars => PressesKept'
<1>1. SUFFICES ASSUME PressesKept, [Next]_vars, program' = "lab-2" PROVE Lab2IInv'
  BY DEF PressesKept
<1>2. program = "lab-2" /\ Lab2IInv
  BY <1>1, StepIs DEF PressesKept
<1>3. CASE Timer0IntHandler
  BY <1>2, <1>3, TickLab2IInv
<1>4. CASE \E k \in Buttons : Move(k) /\ UNCHANGED lab2
  BY <1>2, <1>4, MoveLab2IInv
<1>5. CASE UNCHANGED <<board, lab2>>
  BY <1>2, <1>5 DEF board, lab2, Lab2IInv, ButtonsTyped, Settling, Known, Shown
<1>6. \/ Timer0IntHandler
      \/ \E k \in Buttons : Move(k) /\ UNCHANGED lab2
      \/ UNCHANGED <<board, lab2>>
  <2>1. ~Blinkers
    BY <1>2 DEF Blinkers
  <2>2. Timed => Timer0IntHandler
    BY <1>2 DEF Timed
  <2>3. User => \E k \in Buttons : Move(k) /\ UNCHANGED lab2
    BY DEF User, programs
  <2>4. UNCHANGED vars => UNCHANGED <<board, lab2>>
    BY DEF vars, programs
  <2>5. UNCHANGED <<program, board, programs, plotter>> => UNCHANGED <<board, lab2>>
    BY DEF programs
  <2>6. QED
    BY <1>1, <1>2, <2>1, <2>2, <2>3, <2>4, <2>5 DEF Next
<1>7. QED
  BY <1>3, <1>4, <1>5, <1>6

\* The inductive invariant of lab-2.c.
THEOREM Lab2Invariance == Spec => []PressesKept
<1>1. Init => PressesKept
  BY InitLab2IInv DEF Init, PressesKept
<1>2. QED
  BY <1>1, NextLab2Inv, PTL DEF Spec

\* Each press is counted once, whatever the contacts do while they chatter: once
\* a button has been quiet for two readings the counter, the colour and the LED
\* tell the presses (lab-2.c:216-263).
THEOREM PressesKnown == Spec => []PressesRegistered
<1>1. PressesKept => PressesRegistered
  <2>1. SUFFICES ASSUME Lab2IInv PROVE PressesRegistered
    BY DEF PressesKept, PressesRegistered
  <2>2. \A k \in Buttons : since[k] >= Bounce + 2 =>
           /\ key[k] = IF finger[k] THEN "Release" ELSE "Idle"
           /\ Known(k) = presses[k]
    <3>1. SUFFICES ASSUME NEW k \in Buttons, since[k] >= Bounce + 2
                   PROVE  /\ key[k] = IF finger[k] THEN "Release" ELSE "Idle"
                          /\ Known(k) = presses[k]
      OBVIOUS
    <3>2. since[k] >= Bounce + 1
      <4>1. since[k] \in 0..Hold /\ Bounce \in Nat /\ Hold \in Nat
        BY <2>1, BoardAssumption DEF Lab2IInv, ButtonsTyped
      <4>2. QED
        BY <3>1, <4>1
    <3>3. QED
      BY <2>1, <3>1, <3>2 DEF Lab2IInv, Settling, Known
  <2>3. QED
    BY <2>1, <2>2 DEF Lab2IInv, Shown, PressesRegistered, Buttons
<1>2. QED
  BY <1>1, Lab2Invariance, PTL
(* Lab3P1A.c: the colours that fade into each other.                       *)

Rgb == [red : 0..Full, green : 0..Full, blue : 0..Full]

LEMMA PacesAre ==
  /\ Full \in Nat /\ Slowest \in Nat /\ Fastest \in Nat /\ 0 < Slowest /\ Slowest < Fastest
  /\ Fastest <= 4 /\ 2 <= Fastest /\ Full > (2 * Fastest) + 7
BY RainbowAssumption

LEMMA RainbowTyped ==
  RainbowTypeOK <=>
    /\ at \in {"first", "second", "restart", "show", "keys"}
    /\ counter \in 1..Full - 1 /\ TempCounter \in 0..255
    /\ timedelay \in Slowest..Fastest /\ ticks \in 0..Fastest
    /\ state \in {"RB", "BY", "YR"}
    /\ val \in Rgb /\ pwm \in Rgb
    /\ ui8Adjust \in ServoLow..ServoHigh
BY DEF RainbowTypeOK, Rgb

LEMMA SteppedTyped ==
  ASSUME NEW low \in Nat, NEW high \in Nat, low < high, 0 < low, NEW x \in low..high,
         NEW down \in BOOLEAN, NEW up \in BOOLEAN
  PROVE  Stepped(x, down, up, low, high) \in low..high
<1> DEFINE y == IF ~down THEN x ELSE IF x - 1 < low THEN low ELSE x - 1
<1>1. y \in low..high
  OBVIOUS
<1>2. Stepped(x, down, up, low, high) = IF ~up THEN y ELSE IF y + 1 > high THEN high ELSE y + 1
  BY Zenon DEF Stepped
<1> HIDE DEF y
<1>3. QED
  BY <1>1, <1>2

LEMMA InitRainbowType == Init => RainbowTypeOK
<1>1. SUFFICES ASSUME Init PROVE RainbowTypeOK
  OBVIOUS
<1>2. /\ at = "first" /\ counter = 1 /\ TempCounter = 1 /\ timedelay = Slowest
      /\ state = "RB" /\ val = Colour(Full, 0, 0) /\ pwm = val /\ ticks = 0
      /\ ui8Adjust = (ServoLow + ServoHigh) \div 2
  BY <1>1 DEF Init, RainbowInit, ServoInit
<1>3. Colour(Full, 0, 0) \in Rgb
  BY PacesAre DEF Colour, Rgb
<1>4. (ServoLow + ServoHigh) \div 2 \in ServoLow..ServoHigh
  BY RainbowAssumption
<1>5. 1 \in 1..Full - 1 /\ Slowest \in Slowest..Fastest /\ 0 \in 0..Fastest
  BY PacesAre
<1>6. QED
  BY <1>2, <1>3, <1>4, <1>5, RainbowTyped

LEMMA NextRainbowType == RainbowTypeOK /\ [Next]_vars => RainbowTypeOK'
<1>1. SUFFICES ASSUME RainbowTypeOK, [Next]_vars PROVE RainbowTypeOK'
  OBVIOUS
<1>2. /\ at \in {"first", "second", "restart", "show", "keys"}
      /\ counter \in 1..Full - 1 /\ TempCounter \in 0..255
      /\ timedelay \in Slowest..Fastest /\ ticks \in 0..Fastest
      /\ state \in {"RB", "BY", "YR"} /\ val \in Rgb /\ pwm \in Rgb
      /\ ui8Adjust \in ServoLow..ServoHigh
  BY <1>1, RainbowTyped
<1>3. ui8Adjust' \in ServoLow..ServoHigh
  <2>1. CASE ui8Adjust' = ui8Adjust
    BY <1>2, <2>1
  <2>2. CASE ServoTurn
    BY <1>2, <2>2, RainbowAssumption, SteppedTyped DEF ServoTurn
  <2>3. QED
    BY <1>1, <2>1, <2>2, StepIs DEF TimedMoves
<1>4. Full \in Nat /\ Fastest \in Nat /\ Full > 7
  BY PacesAre
<1>5. /\ at' \in {"first", "second", "restart", "show", "keys"}
      /\ counter' \in 1..Full - 1 /\ TempCounter' \in 0..255
      /\ timedelay' \in Slowest..Fastest /\ ticks' \in 0..Fastest
      /\ state' \in {"RB", "BY", "YR"} /\ val' \in Rgb /\ pwm' \in Rgb
  <2>1. CASE UNCHANGED rainbow
    BY <1>2, <2>1 DEF rainbow
  <2>2. CASE Tick
    <3>1. counter' \in 1..Full - 1
      BY <1>2, <1>4, <2>2 DEF Tick
    <3>2. TempCounter' \in 0..255 /\ ticks' \in 0..Fastest
      BY <1>2, <1>4, <2>2, PacesAre DEF Tick
    <3>3. QED
      BY <1>2, <2>2, <3>1, <3>2 DEF Tick
  <2>3. CASE Fade
    <3>1. Full - counter \in 0..Full
      BY <1>2, <1>4
    <3>2. \A x \in 0..Full : /\ [val EXCEPT !.red = x] \in Rgb /\ [val EXCEPT !.blue = x] \in Rgb
                             /\ [val EXCEPT !.green = x] \in Rgb
      BY <1>2 DEF Rgb
    <3>3. val' \in Rgb
      BY <1>2, <2>3, <3>1, <3>2 DEF Fade
    <3>4. QED
      BY <1>2, <2>3, <3>3 DEF Fade
  <2>4. CASE Raise
    <3>1. counter \in 0..Full /\ 1 \in 0..Full
      BY <1>2, <1>4
    <3>2. \A x, y \in 0..Full : /\ [val EXCEPT !.blue = x, !.green = y] \in Rgb
                                /\ [val EXCEPT !.green = x, !.red = y] \in Rgb
                                /\ [val EXCEPT !.red = x, !.blue = y] \in Rgb
      BY <1>2 DEF Rgb
    <3>3. Risen \in Rgb
      BY <1>2, <3>1, <3>2 DEF Risen
    <3>4. QED
      BY <1>2, <1>4, <2>4, <3>3 DEF Raise
  <2>5. CASE Restart
    BY <1>2, <1>4, <2>5 DEF Restart
  <2>6. CASE Show
    BY <1>2, <2>6 DEF Show
  <2>7. CASE Keys
    BY <1>2, <2>7, PacesAre, SteppedTyped DEF Keys
  <2>8. QED
    BY <1>1, <2>1, <2>2, <2>3, <2>4, <2>5, <2>6, <2>7, StepIs DEF TimedMoves, RainbowNext
<1>6. QED
  BY <1>3, <1>5 DEF RainbowTypeOK, Rgb

\* The brightnesses, the pace of the timer and the servo stay in their ranges.
THEOREM RainbowTypeCorrect == Spec => []RainbowTypeOK
<1>1. QED
  BY InitRainbowType, NextRainbowType, PTL DEF Spec
\* A colour is one of three.
LEMMA ColoursTyped ==
  ASSUME NEW v \in Rgb, state \in {"RB", "BY", "YR"}
  PROVE  /\ Falling(v) \in Nat /\ Rising(v) \in Nat /\ Off(v) \in Nat
         /\ Falling(v) <= Full /\ Rising(v) <= Full /\ Off(v) <= Full
<1>1. v.red \in 0..Full /\ v.green \in 0..Full /\ v.blue \in 0..Full /\ Full \in Nat
  BY PacesAre DEF Rgb
<1>2. QED
  BY <1>1 DEF Falling, Rising, Off

LEMMA AllNearIs ==
  ASSUME state \in {"RB", "BY", "YR"}
  PROVE  AllNear <=> /\ Near(Falling(pwm), Falling(val)) /\ Near(Rising(pwm), Rising(val))
                     /\ Near(Off(pwm), Off(val))
BY DEF AllNear, Falling, Rising, Off

LEMMA CurrentGoesOn ==
  ASSUME NEW f \in Nat, NEW r \in Nat, NEW o \in Nat, NEW k \in Nat, NEW age \in Nat,
         Current(f, r, o, k, age)
  PROVE  Current(f, r, o, k + 1, age + 1)
BY PacesAre DEF Current

LEMMA FormerGoesOn ==
  ASSUME NEW f \in Nat, NEW r \in Nat, NEW o \in Nat, NEW age \in Nat, NEW older \in Nat,
         age <= older, Former(f, r, o, age)
  PROVE  Former(f, r, o, older)
BY PacesAre DEF Former

\* The brightnesses that main has now, against those that it has shown.
LEMMA CurrentIsNear ==
  ASSUME NEW f \in Nat, NEW r \in Nat, NEW o \in Nat, NEW k \in Nat, NEW age \in Nat,
         NEW n \in 0..Fastest, NEW g \in Nat,
         Current(f, r, o, k, age), age <= 2 + n,
         Full <= g + k, g + k <= Full + n
  PROVE  Near(f, g) /\ Near(r, k) /\ Near(o, 1)
BY PacesAre DEF Current, Near

LEMMA FormerIsNear ==
  ASSUME NEW f \in Nat, NEW r \in Nat, NEW o \in Nat, NEW k \in Nat, NEW age \in Nat,
         NEW n \in 0..Fastest, NEW g \in Nat,
         Former(f, r, o, 2), 1 <= k, k <= 1 + Fastest + age, age <= 2 + n,
         Full <= g + k, g + k <= Full + n
  PROVE  Near(f, g) /\ Near(r, k) /\ Near(o, 1)
BY PacesAre DEF Former, Near

LEMMA FadesTick ==
  ASSUME RainbowTypeOK, RainbowIInv, Tick
  PROVE  RainbowIInv'
<1>1. /\ at \in {"first", "second", "restart", "show", "keys"}
      /\ counter \in 1..Full - 1 /\ TempCounter \in 0..255
      /\ timedelay \in Slowest..Fastest /\ ticks \in 0..Fastest
      /\ state \in {"RB", "BY", "YR"} /\ val \in Rgb /\ pwm \in Rgb
  BY RainbowTyped
<1>2. /\ ticks < timedelay /\ ticks' = ticks + 1
      /\ TempCounter' = (TempCounter + 1) % 256
      /\ counter' = IF counter + 1 > Full - 1 THEN 1 ELSE counter + 1
      /\ at' = at /\ state' = state /\ val' = val /\ pwm' = pwm
  BY DEF Tick
<1>3. /\ at # "restart" => counter + 5 <= Full + ticks
      /\ at \in {"restart", "show"} => TempCounter <= 2 + ticks + Fastest
      /\ at \in {"keys", "first", "second"} => TempCounter <= 2 + ticks
  BY DEF RainbowIInv
<1>4. TempCounter' = TempCounter + 1
  <2>1. TempCounter <= 2 + ticks + Fastest
    BY <1>1, <1>3, PacesAre
  <2>2. QED
    BY <1>1, <1>2, <2>1, PacesAre
<1>5. at # "restart" => counter' = counter + 1
  BY <1>1, <1>2, <1>3, PacesAre
<1>6. /\ counter \in Nat /\ TempCounter \in Nat /\ ticks \in Nat
      /\ TempCounter <= TempCounter + 1 /\ TempCounter + 1 \in Nat
  BY <1>1, PacesAre
<1>7. /\ Falling(val)' = Falling(val) /\ Rising(val)' = Rising(val) /\ Off(val)' = Off(val)
      /\ Falling(pwm)' = Falling(pwm) /\ Rising(pwm)' = Rising(pwm) /\ Off(pwm)' = Off(pwm)
  BY <1>2 DEF Falling, Rising, Off
<1>8. /\ Falling(val) \in Nat /\ Rising(val) \in Nat /\ Off(val) \in Nat
      /\ Falling(pwm) \in Nat /\ Rising(pwm) \in Nat /\ Off(pwm) \in Nat
  BY <1>1, ColoursTyped
<1>9. at # "restart" /\ Lags => Lags'
  <2>1. SUFFICES ASSUME at # "restart", Lags PROVE Lags'
    OBVIOUS
  <2>2. CASE Current(Falling(pwm), Rising(pwm), Off(pwm), counter, TempCounter)
    <3>1. Current(Falling(pwm), Rising(pwm), Off(pwm), counter', TempCounter')
      BY <1>4, <1>5, <1>6, <1>8, <2>1, <2>2, CurrentGoesOn
    <3>2. QED
      BY <1>7, <3>1 DEF Lags
  <2>3. CASE /\ counter <= 1 + Fastest + TempCounter
             /\ Former(Falling(pwm), Rising(pwm), Off(pwm), 2)
    <3>1. counter' <= 1 + Fastest + TempCounter'
      BY <1>4, <1>5, <1>6, <2>1, <2>3, PacesAre
    <3>2. QED
      BY <1>7, <2>3, <3>1 DEF Lags
  <2>4. QED
    BY <2>1, <2>2, <2>3 DEF Lags
<1>10. /\ at' # "restart" => counter' + 5 <= Full + ticks'
       /\ at' \in {"restart", "show"} => TempCounter' <= 2 + ticks' + Fastest
       /\ at' \in {"keys", "first", "second"} => TempCounter' <= 2 + ticks'
  BY <1>2, <1>3, <1>4, <1>5, <1>6, PacesAre
<1>11. at' \in {"restart", "show"} => AllNear'
  BY <1>2 DEF RainbowIInv, AllNear
<1>12. at' \in {"keys", "first", "second"} => Lags'
  BY <1>2, <1>9 DEF RainbowIInv
<1>13. at' = "second" => /\ Full <= Falling(val)' + counter'
                         /\ Falling(val)' + counter' <= Full + ticks'
  <2>1. SUFFICES ASSUME at = "second"
                 PROVE  /\ Full <= Falling(val) + counter'
                        /\ Falling(val) + counter' <= Full + ticks'
    BY <1>2, <1>7
  <2>2. Full <= Falling(val) + counter /\ Falling(val) + counter <= Full + ticks
    BY <2>1 DEF RainbowIInv
  <2>3. counter' = counter + 1
    BY <1>5, <2>1
  <2>4. QED
    BY <1>2, <1>6, <1>8, <2>2, <2>3, PacesAre
<1>14. at' = "restart" =>
         /\ Computed(Falling(val), Rising(val), Off(val))'
         /\ Full <= Rising(val)' + 4 /\ Rising(val)' < Full
         /\ Former(Rising(pwm), Off(pwm), Falling(pwm), TempCounter)'
  <2>1. SUFFICES ASSUME at = "restart"
                 PROVE  /\ Computed(Falling(val), Rising(val), Off(val))
                        /\ Full <= Rising(val) + 4 /\ Rising(val) < Full
                        /\ Former(Rising(pwm), Off(pwm), Falling(pwm), TempCounter')
    BY <1>2, <1>7 DEF Computed, Former
  <2>2. /\ Computed(Falling(val), Rising(val), Off(val))
        /\ Full <= Rising(val) + 4 /\ Rising(val) < Full
        /\ Former(Rising(pwm), Off(pwm), Falling(pwm), TempCounter)
    BY <2>1 DEF RainbowIInv
  <2>3. Former(Rising(pwm), Off(pwm), Falling(pwm), TempCounter')
    BY <1>4, <1>6, <1>8, <2>2, FormerGoesOn
  <2>4. QED
    BY <2>2, <2>3
<1>15. at' = "show" =>
         \/ /\ Computed(Falling(val), Rising(val), Off(val))'
            /\ Rising(val)' + ticks' = counter' /\ Lags'
         \/ /\ Rising(val)' = 1 /\ Full <= Falling(val)' + 4 /\ Falling(val)' < Full
            /\ 1 <= Off(val)' /\ Off(val)' <= 4 + Fastest
            /\ counter' <= 1 + ticks'
            /\ Former(Falling(pwm), Rising(pwm), Off(pwm), TempCounter)'
  <2>1. SUFFICES ASSUME at = "show"
                 PROVE  \/ /\ Computed(Falling(val), Rising(val), Off(val))
                           /\ Rising(val) + ticks' = counter' /\ Lags'
                        \/ /\ Rising(val) = 1 /\ Full <= Falling(val) + 4 /\ Falling(val) < Full
                           /\ 1 <= Off(val) /\ Off(val) <= 4 + Fastest
                           /\ counter' <= 1 + ticks'
                           /\ Former(Falling(pwm), Rising(pwm), Off(pwm), TempCounter')
    BY <1>2, <1>7 DEF Computed, Former
  <2>2. CASE /\ Computed(Falling(val), Rising(val), Off(val))
             /\ Rising(val) + ticks = counter /\ Lags
    <3>1. Lags' /\ counter' = counter + 1
      BY <1>5, <1>9, <2>1, <2>2
    <3>2. Rising(val) + ticks' = counter'
      BY <1>2, <1>6, <1>8, <2>2, <3>1
    <3>3. QED
      BY <2>2, <3>1, <3>2
  <2>3. CASE /\ Rising(val) = 1 /\ Full <= Falling(val) + 4 /\ Falling(val) < Full
             /\ 1 <= Off(val) /\ Off(val) <= 4 + Fastest
             /\ counter <= 1 + ticks
             /\ Former(Falling(pwm), Rising(pwm), Off(pwm), TempCounter)
    <3>1. Former(Falling(pwm), Rising(pwm), Off(pwm), TempCounter')
      BY <1>4, <1>6, <1>8, <2>3, FormerGoesOn
    <3>2. counter' <= 1 + ticks'
      BY <1>2, <1>5, <1>6, <2>1, <2>3
    <3>3. QED
      BY <2>3, <3>1, <3>2
  <2>4. QED
    BY <2>1, <2>2, <2>3 DEF RainbowIInv
<1>16. QED
  BY <1>10, <1>11, <1>12, <1>13, <1>14, <1>15 DEF RainbowIInv
LEMMA FadesFade ==
  ASSUME RainbowTypeOK, RainbowIInv, Fade
  PROVE  RainbowIInv'
<1>1. /\ counter \in 1..Full - 1 /\ ticks \in 0..Fastest
      /\ state \in {"RB", "BY", "YR"} /\ val \in Rgb /\ pwm \in Rgb
  BY RainbowTyped
<1>2. /\ at = "first" /\ at' = "second" /\ counter' = counter /\ TempCounter' = TempCounter
      /\ state' = state /\ pwm' = pwm /\ ticks' = ticks
      /\ val' = CASE state = "RB" -> [val EXCEPT !.red = Full - counter]
                  [] state = "BY" -> [val EXCEPT !.blue = Full - counter]
                  [] state = "YR" -> [val EXCEPT !.green = Full - counter]
  BY DEF Fade
<1>3. counter + 5 <= Full + ticks /\ TempCounter <= 2 + ticks /\ Lags
  BY <1>2 DEF RainbowIInv
<1>4. Lags'
  BY <1>2, <1>3 DEF Lags, Falling, Rising, Off
<1>5. Falling(val)' = Full - counter
  <2>1. CASE state = "RB"
    <3>1. val' = [val EXCEPT !.red = Full - counter]
      BY <1>2, <2>1
    <3>2. val'.red = Full - counter
      BY <1>1, <3>1 DEF Rgb
    <3>3. QED
      BY <1>2, <2>1, <3>2 DEF Falling
  <2>2. CASE state = "BY"
    <3>1. val' = [val EXCEPT !.blue = Full - counter]
      BY <1>2, <2>2
    <3>2. val'.blue = Full - counter
      BY <1>1, <3>1 DEF Rgb
    <3>3. QED
      BY <1>2, <2>2, <3>2 DEF Falling
  <2>3. CASE state = "YR"
    <3>1. val' = [val EXCEPT !.green = Full - counter]
      BY <1>2, <2>3
    <3>2. val'.green = Full - counter
      BY <1>1, <3>1 DEF Rgb
    <3>3. QED
      BY <1>2, <2>3, <3>2 DEF Falling
  <2>4. QED
    BY <1>1, <2>1, <2>2, <2>3
<1>6. Full <= Falling(val)' + counter' /\ Falling(val)' + counter' <= Full + ticks'
  BY <1>1, <1>2, <1>5, PacesAre
<1>7. QED
  BY <1>2, <1>3, <1>4, <1>6 DEF RainbowIInv

LEMMA FadesRaise ==
  ASSUME RainbowTypeOK, RainbowIInv, Raise
  PROVE  RainbowIInv'
<1>1. /\ counter \in 1..Full - 1 /\ ticks \in 0..Fastest /\ TempCounter \in 0..255
      /\ state \in {"RB", "BY", "YR"} /\ val \in Rgb /\ pwm \in Rgb
  BY RainbowTyped
<1>2. /\ at = "second" /\ counter' = counter /\ TempCounter' = TempCounter
      /\ state' = state /\ pwm' = pwm /\ ticks' = 0 /\ val' = Risen
      /\ at' = IF counter > Full - 5 THEN "restart" ELSE "show"
  BY DEF Raise
<1>3. /\ counter + 5 <= Full + ticks /\ TempCounter <= 2 + ticks /\ Lags
      /\ Full <= Falling(val) + counter /\ Falling(val) + counter <= Full + ticks
  BY <1>2 DEF RainbowIInv
<1>4. /\ Falling(val) \in Nat /\ Falling(pwm) \in Nat /\ Rising(pwm) \in Nat /\ Off(pwm) \in Nat
  BY <1>1, ColoursTyped
<1>5. /\ counter \in Nat /\ TempCounter \in Nat /\ ticks \in Nat /\ 1 <= counter
      /\ counter < Full /\ ticks <= Fastest
  BY <1>1, PacesAre
<1>6. Rising(val)' = counter /\ Off(val)' = 1 /\ Falling(val)' = Falling(val)
  <2>1. CASE state = "RB"
    <3>1. val' = [val EXCEPT !.blue = counter, !.green = 1]
      BY <1>2, <2>1 DEF Risen
    <3>2. val'.blue = counter /\ val'.green = 1 /\ val'.red = val.red
      BY <1>1, <3>1 DEF Rgb
    <3>3. QED
      BY <1>2, <2>1, <3>2 DEF Falling, Rising, Off
  <2>2. CASE state = "BY"
    <3>1. val' = [val EXCEPT !.green = counter, !.red = 1]
      BY <1>2, <2>2 DEF Risen
    <3>2. val'.green = counter /\ val'.red = 1 /\ val'.blue = val.blue
      BY <1>1, <3>1 DEF Rgb
    <3>3. QED
      BY <1>2, <2>2, <3>2 DEF Falling, Rising, Off
  <2>3. CASE state = "YR"
    <3>1. val' = [val EXCEPT !.red = counter, !.blue = 1]
      BY <1>2, <2>3 DEF Risen
    <3>2. val'.red = counter /\ val'.blue = 1 /\ val'.green = val.green
      BY <1>1, <3>1 DEF Rgb
    <3>3. QED
      BY <1>2, <2>3, <3>2 DEF Falling, Rising, Off
  <2>4. QED
    BY <1>1, <2>1, <2>2, <2>3
<1>7. Falling(pwm)' = Falling(pwm) /\ Rising(pwm)' = Rising(pwm) /\ Off(pwm)' = Off(pwm)
  BY <1>2 DEF Falling, Rising, Off
<1>8. /\ Near(Falling(pwm), Falling(val)) /\ Near(Rising(pwm), counter) /\ Near(Off(pwm), 1)
  <2>1. CASE Current(Falling(pwm), Rising(pwm), Off(pwm), counter, TempCounter)
    BY <1>1, <1>3, <1>4, <1>5, <2>1, CurrentIsNear
  <2>2. CASE /\ counter <= 1 + Fastest + TempCounter
             /\ Former(Falling(pwm), Rising(pwm), Off(pwm), 2)
    BY <1>1, <1>3, <1>4, <1>5, <2>2, FormerIsNear
  <2>3. QED
    BY <1>3, <2>1, <2>2 DEF Lags
<1>9. AllNear'
  <2>1. Near(Falling(pwm), Falling(val))' /\ Near(Rising(pwm), Rising(val))' /\ Near(Off(pwm), Off(val))'
    BY <1>6, <1>7, <1>8 DEF Near
  <2>2. state' \in {"RB", "BY", "YR"}
    BY <1>1, <1>2
  <2>3. QED
    BY <2>1, <2>2 DEF AllNear, Falling, Rising, Off
<1>10. TempCounter' <= 2 + ticks' + Fastest
  BY <1>2, <1>3, <1>5, PacesAre
<1>11. Computed(Falling(val), Rising(val), Off(val))'
  <2>1. Computed(Falling(val), counter, 1)
    BY <1>3, <1>4, <1>5, PacesAre DEF Computed
  <2>2. QED
    BY <1>6, <2>1 DEF Computed
<1>12. CASE counter > Full - 5
  <2>1. at' = "restart"
    BY <1>2, <1>12
  <2>2. Full <= Rising(val)' + 4 /\ Rising(val)' < Full
    BY <1>5, <1>6, <1>12, PacesAre
  <2>3. Current(Falling(pwm), Rising(pwm), Off(pwm), counter, TempCounter)
    <3>1. ~(counter <= 1 + Fastest + TempCounter)
      BY <1>3, <1>5, <1>12, PacesAre
    <3>2. QED
      BY <1>3, <3>1 DEF Lags
  <2>4. Former(Rising(pwm), Off(pwm), Falling(pwm), TempCounter)
    <3>1. Falling(pwm) <= Full
      BY <1>1, ColoursTyped
    <3>2. QED
      BY <1>3, <1>4, <1>5, <1>12, <2>3, <3>1, PacesAre DEF Current, Former
  <2>5. Former(Rising(pwm), Off(pwm), Falling(pwm), TempCounter)'
    BY <1>2, <1>7, <2>4 DEF Former
  <2>6. QED
    BY <1>9, <1>10, <1>11, <2>1, <2>2, <2>5 DEF RainbowIInv
<1>13. CASE ~(counter > Full - 5)
  <2>1. at' = "show"
    BY <1>2, <1>13
  <2>2. counter' + 5 <= Full + ticks'
    BY <1>2, <1>5, <1>13, PacesAre
  <2>3. Rising(val)' + ticks' = counter'
    BY <1>2, <1>5, <1>6
  <2>4. Lags'
    BY <1>2, <1>3 DEF Lags, Falling, Rising, Off
  <2>5. QED
    BY <1>9, <1>10, <1>11, <2>1, <2>2, <2>3, <2>4 DEF RainbowIInv
<1>14. QED
  BY <1>12, <1>13

LEMMA FadesRestart ==
  ASSUME RainbowTypeOK, RainbowIInv, Restart
  PROVE  RainbowIInv'
<1>1. /\ ticks \in 0..Fastest /\ TempCounter \in 0..255
      /\ state \in {"RB", "BY", "YR"} /\ val \in Rgb /\ pwm \in Rgb
  BY RainbowTyped
<1>2. /\ at = "restart" /\ at' = "show" /\ counter' = 1 /\ TempCounter' = TempCounter
      /\ val' = val /\ pwm' = pwm /\ ticks' = ticks
      /\ state' = CASE state = "RB" -> "BY" [] state = "BY" -> "YR" [] state = "YR" -> "RB"
  BY DEF Restart
<1>3. /\ TempCounter <= 2 + ticks + Fastest /\ AllNear
      /\ Computed(Falling(val), Rising(val), Off(val))
      /\ Full <= Rising(val) + 4 /\ Rising(val) < Full
      /\ Former(Rising(pwm), Off(pwm), Falling(pwm), TempCounter)
  BY <1>2 DEF RainbowIInv
<1>4. Falling(val) \in Nat /\ Rising(val) \in Nat /\ Off(val) \in Nat
  BY <1>1, ColoursTyped
<1>5. /\ Falling(val)' = Rising(val) /\ Off(val)' = Falling(val) /\ Rising(val)' = Off(val)
      /\ Falling(pwm)' = Rising(pwm) /\ Off(pwm)' = Falling(pwm) /\ Rising(pwm)' = Off(pwm)
  BY <1>1, <1>2 DEF Falling, Rising, Off
<1>6. /\ Off(val) = 1 /\ 1 <= Falling(val) /\ Falling(val) <= 4 + Fastest
  BY <1>3, <1>4, PacesAre DEF Computed
<1>7. counter' + 5 <= Full + ticks' /\ counter' <= 1 + ticks'
  BY <1>1, <1>2, PacesAre
<1>8. AllNear'
  BY <1>2, <1>3 DEF AllNear
<1>9. Former(Falling(pwm), Rising(pwm), Off(pwm), TempCounter)'
  BY <1>2, <1>3, <1>5 DEF Former
<1>10. /\ Rising(val)' = 1 /\ Full <= Falling(val)' + 4 /\ Falling(val)' < Full
       /\ 1 <= Off(val)' /\ Off(val)' <= 4 + Fastest
  BY <1>3, <1>5, <1>6
<1>11. TempCounter' <= 2 + ticks' + Fastest
  BY <1>2, <1>3
<1>12. QED
  BY <1>2, <1>7, <1>8, <1>9, <1>10, <1>11 DEF RainbowIInv

LEMMA FadesShow ==
  ASSUME RainbowTypeOK, RainbowIInv, Show
  PROVE  RainbowIInv'
<1>1. /\ counter \in 1..Full - 1 /\ ticks \in 0..Fastest /\ TempCounter \in 0..255
      /\ state \in {"RB", "BY", "YR"} /\ val \in Rgb /\ pwm \in Rgb
  BY RainbowTyped
<1>2. /\ at = "show" /\ at' = "keys" /\ counter' = counter /\ state' = state /\ val' = val
      /\ ticks' = ticks
      /\ IF TempCounter > 2 THEN TempCounter' = 0 /\ pwm' = val
                            ELSE TempCounter' = TempCounter /\ pwm' = pwm
  BY DEF Show
<1>3. counter + 5 <= Full + ticks
  BY <1>2 DEF RainbowIInv
<1>4. /\ Falling(val) \in Nat /\ Rising(val) \in Nat /\ Off(val) \in Nat
      /\ Falling(pwm) \in Nat /\ Rising(pwm) \in Nat /\ Off(pwm) \in Nat
  BY <1>1, ColoursTyped
<1>5. counter \in Nat /\ TempCounter \in Nat /\ ticks \in Nat /\ ticks <= Fastest
  BY <1>1, PacesAre
<1>6. TempCounter' <= 2 + ticks'
  BY <1>2, <1>5
<1>7. Lags'
  <2>1. CASE /\ Computed(Falling(val), Rising(val), Off(val))
             /\ Rising(val) + ticks = counter /\ Lags
    <3>1. CASE TempCounter > 2
      <4>1. Current(Falling(val), Rising(val), Off(val), counter, 0)
        BY <1>4, <1>5, <2>1, PacesAre DEF Computed, Current
      <4>2. /\ Falling(pwm)' = Falling(val) /\ Rising(pwm)' = Rising(val)
            /\ Off(pwm)' = Off(val) /\ TempCounter' = 0
        BY <1>2, <3>1 DEF Falling, Rising, Off
      <4>3. QED
        BY <1>2, <4>1, <4>2 DEF Lags
    <3>2. CASE ~(TempCounter > 2)
      BY <1>2, <2>1, <3>2 DEF Lags, Falling, Rising, Off
    <3>3. QED
      BY <3>1, <3>2
  <2>2. CASE /\ Rising(val) = 1 /\ Full <= Falling(val) + 4 /\ Falling(val) < Full
             /\ 1 <= Off(val) /\ Off(val) <= 4 + Fastest
             /\ counter <= 1 + ticks
             /\ Former(Falling(pwm), Rising(pwm), Off(pwm), TempCounter)
    <3>1. CASE TempCounter > 2
      <4>1. Former(Falling(val), Rising(val), Off(val), 2)
        BY <1>4, <2>2, PacesAre DEF Former
      <4>2. /\ Falling(pwm)' = Falling(val) /\ Rising(pwm)' = Rising(val)
            /\ Off(pwm)' = Off(val) /\ TempCounter' = 0
        BY <1>2, <3>1 DEF Falling, Rising, Off
      <4>3. counter' <= 1 + Fastest + TempCounter'
        BY <1>2, <1>5, <2>2, <4>2, PacesAre
      <4>4. QED
        BY <4>1, <4>2, <4>3 DEF Lags
    <3>2. CASE ~(TempCounter > 2)
      <4>1. Former(Falling(pwm), Rising(pwm), Off(pwm), 2)
        <5>1. TempCounter <= 2 /\ 2 \in Nat
          BY <1>5, <3>2
        <5>2. QED
          BY <1>4, <1>5, <2>2, <5>1, FormerGoesOn
      <4>2. /\ Falling(pwm)' = Falling(pwm) /\ Rising(pwm)' = Rising(pwm)
            /\ Off(pwm)' = Off(pwm) /\ TempCounter' = TempCounter
        BY <1>2, <3>2 DEF Falling, Rising, Off
      <4>3. counter' <= 1 + Fastest + TempCounter'
        BY <1>2, <1>5, <2>2, <4>2, PacesAre
      <4>4. QED
        BY <4>1, <4>2, <4>3 DEF Lags
    <3>3. QED
      BY <3>1, <3>2
  <2>3. QED
    BY <1>2, <2>1, <2>2 DEF RainbowIInv
<1>8. QED
  BY <1>2, <1>3, <1>6, <1>7 DEF RainbowIInv

LEMMA FadesKeys ==
  ASSUME RainbowIInv, Keys
  PROVE  RainbowIInv'
<1>1. /\ at = "keys" /\ at' = "first" /\ counter' = counter /\ TempCounter' = TempCounter
      /\ state' = state /\ val' = val /\ pwm' = pwm /\ ticks' = ticks
  BY DEF Keys
<1>2. counter + 5 <= Full + ticks /\ TempCounter <= 2 + ticks /\ Lags
  BY <1>1 DEF RainbowIInv
<1>3. Lags'
  BY <1>1, <1>2 DEF Lags, Falling, Rising, Off
<1>4. QED
  BY <1>1, <1>2, <1>3 DEF RainbowIInv

LEMMA InitFades == Init => RainbowIInv
<1>1. SUFFICES ASSUME Init PROVE RainbowIInv
  OBVIOUS
<1>2. /\ at = "first" /\ counter = 1 /\ TempCounter = 1 /\ state = "RB"
      /\ pwm = Colour(Full, 0, 0) /\ ticks = 0
  BY <1>1 DEF Init, RainbowInit
<1>3. Falling(pwm) = Full /\ Rising(pwm) = 0 /\ Off(pwm) = 0
  BY <1>2 DEF Colour, Falling, Rising, Off
<1>4. Current(Full, 0, 0, 1, 1)
  BY PacesAre DEF Current
<1>5. 1 + 5 <= Full + 0 /\ 1 <= 2 + 0
  BY PacesAre
<1>6. QED
  BY <1>2, <1>3, <1>4, <1>5 DEF RainbowIInv, Lags

LEMMA NextFades == RainbowTypeOK /\ RainbowIInv /\ [Next]_vars => RainbowIInv'
<1>1. SUFFICES ASSUME RainbowTypeOK, RainbowIInv, [Next]_vars PROVE RainbowIInv'
  OBVIOUS
<1>2. CASE UNCHANGED rainbow
  BY <1>1, <1>2 DEF rainbow, RainbowIInv, AllNear, Lags, Falling, Rising, Off
<1>3. CASE RainbowNext
  BY <1>1, <1>3, FadesTick, FadesFade, FadesRaise, FadesRestart, FadesShow, FadesKeys
  DEF RainbowNext
<1>4. QED
  BY <1>1, <1>2, <1>3, StepIs DEF TimedMoves

\* The inductive invariant of Lab3P1A.c.
THEOREM RainbowInvariance == Spec => []RainbowIInv
<1>1. QED
  BY InitFades, NextFades, RainbowTypeCorrect, PTL DEF Spec

\* No colour of Lab3P1A.c ever jumps, for any brightness range and any pace of the
\* timer that brings no more than four ticks per pass of main: the restart of the
\* counter, whenever main sees it due, falls where both pairs of colours agree.
THEOREM ColoursFade == Spec => FadesSmoothly
<1>1. RainbowTypeOK /\ RainbowIInv /\ [Next]_vars =>
        [pwm = pwm' \/ \A c \in {"red", "green", "blue"} : Near(pwm[c], pwm'[c])]_pwm
  <2>1. SUFFICES ASSUME RainbowTypeOK, RainbowIInv, [Next]_vars, pwm' # pwm
                 PROVE  \A c \in {"red", "green", "blue"} : Near(pwm[c], pwm'[c])
    OBVIOUS
  <2>2. Show
    BY <2>1, StepIs DEF TimedMoves, rainbow, RainbowNext, Tick, Fade, Raise, Restart, Keys
  <2>3. at = "show" /\ pwm' = val
    BY <2>1, <2>2 DEF Show
  <2>4. Near(pwm.red, val.red) /\ Near(pwm.green, val.green) /\ Near(pwm.blue, val.blue)
    BY <2>1, <2>3 DEF RainbowIInv, AllNear
  <2>5. QED
    BY <2>3, <2>4
<1>2. QED
  BY <1>1, RainbowInvariance, RainbowTypeCorrect, PTL DEF Spec, FadesSmoothly

(* lab3P1B.c: the lamp.                                                    *)

Lamps == [at : {"show", "release", "reset", "clear"}, mode : 0..3, fading : 0..5,
          out : SUBSET Leds, light : [Leds -> 1..High], speed : SpeedLow..SpeedHigh]
FlagSets == [timer2 : BOOLEAN, check : BOOLEAN, held : [Keys12 -> BOOLEAN],
             long : BOOLEAN, count : 0..255]

LEMMA LampTyped ==
  LampTypeOK <=> /\ lamp \in Lamps /\ flags \in FlagSets
                 /\ debouncer \in [Keys12 -> {"Idle", "Press", "Release"}]
                 /\ timer1 \in 0..LongPress /\ late \in BOOLEAN
BY DEF LampTypeOK, Lamps, FlagSets

LEMMA LimitsAre ==
  /\ High \in Nat /\ LongPress \in Nat /\ SpeedLow \in Nat /\ SpeedHigh \in Nat
  /\ High > 2 /\ LongPress > 0 /\ SpeedLow < SpeedHigh
BY LampAssumption

LEMMA InitLamp == Init => LampTypeOK /\ FadeIInv /\ CountIInv
<1>1. SUFFICES ASSUME Init PROVE LampTypeOK /\ FadeIInv /\ CountIInv
  OBVIOUS
<1>2. /\ lamp = [at |-> "show", mode |-> 0, fading |-> 0, out |-> Leds,
                 light |-> [c \in Leds |-> 2], speed |-> SpeedLow]
      /\ flags = [timer2 |-> FALSE, check |-> FALSE, held |-> [k \in Keys12 |-> FALSE],
                  long |-> FALSE, count |-> 0]
      /\ debouncer = [k \in Keys12 |-> "Idle"]
      /\ timer1 = 0 /\ late = FALSE
  BY <1>1 DEF Init, LampInit
<1>3. [c \in Leds |-> 2] \in [Leds -> 1..High]
  BY LimitsAre
<1>4. SpeedLow \in SpeedLow..SpeedHigh /\ 0 \in 0..LongPress
  BY LimitsAre
<1>5. lamp \in Lamps
  BY <1>2, <1>3, <1>4 DEF Lamps
<1>6. flags \in FlagSets
  <2>1. [k \in Keys12 |-> FALSE] \in [Keys12 -> BOOLEAN]
    OBVIOUS
  <2>2. QED
    BY <1>2, <2>1 DEF FlagSets
<1>7. LampTypeOK
  BY <1>2, <1>4, <1>5, <1>6, LampTyped
<1>8. FadeIInv
  <2>1. lamp.fading = 0 /\ lamp.light = [c \in Leds |-> 2]
    BY <1>2
  <2>2. lamp.light["red"] = 2 /\ lamp.light["green"] = 2 /\ lamp.light["blue"] = 2
    BY <2>1 DEF Leds
  <2>3. QED
    BY <2>1, <2>2, LimitsAre DEF FadeIInv
<1>9. CountIInv
  BY <1>2 DEF CountIInv
<1>10. QED
  BY <1>7, <1>8, <1>9

\* The handler of button 1 counts a press only while a long press is under way.
LEMMA KeyPress1 ==
  ASSUME NEW f \in FlagSets, NEW closed \in BOOLEAN
  PROVE  /\ detectKeyPress_1(f, closed) \in FlagSets
         /\ detectKeyPress_1(f, closed).long = f.long
         /\ ~f.long => detectKeyPress_1(f, closed).count = f.count
<1> DEFINE n == IF f.long THEN (f.count + 1) % 256 ELSE f.count
           down == [f.held EXCEPT ![1] = TRUE]
           up == [f.held EXCEPT ![1] = FALSE]
<1>1. f.held \in [Keys12 -> BOOLEAN] /\ f.count \in 0..255 /\ f.long \in BOOLEAN
  BY DEF FlagSets
<1>2. n \in 0..255 /\ (~f.long => n = f.count)
  BY <1>1
<1>3. down \in [Keys12 -> BOOLEAN] /\ up \in [Keys12 -> BOOLEAN]
  BY <1>1
<1>4. \/ detectKeyPress_1(f, closed) = [f EXCEPT !.held = down, !.count = n]
      \/ detectKeyPress_1(f, closed) = [f EXCEPT !.held = up]
      \/ detectKeyPress_1(f, closed) = f
  BY DEF detectKeyPress_1
<1> HIDE DEF n, down, up
<1>5. QED
  BY <1>2, <1>3, <1>4 DEF FlagSets

LEMMA KeyPress2 ==
  ASSUME NEW f \in FlagSets, NEW closed \in BOOLEAN, timer1 \in 0..LongPress, timer1 # 1,
         detectKeyPress_2(f, closed)
  PROVE  /\ flags' \in FlagSets /\ timer1' \in 0..LongPress
         /\ flags'.long = f.long /\ flags'.count = f.count
<1> DEFINE down == [f.held EXCEPT ![2] = TRUE]
           up == [f.held EXCEPT ![2] = FALSE]
<1>1. f.held \in [Keys12 -> BOOLEAN]
  BY DEF FlagSets
<1>2. down \in [Keys12 -> BOOLEAN] /\ up \in [Keys12 -> BOOLEAN]
  BY <1>1
<1>3. /\ \/ flags' = [f EXCEPT !.held = down]
         \/ flags' = [f EXCEPT !.held = up]
         \/ flags' = f
      /\ \/ timer1' = LongPress \/ timer1' = 0
         \/ timer1' = IF timer1 > 1 THEN timer1 - 1 ELSE timer1
  BY DEF detectKeyPress_2
<1> HIDE DEF down, up
<1>4. timer1' \in 0..LongPress
  BY <1>3, LimitsAre
<1>5. QED
  BY <1>2, <1>3, <1>4 DEF FlagSets

LEMMA NextStateTyped ==
  ASSUME debouncer \in [Keys12 -> {"Idle", "Press", "Release"}], NEW k \in Keys12, NEW closed
  PROVE  NextState(k, closed) \in {"Idle", "Press", "Release"}
<1>1. debouncer[k] \in {"Idle", "Press", "Release"}
  OBVIOUS
<1>2. QED
  BY <1>1 DEF NextState

LEMMA LampTimer0Is ==
  ASSUME LampTypeOK, LampTimer0
  PROVE  /\ flags' \in FlagSets /\ timer1' \in 0..LongPress /\ late' \in BOOLEAN /\ lamp' = lamp
         /\ debouncer' \in [Keys12 -> {"Idle", "Press", "Release"}]
         /\ flags'.long = flags.long
         /\ ~flags.long => flags'.count = flags.count
         /\ late => late'
         /\ lamp.at = "clear" /\ ~late' => flags'.count = flags.count
<1>1. /\ flags \in FlagSets /\ debouncer \in [Keys12 -> {"Idle", "Press", "Release"}]
      /\ timer1 \in 0..LongPress /\ late \in BOOLEAN
  BY LampTyped
<1>2. PICK one \in BOOLEAN, two \in BOOLEAN :
        /\ detectKeyPress_2(detectKeyPress_1([flags EXCEPT !.check = TRUE], one), two)
        /\ debouncer' = [k \in Keys12 |-> NextState(k, IF k = 1 THEN one ELSE two)]
  BY DEF LampTimer0
<1> DEFINE f == [flags EXCEPT !.check = TRUE]
           g == detectKeyPress_1(f, one)
<1>3. f \in FlagSets /\ f.long = flags.long /\ f.count = flags.count
  BY <1>1 DEF FlagSets
<1>4. detectKeyPress_2(g, two)
  BY <1>2
<1> HIDE DEF f
<1>5. g \in FlagSets /\ g.long = f.long /\ (~f.long => g.count = f.count)
  BY <1>3, KeyPress1
<1> HIDE DEF g
<1>6. /\ flags' \in FlagSets /\ timer1' \in 0..LongPress
      /\ flags'.long = g.long /\ flags'.count = g.count
  <2>1. timer1 # 1
    BY DEF LampTimer0
  <2>2. QED
    BY <1>1, <1>4, <1>5, <2>1, KeyPress2
<1>7. debouncer' \in [Keys12 -> {"Idle", "Press", "Release"}]
  BY <1>1, <1>2, NextStateTyped
<1>8. late' = (late \/ (lamp.at = "clear" /\ flags'.count # flags.count)) /\ lamp' = lamp
  BY DEF LampTimer0
<1>9. /\ late' \in BOOLEAN /\ (late => late')
      /\ lamp.at = "clear" /\ ~late' => flags'.count = flags.count
  BY <1>8, Zenon
<1>10. QED
  BY <1>3, <1>5, <1>6, <1>7, <1>8, <1>9
\* A step of a fade, of the colour it is about.
LEMMA FadeStep ==
  ASSUME NEW l \in Lamps, NEW c \in Leds, c = Fading[l.fading + 1],
         NEW up \in BOOLEAN, up <=> l.fading % 2 = 0,
         NEW x \in 1..High, x = IF up THEN l.light[c] + 1 ELSE l.light[c] - 1
  PROVE  LET m == AutoModeProg(l)
         IN  /\ m \in Lamps /\ m.at = l.at /\ m.mode = l.mode
             /\ m.light = [l.light EXCEPT ![c] = x]
             /\ (IF up THEN x >= High ELSE x <= 1) => m.fading = (l.fading + 1) % 6
             /\ ~(IF up THEN x >= High ELSE x <= 1) => m.fading = l.fading
<1> DEFINE m == AutoModeProg(l)
           done == IF up THEN x >= High ELSE x <= 1
           n == IF done THEN (l.fading + 1) % 6 ELSE l.fading
           light == [l.light EXCEPT ![c] = x]
<1>1. l.fading \in 0..5 /\ l.light \in [Leds -> 1..High]
  BY DEF Lamps
<1>2. m = [l EXCEPT !.light = light, !.fading = n]
  BY DEF AutoModeProg
<1>3. n \in 0..5
  BY <1>1
<1>4. light \in [Leds -> 1..High]
  BY <1>1
<1>5. (done => n = (l.fading + 1) % 6) /\ (~done => n = l.fading)
  BY Zenon
<1> HIDE DEF m, n, light, done
<1>6. m \in Lamps /\ m.at = l.at /\ m.mode = l.mode /\ m.light = light /\ m.fading = n
  BY <1>2, <1>3, <1>4 DEF Lamps
<1>7. QED
  BY <1>5, <1>6 DEF m, light, done

\* The lamp with another state of its fade.
FadeAt(mode, fading, r, g, b) ==
  mode = 0 =>
    /\ fading = 0 => r < High
    /\ fading \in {1, 2} => r = High
    /\ fading = 3 => r > 1
    /\ fading \in {4, 5} => r = 1
    /\ fading \in {0, 1} => g > 1
    /\ fading \in {2, 3} => g = 1
    /\ fading = 4 => g < High
    /\ fading = 5 => g = High
    /\ fading \in {0, 1, 2} => b < High
    /\ fading \in {3, 4} => b = High
    /\ fading = 5 => b > 1

FadeOf(l) == FadeAt(l.mode, l.fading, l.light["red"], l.light["green"], l.light["blue"])

LEMMA FadeOfIs == FadeIInv <=> FadeOf(lamp)
BY DEF FadeIInv, FadeOf, FadeAt

LEMMA FadeKeeps ==
  ASSUME NEW l \in Lamps, l.mode = 0, FadeOf(l)
  PROVE  /\ AutoModeProg(l) \in Lamps /\ AutoModeProg(l).at = l.at
         /\ FadeOf(AutoModeProg(l))
<1> DEFINE m == AutoModeProg(l)
<1>1. /\ l.fading \in 0..5 /\ l.light \in [Leds -> 1..High]
      /\ "red" \in Leds /\ "green" \in Leds /\ "blue" \in Leds
  BY DEF Lamps, Leds
<1> DEFINE r == l.light["red"]
           g == l.light["green"]
           b == l.light["blue"]
<1>2. r \in 1..High /\ g \in 1..High /\ b \in 1..High
  BY <1>1
<1>3. FadeAt(0, l.fading, r, g, b)
  BY DEF FadeOf
<1>4. SUFFICES /\ m \in Lamps /\ m.at = l.at /\ m.mode = 0
               /\ FadeAt(0, m.fading, m.light["red"], m.light["green"], m.light["blue"])
  BY DEF FadeOf
<1>5. /\ Fading[1] = "red" /\ Fading[2] = "green" /\ Fading[3] = "blue"
      /\ Fading[4] = "red" /\ Fading[5] = "green" /\ Fading[6] = "blue"
  BY DEF Fading
<1> HIDE DEF m
<1>6. ASSUME NEW c \in Leds, c = Fading[l.fading + 1], NEW up \in BOOLEAN, up <=> l.fading % 2 = 0,
             NEW x \in 1..High, x = IF up THEN l.light[c] + 1 ELSE l.light[c] - 1
      PROVE  /\ m \in Lamps /\ m.at = l.at /\ m.mode = 0
             /\ m.light["red"] = IF c = "red" THEN x ELSE r
             /\ m.light["green"] = IF c = "green" THEN x ELSE g
             /\ m.light["blue"] = IF c = "blue" THEN x ELSE b
             /\ (IF up THEN x >= High ELSE x <= 1) => m.fading = (l.fading + 1) % 6
             /\ ~(IF up THEN x >= High ELSE x <= 1) => m.fading = l.fading
  <2>1. /\ m \in Lamps /\ m.at = l.at /\ m.mode = l.mode
        /\ m.light = [l.light EXCEPT ![c] = x]
        /\ (IF up THEN x >= High ELSE x <= 1) => m.fading = (l.fading + 1) % 6
        /\ ~(IF up THEN x >= High ELSE x <= 1) => m.fading = l.fading
    BY <1>6, FadeStep DEF m
  <2>2. /\ m.light["red"] = IF c = "red" THEN x ELSE r
        /\ m.light["green"] = IF c = "green" THEN x ELSE g
        /\ m.light["blue"] = IF c = "blue" THEN x ELSE b
    BY <1>1, <2>1
  <2>3. QED
    BY <2>1, <2>2
<1> HIDE DEF r, g, b
<1>7. CASE l.fading = 0
  <2>1. r < High /\ g > 1 /\ b < High
    BY <1>3, <1>7 DEF FadeAt
  <2>2. "red" = Fading[l.fading + 1] /\ l.fading % 2 = 0 /\ r + 1 \in 1..High
    BY <1>2, <1>5, <1>7, <2>1, LimitsAre
  <2>3. /\ m \in Lamps /\ m.at = l.at /\ m.mode = 0
        /\ m.light["red"] = r + 1 /\ m.light["green"] = g /\ m.light["blue"] = b
        /\ r + 1 >= High => m.fading = (l.fading + 1) % 6
        /\ ~(r + 1 >= High) => m.fading = l.fading
    BY <1>1, <1>6, <2>2 DEF r
  <2>4. r + 1 >= High => m.fading = 1 /\ r + 1 = High
    BY <1>2, <1>7, <2>1, <2>3, LimitsAre
  <2>5. ~(r + 1 >= High) => m.fading = 0 /\ r + 1 < High
    BY <1>2, <1>7, <2>3, LimitsAre
  <2>6. QED
    BY <2>1, <2>3, <2>4, <2>5 DEF FadeAt
<1>8. CASE l.fading = 1
  <2>1. r = High /\ g > 1 /\ b < High
    BY <1>3, <1>8 DEF FadeAt
  <2>2. "green" = Fading[l.fading + 1] /\ ~(l.fading % 2 = 0) /\ g - 1 \in 1..High
    BY <1>2, <1>5, <1>8, <2>1, LimitsAre
  <2>3. /\ m \in Lamps /\ m.at = l.at /\ m.mode = 0
        /\ m.light["red"] = r /\ m.light["green"] = g - 1 /\ m.light["blue"] = b
        /\ g - 1 <= 1 => m.fading = (l.fading + 1) % 6
        /\ ~(g - 1 <= 1) => m.fading = l.fading
    BY <1>1, <1>6, <2>2 DEF g
  <2>4. g - 1 <= 1 => m.fading = 2 /\ g - 1 = 1
    BY <1>2, <1>8, <2>1, <2>3, LimitsAre
  <2>5. ~(g - 1 <= 1) => m.fading = 1 /\ g - 1 > 1
    BY <1>2, <1>8, <2>3, LimitsAre
  <2>6. QED
    BY <2>1, <2>3, <2>4, <2>5 DEF FadeAt
<1>9. CASE l.fading = 2
  <2>1. r = High /\ g = 1 /\ b < High
    BY <1>3, <1>9 DEF FadeAt
  <2>2. "blue" = Fading[l.fading + 1] /\ l.fading % 2 = 0 /\ b + 1 \in 1..High
    BY <1>2, <1>5, <1>9, <2>1, LimitsAre
  <2>3. /\ m \in Lamps /\ m.at = l.at /\ m.mode = 0
        /\ m.light["red"] = r /\ m.light["green"] = g /\ m.light["blue"] = b + 1
        /\ b + 1 >= High => m.fading = (l.fading + 1) % 6
        /\ ~(b + 1 >= High) => m.fading = l.fading
    BY <1>1, <1>6, <2>2 DEF b
  <2>4. b + 1 >= High => m.fading = 3 /\ b + 1 = High
    BY <1>2, <1>9, <2>1, <2>3, LimitsAre
  <2>5. ~(b + 1 >= High) => m.fading = 2 /\ b + 1 < High
    BY <1>2, <1>9, <2>3, LimitsAre
  <2>6. r > 1
    BY <2>1, LimitsAre
  <2>7. QED
    BY <2>1, <2>3, <2>4, <2>5, <2>6 DEF FadeAt
<1>10. CASE l.fading = 3
  <2>1. r > 1 /\ g = 1 /\ b = High
    BY <1>3, <1>10 DEF FadeAt
  <2>2. "red" = Fading[l.fading + 1] /\ ~(l.fading % 2 = 0) /\ r - 1 \in 1..High
    BY <1>2, <1>5, <1>10, <2>1, LimitsAre
  <2>3. /\ m \in Lamps /\ m.at = l.at /\ m.mode = 0
        /\ m.light["red"] = r - 1 /\ m.light["green"] = g /\ m.light["blue"] = b
        /\ r - 1 <= 1 => m.fading = (l.fading + 1) % 6
        /\ ~(r - 1 <= 1) => m.fading = l.fading
    BY <1>1, <1>6, <2>2 DEF r
  <2>4. r - 1 <= 1 => m.fading = 4 /\ r - 1 = 1
    BY <1>2, <1>10, <2>1, <2>3, LimitsAre
  <2>5. ~(r - 1 <= 1) => m.fading = 3 /\ r - 1 > 1
    BY <1>2, <1>10, <2>3, LimitsAre
  <2>6. g < High
    BY <2>1, LimitsAre
  <2>7. QED
    BY <2>1, <2>3, <2>4, <2>5, <2>6 DEF FadeAt
<1>11. CASE l.fading = 4
  <2>1. r = 1 /\ g < High /\ b = High
    BY <1>3, <1>11 DEF FadeAt
  <2>2. "green" = Fading[l.fading + 1] /\ l.fading % 2 = 0 /\ g + 1 \in 1..High
    BY <1>2, <1>5, <1>11, <2>1, LimitsAre
  <2>3. /\ m \in Lamps /\ m.at = l.at /\ m.mode = 0
        /\ m.light["red"] = r /\ m.light["green"] = g + 1 /\ m.light["blue"] = b
        /\ g + 1 >= High => m.fading = (l.fading + 1) % 6
        /\ ~(g + 1 >= High) => m.fading = l.fading
    BY <1>1, <1>6, <2>2 DEF g
  <2>4. g + 1 >= High => m.fading = 5 /\ g + 1 = High
    BY <1>2, <1>11, <2>1, <2>3, LimitsAre
  <2>5. ~(g + 1 >= High) => m.fading = 4 /\ g + 1 < High
    BY <1>2, <1>11, <2>3, LimitsAre
  <2>6. b > 1
    BY <2>1, LimitsAre
  <2>7. QED
    BY <2>1, <2>3, <2>4, <2>5, <2>6 DEF FadeAt
<1>12. CASE l.fading = 5
  <2>1. r = 1 /\ g = High /\ b > 1
    BY <1>3, <1>12 DEF FadeAt
  <2>2. "blue" = Fading[l.fading + 1] /\ ~(l.fading % 2 = 0) /\ b - 1 \in 1..High
    BY <1>2, <1>5, <1>12, <2>1, LimitsAre
  <2>3. /\ m \in Lamps /\ m.at = l.at /\ m.mode = 0
        /\ m.light["red"] = r /\ m.light["green"] = g /\ m.light["blue"] = b - 1
        /\ b - 1 <= 1 => m.fading = (l.fading + 1) % 6
        /\ ~(b - 1 <= 1) => m.fading = l.fading
    BY <1>1, <1>6, <2>2 DEF b
  <2>4. b - 1 <= 1 => m.fading = 0 /\ b - 1 = 1
    BY <1>2, <1>12, <2>1, <2>3, LimitsAre
  <2>5. ~(b - 1 <= 1) => m.fading = 5 /\ b - 1 > 1
    BY <1>2, <1>12, <2>3, LimitsAre
  <2>6. 1 < High /\ g > 1
    BY <2>1, LimitsAre
  <2>7. QED
    BY <2>1, <2>3, <2>4, <2>5, <2>6 DEF FadeAt
<1>13. QED
  BY <1>1, <1>7, <1>8, <1>9, <1>10, <1>11, <1>12
\* The buttons in the automatic mode.
LEMMA AutoKeys ==
  ASSUME NEW l \in Lamps
  PROVE  /\ AutoModeKeyFunc(l) \in Lamps /\ AutoModeKeyFunc(l).at = l.at
         /\ AutoModeKeyFunc(l).mode = l.mode
         /\ AutoModeKeyFunc(l).fading = l.fading /\ AutoModeKeyFunc(l).light = l.light
<1> DEFINE x == IF flags.held[1] THEN Within(l.speed - 1, SpeedLow, SpeedHigh) ELSE l.speed
           y == IF flags.held[2] THEN Within(x + 1, SpeedLow, SpeedHigh) ELSE x
<1>1. l.speed \in SpeedLow..SpeedHigh
  BY DEF Lamps
<1>2. \A n \in Int : Within(n, SpeedLow, SpeedHigh) \in SpeedLow..SpeedHigh
  BY LimitsAre DEF Within
<1>3. x \in SpeedLow..SpeedHigh
  <2>1. l.speed - 1 \in Int
    BY <1>1, LimitsAre
  <2>2. QED
    BY <1>1, <1>2, <2>1
<1>4. AutoModeKeyFunc(l) = [l EXCEPT !.speed = y]
  BY Zenon DEF AutoModeKeyFunc
<1> HIDE DEF x
<1>5. y \in SpeedLow..SpeedHigh
  <2>1. x + 1 \in Int
    BY <1>3, LimitsAre
  <2>2. QED
    BY <1>2, <1>3, <2>1
<1> HIDE DEF y
<1>6. QED
  BY <1>4, <1>5 DEF Lamps

\* The buttons in a manual mode.
LEMMA ModeKeys ==
  ASSUME NEW l \in Lamps, NEW c \in Leds
  PROVE  /\ ModeKeyFunc(l, c) \in Lamps /\ ModeKeyFunc(l, c).at = l.at
         /\ ModeKeyFunc(l, c).mode = l.mode
<1> DEFINE up == IF l.light[c] + 1 >= High THEN High ELSE l.light[c] + 1
           x == IF flags.held[1] THEN up ELSE l.light[c]
           down == IF x - 1 <= 2 THEN 2 ELSE x - 1
           y == IF flags.held[2] THEN down ELSE x
           light == [l.light EXCEPT ![c] = y]
<1>1. l.light \in [Leds -> 1..High] /\ l.light[c] \in 1..High
  BY DEF Lamps
<1>2. up \in 1..High
  BY <1>1, LimitsAre
<1> HIDE DEF up
<1>3. x \in 1..High
  BY <1>1, <1>2
<1> HIDE DEF x
<1>4. y \in 1..High
  BY <1>3, LimitsAre
<1>5. ModeKeyFunc(l, c) = [l EXCEPT !.light = light]
  BY DEF ModeKeyFunc, up, x
<1> HIDE DEF down, y
<1>6. light \in [Leds -> 1..High]
  BY <1>1, <1>4
<1> HIDE DEF light
<1>7. QED
  BY <1>5, <1>6 DEF Lamps

\* What the steps of main and of the handlers make of the lamp.
LEMMA NextLamp ==
  LampTypeOK /\ FadeIInv /\ CountIInv /\ [Next]_vars => LampTypeOK' /\ FadeIInv' /\ CountIInv'
<1>1. SUFFICES ASSUME LampTypeOK, FadeIInv, CountIInv, [Next]_vars
               PROVE  LampTypeOK' /\ FadeIInv' /\ CountIInv'
  OBVIOUS
<1>2. /\ lamp \in Lamps /\ flags \in FlagSets
      /\ debouncer \in [Keys12 -> {"Idle", "Press", "Release"}]
      /\ timer1 \in 0..LongPress /\ late \in BOOLEAN
  BY <1>1, LampTyped
<1>3. FadeOf(lamp)
  BY <1>1, FadeOfIs
<1>4. /\ lamp.mode \in 0..3 /\ flags.long \in BOOLEAN /\ flags.count \in 0..255
      /\ lamp.at \in {"show", "release", "reset", "clear"}
  BY <1>2 DEF Lamps, FlagSets
<1>5. SUFFICES /\ lamp' \in Lamps /\ flags' \in FlagSets
               /\ debouncer' \in [Keys12 -> {"Idle", "Press", "Release"}]
               /\ timer1' \in 0..LongPress /\ late' \in BOOLEAN
               /\ FadeOf(lamp')
               /\ CountIInv'
  BY DEF LampTypeOK, Lamps, FlagSets, FadeIInv, FadeOf, FadeAt
<1>6. CASE UNCHANGED lamps
  BY <1>1, <1>2, <1>3, <1>6 DEF lamps, CountIInv
<1>7. CASE LampTimer0
  <2>1. /\ flags' \in FlagSets /\ timer1' \in 0..LongPress /\ late' \in BOOLEAN /\ lamp' = lamp
        /\ debouncer' \in [Keys12 -> {"Idle", "Press", "Release"}]
        /\ flags'.long = flags.long
        /\ ~flags.long => flags'.count = flags.count
        /\ late => late'
        /\ lamp.at = "clear" /\ ~late' => flags'.count = flags.count
    BY <1>1, <1>7, LampTimer0Is
  <2>2. CountIInv'
    BY <1>1, <2>1 DEF CountIInv
  <2>3. QED
    BY <1>2, <1>3, <2>1, <2>2
<1>8. CASE LampTimer1
  <2>1. /\ timer1' = 0 /\ flags' = [flags EXCEPT !.long = TRUE]
        /\ lamp' = lamp /\ debouncer' = debouncer /\ late' = late
    BY <1>8 DEF LampTimer1
  <2>2. flags' \in FlagSets /\ flags'.long /\ flags'.count = flags.count
    BY <1>2, <2>1 DEF FlagSets
  <2>3. CountIInv'
    BY <1>1, <2>1, <2>2 DEF CountIInv
  <2>4. 0 \in 0..LongPress
    BY LimitsAre
  <2>5. QED
    BY <1>2, <1>3, <2>1, <2>2, <2>3, <2>4
<1>9. CASE LampTimer2
  <2>1. /\ flags' = [flags EXCEPT !.timer2 = TRUE]
        /\ lamp' = lamp /\ debouncer' = debouncer /\ late' = late /\ timer1' = timer1
    BY <1>9 DEF LampTimer2
  <2>2. flags' \in FlagSets /\ flags'.long = flags.long /\ flags'.count = flags.count
    BY <1>2, <2>1 DEF FlagSets
  <2>3. CountIInv'
    BY <1>1, <2>1, <2>2 DEF CountIInv
  <2>4. QED
    BY <1>2, <1>3, <2>1, <2>2, <2>3
<1>10. CASE Refresh
  <2>1. /\ flags' = [flags EXCEPT !.timer2 = FALSE] /\ lamp.at = "show"
        /\ debouncer' = debouncer /\ late' = late /\ timer1' = timer1
        /\ lamp' = IF lamp.mode = 0 THEN AutoModeProg(lamp)
                                    ELSE [lamp EXCEPT !.out = {LedOf(lamp.mode)}]
    BY <1>10 DEF Refresh
  <2>2. flags' \in FlagSets /\ flags'.long = flags.long /\ flags'.count = flags.count
    BY <1>2, <2>1 DEF FlagSets
  <2>3. lamp' \in Lamps /\ lamp'.at = lamp.at /\ FadeOf(lamp')
    <3>1. CASE lamp.mode = 0
      BY <1>2, <1>3, <2>1, <3>1, FadeKeeps
    <3>2. CASE lamp.mode # 0
      <4>1. LedOf(lamp.mode) \in Leds
        BY <1>4, <3>2 DEF LedOf, Leds
      <4>2. lamp' = [lamp EXCEPT !.out = {LedOf(lamp.mode)}]
        BY <2>1, <3>2
      <4>3. lamp' \in Lamps /\ lamp'.at = lamp.at /\ lamp'.mode = lamp.mode
        BY <1>2, <4>1, <4>2 DEF Lamps
      <4>4. QED
        BY <3>2, <4>3 DEF FadeOf, FadeAt
    <3>3. QED
      BY <3>1, <3>2
  <2>4. CountIInv'
    BY <1>1, <2>1, <2>2, <2>3 DEF CountIInv
  <2>5. QED
    BY <1>2, <2>1, <2>2, <2>3, <2>4
<1>11. CASE KeyFunc
  <2>1. /\ flags' = [flags EXCEPT !.check = FALSE] /\ lamp.at = "show"
        /\ debouncer' = debouncer /\ late' = late /\ timer1' = timer1
        /\ lamp' = IF lamp.mode = 0 THEN AutoModeKeyFunc(lamp)
                                    ELSE ModeKeyFunc(lamp, LedOf(lamp.mode))
    BY <1>11 DEF KeyFunc
  <2>2. flags' \in FlagSets /\ flags'.long = flags.long /\ flags'.count = flags.count
    BY <1>2, <2>1 DEF FlagSets
  <2>3. lamp' \in Lamps /\ lamp'.at = lamp.at /\ FadeOf(lamp')
    <3>1. CASE lamp.mode = 0
      <4>1. /\ lamp' \in Lamps /\ lamp'.at = lamp.at /\ lamp'.mode = lamp.mode
            /\ lamp'.fading = lamp.fading /\ lamp'.light = lamp.light
        BY <1>2, <2>1, <3>1, AutoKeys
      <4>2. QED
        BY <1>3, <4>1 DEF FadeOf
    <3>2. CASE lamp.mode # 0
      <4>1. LedOf(lamp.mode) \in Leds
        BY <1>4, <3>2 DEF LedOf, Leds
      <4>2. lamp' \in Lamps /\ lamp'.at = lamp.at /\ lamp'.mode = lamp.mode
        BY <1>2, <2>1, <3>2, <4>1, ModeKeys
      <4>3. QED
        BY <3>2, <4>2 DEF FadeOf, FadeAt
    <3>3. QED
      BY <3>1, <3>2
  <2>4. CountIInv'
    BY <1>1, <2>1, <2>2, <2>3 DEF CountIInv
  <2>5. QED
    BY <1>2, <2>1, <2>2, <2>3, <2>4
<1>12. CASE LongPressSeen
  <2>1. /\ lamp' = [lamp EXCEPT !.at = "release", !.out = {}] /\ flags' = flags
        /\ debouncer' = debouncer /\ late' = late /\ timer1' = timer1
    BY <1>12 DEF LongPressSeen
  <2>2. /\ lamp' \in Lamps /\ lamp'.at = "release" /\ lamp'.mode = lamp.mode
        /\ lamp'.fading = lamp.fading /\ lamp'.light = lamp.light
    BY <1>2, <2>1 DEF Lamps
  <2>3. FadeOf(lamp') /\ CountIInv'
    BY <1>3, <2>2 DEF FadeOf, CountIInv
  <2>4. QED
    BY <1>2, <2>1, <2>2, <2>3
<1>13. CASE Selected
  <2>1. /\ lamp' = [lamp EXCEPT !.at = "reset", !.mode = Select(lamp.mode, flags.count)]
        /\ flags' = flags /\ debouncer' = debouncer /\ late' = late /\ timer1' = timer1
    BY <1>13 DEF Selected
  <2>2. /\ Select(lamp.mode, flags.count) \in 0..3
        /\ Select(lamp.mode, flags.count) = 0 => lamp.mode = 0
    BY <1>4 DEF Select
  <2>3. /\ lamp' \in Lamps /\ lamp'.at = "reset" /\ lamp'.mode = Select(lamp.mode, flags.count)
        /\ lamp'.fading = lamp.fading /\ lamp'.light = lamp.light
    BY <1>2, <2>1, <2>2 DEF Lamps
  <2>4. FadeOf(lamp') /\ CountIInv'
    BY <1>3, <2>2, <2>3 DEF FadeOf, FadeAt, CountIInv
  <2>5. QED
    BY <1>2, <2>1, <2>3, <2>4
<1>14. CASE ResetCount
  <2>1. /\ lamp' = [lamp EXCEPT !.at = "clear"] /\ flags' = [flags EXCEPT !.count = 0]
        /\ late' = FALSE /\ debouncer' = debouncer /\ timer1' = timer1
    BY <1>14 DEF ResetCount
  <2>2. /\ lamp' \in Lamps /\ lamp'.at = "clear" /\ lamp'.mode = lamp.mode
        /\ lamp'.fading = lamp.fading /\ lamp'.light = lamp.light
    BY <1>2, <2>1 DEF Lamps
  <2>3. flags' \in FlagSets /\ flags'.count = 0
    BY <1>2, <2>1 DEF FlagSets
  <2>4. FadeOf(lamp') /\ CountIInv'
    BY <1>3, <2>2, <2>3 DEF FadeOf, CountIInv
  <2>5. QED
    BY <1>2, <2>1, <2>2, <2>3, <2>4
<1>15. CASE ClearLong
  <2>1. /\ lamp.at = "clear" /\ lamp' = [lamp EXCEPT !.at = "show", !.out = Leds]
        /\ flags' = [flags EXCEPT !.long = FALSE]
        /\ debouncer' = debouncer /\ late' = late /\ timer1' = timer1
    BY <1>15 DEF ClearLong
  <2>2. /\ lamp' \in Lamps /\ lamp'.at = "show" /\ lamp'.mode = lamp.mode
        /\ lamp'.fading = lamp.fading /\ lamp'.light = lamp.light
    BY <1>2, <2>1 DEF Lamps
  <2>3. flags' \in FlagSets /\ flags'.count = flags.count
    BY <1>2, <2>1 DEF FlagSets
  <2>4. FadeOf(lamp') /\ CountIInv'
    BY <1>1, <1>3, <2>1, <2>2, <2>3 DEF FadeOf, CountIInv
  <2>5. QED
    BY <1>2, <2>1, <2>2, <2>3, <2>4
<1>16. UNCHANGED lamps \/ LampNext
  BY <1>1, StepIs DEF TimedMoves
<1>17. QED
  BY <1>6, <1>7, <1>8, <1>9, <1>10, <1>11, <1>12, <1>13, <1>14, <1>15, <1>16 DEF LampNext

\* The inductive invariant of lab3P1B.c.
THEOREM LampInvariance == Spec => [](LampTypeOK /\ FadeIInv /\ CountIInv)
<1>1. QED
  BY InitLamp, NextLamp, PTL DEF Spec

\* No brightness and no speed of the lamp leaves its range: each fade ends at its
\* limit because the colour it is about was left at the other one by the fades
\* before.
THEOREM LampTypeCorrect == Spec => []LampTypeOK
<1>1. QED
  BY LampInvariance, PTL

\* The presses that select the lamp's next mode are counted from zero, whenever
\* the handlers run between the steps of main, unless a press is counted between
\* its two resets.
THEOREM LampCountStartsAtZero == Spec => []CountStartsAtZero
<1>1. CountIInv => CountStartsAtZero
  BY DEF CountIInv, CountStartsAtZero
<1>2. QED
  BY <1>1, LampInvariance, PTL


-----------------------------------------------------------------------------
(* The display.                                                            *)

Chips == 0..1
Offsets == 0..Half - 1
Bytes == SUBSET Bits
Memories == [Chips -> [PageNumbers -> [Offsets -> Bytes]]]
Displays == [select : Chips, page : [Chips -> PageNumbers], column : [Chips -> Offsets],
             ram : Memories]

\* The byte of a page that is shown at column x.
Shows(d, p, x) == d.ram[x \div Half][p][x % Half]

LEMMA HalfType == Half \in Nat /\ Half > 0 /\ Pages \in Nat /\ Pages > 0
                  /\ Cell \in Nat /\ Cell > 0 /\ Images \in Nat /\ Images > 0
                  /\ FullScale \in Nat /\ FullScale > 0 /\ Cell < 2 * Half
BY GlcdAssumption

\* A column of the screen is one of a controller.
LEMMA ColumnIs ==
  ASSUME NEW x \in Columns
  PROVE  /\ x < Half => x \div Half = 0 /\ x % Half = x
         /\ x >= Half => x \div Half = 1 /\ x % Half = x - Half
         /\ x \div Half \in Chips /\ x % Half \in Offsets
<1>1. /\ Half \in Nat /\ Half > 0 /\ x \in Nat /\ x < 2 * Half
  BY HalfType DEF Columns, Width
<1>2. x = Half * (x \div Half) + (x % Half) /\ x % Half \in 0..Half - 1
  BY <1>1
<1>3. CASE x < Half
  <2>1. x = 0 * Half + x
    BY <1>1
  <2>2. x \div Half = 0
    BY <1>1, <1>3, <2>1, Quotient
  <2>3. QED
    BY <1>1, <1>2, <1>3, <2>2 DEF Chips, Offsets
<1>4. CASE x >= Half
  <2>1. x = 1 * Half + (x - Half) /\ x - Half \in Nat /\ x - Half < Half
    BY <1>1, <1>4
  <2>2. x \div Half = 1
    BY <1>1, <2>1, Quotient
  <2>3. QED
    BY <1>1, <1>2, <1>4, <2>2 DEF Chips, Offsets
<1>5. QED
  BY <1>1, <1>3, <1>4

\* Two columns are the same where controller and offset are.
LEMMA SameColumn ==
  ASSUME NEW x \in Columns, NEW y \in Columns
  PROVE  x = y <=> x \div Half = y \div Half /\ x % Half = y % Half
<1>1. /\ Half \in Nat /\ x \in Nat /\ y \in Nat
  BY HalfType DEF Columns
<1>2. QED
  BY <1>1, ColumnIs

\* The byte goes where the selected controller is, and nowhere else.
LEMMA DataIs ==
  ASSUME NEW d \in Displays, NEW byte \in Bytes
  PROVE  LET e == glcd_data(d, byte)
         IN  /\ e \in Displays /\ e.page = d.page
             /\ \A c \in Chips, p \in PageNumbers, j \in Offsets :
                  e.ram[c][p][j] = IF c = d.select /\ p = d.page[c] /\ j = d.column[c]
                                   THEN byte ELSE d.ram[c][p][j]
<1> DEFINE c == d.select
           q == d.page[c]
           j == d.column[c]
           bytes == [d.ram[c][q] EXCEPT ![j] = byte]
           pages == [d.ram[c] EXCEPT ![q] = bytes]
           ram == [d.ram EXCEPT ![c] = pages]
           next == (j + 1) % Half
           column == [d.column EXCEPT ![c] = next]
<1>1. c \in Chips /\ q \in PageNumbers /\ j \in Offsets
  BY DEF Displays
<1>2. d.ram \in Memories /\ d.ram[c] \in [PageNumbers -> [Offsets -> Bytes]]
      /\ d.ram[c][q] \in [Offsets -> Bytes]
  BY <1>1 DEF Displays, Memories
<1>3. next \in Offsets
  <2>1. j \in Nat /\ Half \in Nat /\ Half > 0
    BY <1>1, HalfType DEF Offsets
  <2>2. QED
    BY <2>1 DEF Offsets
<1>4. glcd_data(d, byte) = [d EXCEPT !.ram = ram, !.column = column]
  BY <1>1, <1>2 DEF glcd_data, Displays
<1> HIDE DEF c, q, j, next
<1>5. bytes \in [Offsets -> Bytes]
  BY <1>2
<1>6. pages \in [PageNumbers -> [Offsets -> Bytes]]
  <2> HIDE DEF bytes
  <2>1. QED
    BY <1>2, <1>5
<1>7. ram \in Memories
  <2> HIDE DEF pages
  <2>1. QED
    BY <1>2, <1>6 DEF Memories
<1>8. column \in [Chips -> Offsets]
  BY <1>3 DEF Displays
<1> DEFINE e == [d EXCEPT !.ram = ram, !.column = column]
<1>9. e \in Displays /\ e.page = d.page /\ e.ram = ram
  <2> HIDE DEF ram, column
  <2>1. QED
    BY <1>7, <1>8 DEF Displays
<1>10. ASSUME NEW k \in Chips, NEW p \in PageNumbers, NEW i \in Offsets
       PROVE  ram[k][p][i] = IF k = c /\ p = q /\ i = j THEN byte ELSE d.ram[k][p][i]
  <2>1. CASE k # c
    BY <1>2, <2>1 DEF Memories
  <2>2. CASE k = c /\ p # q
    BY <1>1, <1>2, <2>2 DEF Memories
  <2>3. CASE k = c /\ p = q
    <3>1. ram[k][p] = bytes
      BY <1>1, <1>2, <2>3 DEF Memories
    <3>2. bytes[i] = IF i = j THEN byte ELSE d.ram[c][q][i]
      BY <1>2
    <3>3. QED
      BY <2>3, <3>1, <3>2
  <2>4. QED
    BY <2>1, <2>2, <2>3
<1> HIDE DEF ram, e
<1>11. \A k \in Chips, p \in PageNumbers, i \in Offsets :
         ram[k][p][i] = IF k = c /\ p = d.page[k] /\ i = d.column[k]
                        THEN byte ELSE d.ram[k][p][i]
  BY <1>10 DEF c, q, j
<1>12. QED
  BY <1>4, <1>9, <1>11 DEF e, c

\* Selecting a column selects its controller, and changes no byte.
LEMMA ColumnSet ==
  ASSUME NEW d \in Displays, NEW x \in Columns
  PROVE  LET e == glcd_setcolumn(d, x)
         IN  /\ e \in Displays /\ e.page = d.page /\ e.ram = d.ram
             /\ e.select = x \div Half /\ e.column[x \div Half] = x % Half
<1> DEFINE chip == x \div Half
           at0 == x % Half
           column == [d.column EXCEPT ![chip] = at0]
           e == [d EXCEPT !.select = chip, !.column = column]
<1>1. chip \in Chips /\ at0 \in Offsets
  BY ColumnIs
<1>2. glcd_setcolumn(d, x) = [d EXCEPT !.select = chip, !.column[chip] = at0]
  <2>1. CASE x < Half
    <3>1. chip = 0 /\ at0 = x
      BY <2>1, ColumnIs
    <3>2. QED
      BY <2>1, <3>1 DEF glcd_setcolumn, SetColumn
  <2>2. CASE ~(x < Half)
    <3>1. x >= Half
      BY <2>2, HalfType DEF Columns
    <3>2. chip = 1 /\ at0 = x - Half
      BY <3>1, ColumnIs
    <3>3. QED
      BY <2>2, <3>2 DEF glcd_setcolumn, SetColumn
  <2>3. QED
    BY <2>1, <2>2
<1> HIDE DEF chip, at0
<1>3. [d EXCEPT !.select = chip, !.column[chip] = at0] = e
  BY <1>1 DEF Displays
<1>4. column \in [Chips -> Offsets] /\ column[chip] = at0
  BY <1>1 DEF Displays
<1> HIDE DEF column
<1>5. e \in Displays /\ e.page = d.page /\ e.ram = d.ram /\ e.select = chip /\ e.column = column
  BY <1>1, <1>4 DEF Displays
<1>6. QED
  BY <1>2, <1>3, <1>4, <1>5 DEF chip, at0

LEMMA PageSet ==
  ASSUME NEW d \in Displays, NEW page \in PageNumbers
  PROVE  LET e == glcd_setpage(d, page)
         IN  e \in Displays /\ e.page = [c \in Chips |-> page] /\ e.ram = d.ram
<1> DEFINE page0 == [d.page EXCEPT ![0] = page]
           e0 == [d EXCEPT !.select = 0, !.page = page0]
           page1 == [e0.page EXCEPT ![1] = page]
           e1 == [e0 EXCEPT !.select = 1, !.page = page1]
<1>1. glcd_setpage(d, page) = e1
  <2>1. SetPage(d, 0, page) = e0
    BY DEF SetPage, Displays
  <2> HIDE DEF e0
  <2>2. SetPage(e0, 1, page) = e1
    BY DEF SetPage
  <2>3. QED
    BY <2>1, <2>2 DEF glcd_setpage
<1>2. page0 \in [Chips -> PageNumbers] /\ page0[0] = page
  BY DEF Displays, Chips
<1>3. e0 \in Displays /\ e0.page = page0 /\ e0.ram = d.ram
  <2> HIDE DEF page0
  <2>1. 0 \in Chips
    BY DEF Chips
  <2>2. QED
    BY <1>2, <2>1 DEF Displays
<1> HIDE DEF e0
<1>4. page1 \in [Chips -> PageNumbers] /\ page1[1] = page /\ page1[0] = page
  BY <1>2, <1>3 DEF Displays, Chips
<1>5. e1 \in Displays /\ e1.page = page1 /\ e1.ram = d.ram
  <2> HIDE DEF page1
  <2>1. 1 \in Chips
    BY DEF Chips
  <2>2. QED
    BY <1>3, <1>4, <2>1 DEF Displays
<1>6. page1 = [c \in Chips |-> page]
  <2> HIDE DEF page1
  <2>1. \A c \in Chips : page1[c] = page
    BY <1>4 DEF Chips
  <2>2. QED
    BY <1>4, <2>1
<1>7. QED
  BY <1>1, <1>5, <1>6

\* One byte of a row.
RowStep(s, x, byte) == glcd_data(glcd_setcolumn(s, x), byte)
OnPage(s, page) == s.page = [c \in Chips |-> page]

LEMMA RowStepIs ==
  ASSUME NEW s \in Displays, NEW page \in PageNumbers, OnPage(s, page),
         NEW x \in Columns, NEW byte \in Bytes
  PROVE  /\ RowStep(s, x, byte) \in Displays /\ OnPage(RowStep(s, x, byte), page)
         /\ \A p \in PageNumbers, y \in Columns :
              Shows(RowStep(s, x, byte), p, y)
                = IF p = page /\ y = x THEN byte ELSE Shows(s, p, y)
<1> DEFINE t == glcd_setcolumn(s, x)
           e == glcd_data(t, byte)
           chip == x \div Half
<1>1. /\ t \in Displays /\ t.page = s.page /\ t.ram = s.ram
      /\ t.select = chip /\ t.column[chip] = x % Half
  BY ColumnSet
<1>2. chip \in Chips
  BY ColumnIs
<1> HIDE DEF t, chip
<1>3. /\ e \in Displays /\ e.page = t.page
      /\ \A c \in Chips, p \in PageNumbers, j \in Offsets :
           e.ram[c][p][j] = IF c = t.select /\ p = t.page[c] /\ j = t.column[c]
                            THEN byte ELSE t.ram[c][p][j]
  BY <1>1, DataIs
<1> HIDE DEF e
<1>4. ASSUME NEW p \in PageNumbers, NEW y \in Columns
      PROVE  Shows(e, p, y) = IF p = page /\ y = x THEN byte ELSE Shows(s, p, y)
  <2>1. y \div Half \in Chips /\ y % Half \in Offsets
    BY ColumnIs
  <2>2. e.ram[y \div Half][p][y % Half]
          = IF y \div Half = chip /\ p = t.page[y \div Half] /\ y % Half = t.column[y \div Half]
            THEN byte ELSE t.ram[y \div Half][p][y % Half]
    BY <1>1, <1>3, <2>1
  <2>3. t.page[y \div Half] = page
    BY <1>1, <2>1 DEF OnPage
  <2>4. (y \div Half = chip /\ y % Half = t.column[y \div Half]) <=> y = x
    BY <1>1, SameColumn DEF chip
  <2>5. QED
    BY <1>1, <2>2, <2>3, <2>4 DEF Shows
<1>5. OnPage(e, page)
  BY <1>1, <1>3 DEF OnPage
<1>6. RowStep(s, x, byte) = e
  BY DEF RowStep, e, t
<1>7. QED
  BY <1>3, <1>4, <1>5, <1>6

LEMMA RowStepTyped ==
  ASSUME NEW s \in Displays, NEW x \in Columns, NEW byte \in Bytes
  PROVE  RowStep(s, x, byte) \in Displays
BY ColumnSet, DataIs DEF RowStep

\* The displays that a row of n bytes goes through.
RowRuns(row, d, page, h, n, bytes) ==
  /\ row[0] = glcd_setpage(d, page)
  /\ \A i \in 1..n : row[i] = RowStep(row[i - 1], h + i - 1, bytes[i - 1])

LEMMA RowIs ==
  ASSUME NEW d \in Displays, NEW page \in PageNumbers, NEW h \in Nat, NEW n \in Nat,
         h + n <= Width, NEW bytes \in [0..n - 1 -> Bytes]
  PROVE  \E row : row[n] = Row(d, page, h, n, bytes) /\ RowRuns(row, d, page, h, n, bytes)
<1> DEFINE first == glcd_setpage(d, page)
           Step(s, i) == RowStep(s, h + i - 1, bytes[i - 1])
           F == [q \in Displays \X (1..n) |-> Step(q[1], q[2])]
           IsRow(f) == f = [i \in 0..n |-> IF i = 0 THEN glcd_setpage(d, page)
                              ELSE glcd_data(glcd_setcolumn(f[i - 1], h + i - 1), bytes[i - 1])]
           row == CHOOSE f : IsRow(f)
<1>1. first \in Displays
  BY PageSet
<1>2. ASSUME NEW s \in Displays, NEW i \in 1..n PROVE Step(s, i) \in Displays
  <2>1. h + i - 1 \in Columns /\ bytes[i - 1] \in Bytes
    BY HalfType DEF Columns, Width
  <2>2. QED
    BY <2>1, RowStepTyped
<1> HIDE DEF first
<1>3. F \in [Displays \X (1..n) -> Displays] /\ \A s \in Displays, i \in 1..n : F[<<s, i>>] = Step(s, i)
  <2> HIDE DEF Step
  <2>1. QED
    BY <1>2
<1> HIDE DEF F
<1>4. PICK a \in [0..n -> Displays] : a[0] = first /\ \A i \in 1..n : a[i] = F[<<a[i - 1], i>>]
  <2>1. F \in [Displays \X (1..n) -> Displays]
    BY <1>3
  <2>2. HasLoop(Displays, first, n, F)
    BY <1>1, <2>1, LoopExists, Zenon
  <2>3. QED
    BY <2>2, Zenon DEF HasLoop
<1>5. \A i \in 1..n : i \in 0..n /\ i - 1 \in 0..n /\ i # 0
  OBVIOUS
<1>6. IsRow(a)
  <2>1. ASSUME NEW i \in 0..n
        PROVE  a[i] = IF i = 0 THEN glcd_setpage(d, page)
                      ELSE glcd_data(glcd_setcolumn(a[i - 1], h + i - 1), bytes[i - 1])
    <3>1. CASE i = 0
      BY <1>4, <3>1 DEF first
    <3>2. CASE i # 0
      <4>1. i \in 1..n /\ i - 1 \in 0..n
        BY <3>2
      <4>2. a[i] = Step(a[i - 1], i)
        BY <1>3, <1>4, <4>1
      <4>3. QED
        BY <3>2, <4>2 DEF RowStep
    <3>3. QED
      BY <3>1, <3>2
  <2>2. QED
    BY <2>1
<1>7. IsRow(row)
  BY <1>6, Zenon
<1>8. row[0] = glcd_setpage(d, page)
      /\ \A i \in 1..n : row[i] = RowStep(row[i - 1], h + i - 1, bytes[i - 1])
  <2>1. 0 \in 0..n
    OBVIOUS
  <2>2. row[0] = glcd_setpage(d, page)
    BY <1>7, <2>1
  <2>3. ASSUME NEW i \in 1..n PROVE row[i] = RowStep(row[i - 1], h + i - 1, bytes[i - 1])
    <3>1. row[i] = glcd_data(glcd_setcolumn(row[i - 1], h + i - 1), bytes[i - 1])
      BY <1>5, <1>7
    <3>2. QED
      BY <3>1 DEF RowStep
  <2>4. QED
    BY <2>2, <2>3
<1>9. Row(d, page, h, n, bytes) = row[n]
  BY Zenon DEF Row
<1> HIDE DEF row
<1>10. RowRuns(row, d, page, h, n, bytes)
  BY <1>8 DEF RowRuns
<1>11. QED
  BY <1>9, <1>10

\* A row of bytes changes the columns it is written to, on its page.
LEMMA RowShows ==
  ASSUME NEW d \in Displays, NEW page \in PageNumbers, NEW h \in Nat, NEW n \in Nat,
         h + n <= Width, NEW bytes \in [0..n - 1 -> Bytes]
  PROVE  LET e == Row(d, page, h, n, bytes)
         IN  /\ e \in Displays
             /\ \A p \in PageNumbers, x \in Columns :
                  Shows(e, p, x) = IF p = page /\ h <= x /\ x < h + n
                                   THEN bytes[x - h] ELSE Shows(d, p, x)
<1> DEFINE Written(e, k) ==
             \A p \in PageNumbers, x \in Columns :
               Shows(e, p, x) = IF p = page /\ h <= x /\ x < h + k
                                THEN bytes[x - h] ELSE Shows(d, p, x)
           Good(e, k) == e \in Displays /\ OnPage(e, page) /\ Written(e, k)
<1>1. PICK row : row[n] = Row(d, page, h, n, bytes) /\ RowRuns(row, d, page, h, n, bytes)
  BY RowIs
<1> DEFINE T == {k \in 0..n : Good(row[k], k)}
<1>2. 0 \in T
  <2>1. row[0] \in Displays /\ OnPage(row[0], page) /\ row[0].ram = d.ram
    BY <1>1, PageSet DEF RowRuns, OnPage
  <2>2. \A x \in Columns : ~(h <= x /\ x < h + 0)
    BY DEF Columns
  <2>3. Written(row[0], 0)
    BY <2>1, <2>2 DEF Shows
  <2>4. 0 \in 0..n
    OBVIOUS
  <2>5. QED
    BY <2>1, <2>3, <2>4
<1>3. ASSUME NEW k \in 1..n, k - 1 \in T PROVE k \in T
  <2> DEFINE s == row[k - 1]
             x0 == h + k - 1
             byte == bytes[k - 1]
  <2>1. x0 \in Columns /\ byte \in Bytes /\ k \in 0..n
    BY HalfType DEF Columns, Width
  <2>2. Good(s, k - 1) /\ row[k] = RowStep(s, x0, byte)
    BY <1>1, <1>3 DEF RowRuns
  <2> HIDE DEF s
  <2>3. /\ row[k] \in Displays /\ OnPage(row[k], page)
        /\ \A p \in PageNumbers, y \in Columns :
             Shows(row[k], p, y) = IF p = page /\ y = x0 THEN byte ELSE Shows(s, p, y)
    <3> HIDE DEF x0, byte
    <3>1. QED
      BY <2>1, <2>2, RowStepIs
  <2>4. ASSUME NEW p \in PageNumbers, NEW x \in Columns
        PROVE  Shows(row[k], p, x) = IF p = page /\ h <= x /\ x < h + k
                                     THEN bytes[x - h] ELSE Shows(d, p, x)
    <3>1. Shows(row[k], p, x) = IF p = page /\ x = x0 THEN byte ELSE Shows(s, p, x)
      BY <2>3
    <3>2. Shows(s, p, x) = IF p = page /\ h <= x /\ x < h + (k - 1)
                           THEN bytes[x - h] ELSE Shows(d, p, x)
      BY <2>2
    <3>3. /\ x = x0 => h <= x /\ x < h + k /\ x - h = k - 1
          /\ x # x0 => ((h <= x /\ x < h + k) <=> (h <= x /\ x < h + (k - 1)))
      BY <2>1 DEF Columns
    <3> HIDE DEF x0
    <3>4. QED
      BY <3>1, <3>2, <3>3
  <2>5. Good(row[k], k)
    BY <2>3, <2>4
  <2>6. QED
    BY <2>1, <2>5
<1>4. n \in T
  <2>1. \A k \in 1..n : k - 1 \in T => k \in T
    BY <1>3
  <2>2. n \in 0..n
    OBVIOUS
  <2> HIDE DEF T
  <2>3. QED
    BY <1>2, <2>1, <2>2, UpTo
<1>5. QED
  BY <1>1, <1>4
Pictures == [PageNumbers -> [Columns -> Bytes]]
ShowsAll(d, picture) == \A p \in PageNumbers, x \in Columns : Shows(d, p, x) = picture[p][x]

\* The displays that the filling of all pages goes through.
FillRuns(fill, d, picture) ==
  /\ fill[0] = d
  /\ \A p \in 1..Pages : fill[p] = Row(fill[p - 1], p - 1, 0, Width, picture[p - 1])

LEMMA FillRow ==
  ASSUME NEW d \in Displays, NEW picture \in Pictures, NEW k \in 1..Pages
  PROVE  LET e == Row(d, k - 1, 0, Width, picture[k - 1])
         IN  /\ e \in Displays
             /\ \A p \in PageNumbers, x \in Columns :
                  Shows(e, p, x) = IF p = k - 1 THEN picture[p][x] ELSE Shows(d, p, x)
<1> DEFINE page == k - 1
           bytes == picture[page]
<1>1. page \in PageNumbers /\ Width \in Nat /\ 0 + Width <= Width
  BY HalfType DEF PageNumbers, Width
<1>2. bytes \in [0..Width - 1 -> Bytes]
  BY <1>1 DEF Pictures, Columns
<1>3. \A x \in Columns : 0 <= x /\ x < 0 + Width /\ x - 0 = x
  BY <1>1 DEF Columns
<1> HIDE DEF page
<1> DEFINE e == Row(d, page, 0, Width, bytes)
<1>4. /\ e \in Displays
      /\ \A p \in PageNumbers, x \in Columns :
           Shows(e, p, x) = IF p = page /\ 0 <= x /\ x < 0 + Width
                            THEN bytes[x - 0] ELSE Shows(d, p, x)
  <2> HIDE DEF bytes
  <2>1. 0 \in Nat
    OBVIOUS
  <2>2. QED
    BY <1>1, <1>2, <2>1, RowShows
<1>5. \A p \in PageNumbers, x \in Columns :
        Shows(e, p, x) = IF p = page THEN picture[p][x] ELSE Shows(d, p, x)
  BY <1>3, <1>4
<1>6. QED
  BY <1>4, <1>5 DEF page

LEMMA FillIs ==
  ASSUME NEW d \in Displays, NEW picture \in Pictures
  PROVE  \E fill : fill[Pages] = Fill(d, picture) /\ FillRuns(fill, d, picture)
<1> DEFINE Step(s, p) == Row(s, p - 1, 0, Width, picture[p - 1])
           F == [q \in Displays \X (1..Pages) |-> Step(q[1], q[2])]
           IsFill(f) == f = [p \in 0..Pages |-> IF p = 0 THEN d
                               ELSE Row(f[p - 1], p - 1, 0, Width, picture[p - 1])]
           fill == CHOOSE f : IsFill(f)
<1>1. Pages \in Nat
  BY HalfType
<1>2. \A s \in Displays, p \in 1..Pages : Step(s, p) \in Displays
  BY FillRow
<1>3. F \in [Displays \X (1..Pages) -> Displays]
      /\ \A s \in Displays, p \in 1..Pages : F[<<s, p>>] = Step(s, p)
  <2> HIDE DEF Step
  <2>1. QED
    BY <1>2
<1> HIDE DEF F
<1>4. PICK a \in [0..Pages -> Displays] :
        a[0] = d /\ \A p \in 1..Pages : a[p] = F[<<a[p - 1], p>>]
  <2>1. F \in [Displays \X (1..Pages) -> Displays]
    BY <1>3
  <2>2. HasLoop(Displays, d, Pages, F)
    BY <1>1, <2>1, LoopExists, Zenon
  <2>3. QED
    BY <2>2, Zenon DEF HasLoop
<1>5. \A p \in 1..Pages : p \in 0..Pages /\ p - 1 \in 0..Pages /\ p # 0
  BY <1>1
<1>6. IsFill(a)
  <2>1. ASSUME NEW p \in 0..Pages
        PROVE  a[p] = IF p = 0 THEN d ELSE Row(a[p - 1], p - 1, 0, Width, picture[p - 1])
    <3>1. CASE p = 0
      BY <1>4, <3>1
    <3>2. CASE p # 0
      <4>1. p \in 1..Pages /\ p - 1 \in 0..Pages
        BY <1>1, <3>2
      <4>2. a[p] = Step(a[p - 1], p)
        BY <1>3, <1>4, <4>1
      <4>3. QED
        BY <3>2, <4>2
    <3>3. QED
      BY <3>1, <3>2
  <2>2. QED
    BY <2>1
<1>7. IsFill(fill)
  BY <1>6, Zenon
<1>8. fill[0] = d /\ \A p \in 1..Pages : fill[p] = Row(fill[p - 1], p - 1, 0, Width, picture[p - 1])
  <2>1. 0 \in 0..Pages
    BY <1>1
  <2>2. QED
    BY <1>5, <1>7, <2>1
<1>9. Fill(d, picture) = fill[Pages]
  BY Zenon DEF Fill
<1> HIDE DEF fill
<1>10. FillRuns(fill, d, picture)
  BY <1>8 DEF FillRuns
<1>11. QED
  BY <1>9, <1>10

\* Filling the display shows the picture, whatever was there before.
LEMMA FillShows ==
  ASSUME NEW d \in Displays, NEW picture \in Pictures
  PROVE  Fill(d, picture) \in Displays /\ ShowsAll(Fill(d, picture), picture)
<1> DEFINE Good(e, k) ==
             e \in Displays /\ \A p \in PageNumbers, x \in Columns :
                                 p < k => Shows(e, p, x) = picture[p][x]
<1>1. PICK fill : fill[Pages] = Fill(d, picture) /\ FillRuns(fill, d, picture)
  BY FillIs
<1>2. Pages \in Nat
  BY HalfType
<1> DEFINE T == {k \in 0..Pages : Good(fill[k], k)}
<1>3. 0 \in T
  <2>1. \A p \in PageNumbers : ~(p < 0)
    BY DEF PageNumbers
  <2>2. fill[0] = d /\ 0 \in 0..Pages
    BY <1>1, <1>2 DEF FillRuns
  <2>3. QED
    BY <2>1, <2>2
<1>4. ASSUME NEW k \in 1..Pages, k - 1 \in T PROVE k \in T
  <2> DEFINE s == fill[k - 1]
  <2>1. Good(s, k - 1) /\ k \in 0..Pages
    BY <1>2, <1>4
  <2>2. fill[k] = Row(s, k - 1, 0, Width, picture[k - 1])
    BY <1>1 DEF FillRuns
  <2> HIDE DEF s
  <2>3. /\ fill[k] \in Displays
        /\ \A p \in PageNumbers, x \in Columns :
             Shows(fill[k], p, x) = IF p = k - 1 THEN picture[p][x] ELSE Shows(s, p, x)
    BY <2>1, <2>2, FillRow
  <2>4. \A p \in PageNumbers : p < k => p = k - 1 \/ p < k - 1
    BY <1>2 DEF PageNumbers
  <2>5. Good(fill[k], k)
    BY <2>1, <2>3, <2>4
  <2>6. QED
    BY <2>1, <2>5
<1>5. Pages \in T
  <2>1. \A k \in 1..Pages : k - 1 \in T => k \in T
    BY <1>4
  <2>2. Pages \in 0..Pages
    BY <1>2
  <2> HIDE DEF T
  <2>3. QED
    BY <1>2, <1>3, <2>1, <2>2, UpTo
<1>6. \A p \in PageNumbers : p < Pages
  BY <1>2 DEF PageNumbers
<1>7. QED
  BY <1>1, <1>5, <1>6 DEF ShowsAll

\* A pixel is a bit of a byte of a page.
LEMMA PixelIs ==
  ASSUME NEW y \in 0..Height - 1
  PROVE  y \div Cell \in PageNumbers /\ y % Cell \in Bits /\ y = Cell * (y \div Cell) + (y % Cell)
<1>1. Cell \in Nat /\ Cell > 0 /\ Pages \in Nat /\ y \in Nat /\ y < Pages * Cell
  BY HalfType DEF Height
<1> DEFINE q == y \div Cell
           r == y % Cell
<1>2. q \in Nat /\ r \in 0..Cell - 1 /\ y = Cell * q + r
  BY <1>1
<1> HIDE DEF q, r
<1>3. q < Pages
  <2>1. SUFFICES ASSUME q >= Pages PROVE FALSE
    BY <1>1, <1>2
  <2>2. Cell * q >= Cell * Pages
    BY <1>1, <1>2, <2>1
  <2>3. QED
    BY <1>1, <1>2, <2>2
<1>4. QED
  BY <1>1, <1>2, <1>3 DEF q, r, PageNumbers, Bits

\* The pixels of the display, as those of a picture.
Lit(d) == {q \in Screen : (q[2] % Cell) \in Shows(d, q[2] \div Cell, q[1])}

LEMMA LitIs ==
  ASSUME NEW d, NEW picture, ShowsAll(d, picture)
  PROVE  Lit(d) = Pixels(picture)
<1>1. \A q \in Screen : q[1] \in Columns /\ q[2] \div Cell \in PageNumbers
  BY PixelIs DEF Screen
<1>2. \A q \in Screen : Shows(d, q[2] \div Cell, q[1]) = picture[q[2] \div Cell][q[1]]
  BY <1>1 DEF ShowsAll
<1>3. QED
  BY <1>2, Zenon DEF Pixels, Lit

\* Which pages a square of c rows from row c * V + u on covers, and which of their rows.
LEMMA SquareRows ==
  ASSUME NEW c \in Nat, c > 0, NEW V \in Nat, NEW P \in Nat,
         NEW u \in 0..c - 1, NEW b \in 0..c - 1
  PROVE  (c * V + u <= c * P + b /\ c * P + b < c * V + u + c)
           <=> (P = V /\ u <= b) \/ (P = V + 1 /\ b < u)
<1>1. CASE P = V
  <2> DEFINE m == c * V
  <2>1. m \in Nat /\ c * P = m
    BY <1>1
  <2> HIDE DEF m
  <2>2. QED
    BY <1>1, <2>1 DEF m
<1>2. CASE P = V + 1
  <2> DEFINE m == c * V
  <2>1. m \in Nat /\ c * P = m + c
    BY <1>2
  <2> HIDE DEF m
  <2>2. (m + u <= m + c + b /\ m + c + b < m + u + c) <=> b < u
    BY <2>1
  <2>3. QED
    BY <1>2, <2>1, <2>2 DEF m
<1>3. CASE P < V
  <2> DEFINE n == V - P - 1
             m == c * P
             k == c * n
  <2>1. n \in Nat /\ V = P + 1 + n
    BY <1>3
  <2>2. m \in Nat /\ k \in Nat /\ c * V = m + c + k
    BY <2>1
  <2> HIDE DEF m, k, n
  <2>3. ~(m + c + k + u <= m + b)
    BY <2>2
  <2>4. QED
    BY <1>3, <2>2, <2>3 DEF m
<1>4. CASE P > V + 1
  <2> DEFINE n == P - V - 2
             m == c * V
             k == c * n
  <2>1. n \in Nat /\ P = V + 2 + n
    BY <1>4
  <2>2. m \in Nat /\ k \in Nat /\ c * P = m + c + c + k
    BY <2>1
  <2> HIDE DEF m, k, n
  <2>3. ~(m + c + c + k + b < m + u + c)
    BY <2>2
  <2>4. QED
    BY <1>4, <2>2, <2>3 DEF m
<1>5. QED
  BY <1>1, <1>2, <1>3, <1>4

Dark == [p \in PageNumbers |-> [j \in Columns |-> {}]]
Part(s, page, h, byte) == Row(s, page, h, Cell, [i \in 0..Cell - 1 |-> byte])
Across(x, h) == h <= x /\ x < h + Cell

LEMMA PartShows ==
  ASSUME NEW s \in Displays, NEW page \in PageNumbers, NEW h \in 0..Width - Cell,
         NEW byte \in Bytes
  PROVE  /\ Part(s, page, h, byte) \in Displays
         /\ \A p \in PageNumbers, x \in Columns :
              Shows(Part(s, page, h, byte), p, x)
                = IF p = page /\ Across(x, h) THEN byte ELSE Shows(s, p, x)
<1> DEFINE bytes == [i \in 0..Cell - 1 |-> byte]
           e == Row(s, page, h, Cell, bytes)
<1>1. h \in Nat /\ Cell \in Nat /\ h + Cell <= Width /\ Width \in Nat
  BY HalfType DEF Width
<1>2. bytes \in [0..Cell - 1 -> Bytes]
  OBVIOUS
<1>3. \A x \in Columns : Across(x, h) => bytes[x - h] = byte
  BY <1>1 DEF Columns, Across
<1> HIDE DEF bytes
<1>4. /\ e \in Displays
      /\ \A p \in PageNumbers, x \in Columns :
           Shows(e, p, x) = IF p = page /\ h <= x /\ x < h + Cell
                            THEN bytes[x - h] ELSE Shows(s, p, x)
  BY <1>1, <1>2, RowShows
<1>5. e = Part(s, page, h, byte)
  BY DEF Part, bytes
<1>6. QED
  BY <1>3, <1>4, <1>5 DEF Across

\* The square is drawn where it belongs, and nothing else is lit.
LEMMA SquareShows ==
  ASSUME NEW d \in Displays, ShowsAll(d, Dark),
         NEW h \in 0..Width - Cell, NEW v \in 0..Height - Cell
  PROVE  /\ Square(d, h, v) \in Displays
         /\ Lit(Square(d, h, v)) = (h..h + Cell - 1) \X (v..v + Cell - 1)
<1> DEFINE V == v \div Cell
           u == v % Cell
           top == Bits \ {b \in Bits : b < u}
           bottom == Bits \ {Cell - 1 - b : b \in 0..Cell - u - 1}
           e == Square(d, h, v)
           byte(p) == IF p = V THEN top ELSE IF p = V + 1 THEN bottom ELSE {}
<1>1. /\ Cell \in Nat /\ Cell > 0 /\ Pages \in Nat /\ Pages > 0 /\ Width \in Nat
      /\ h \in Nat /\ v \in Nat /\ Height = Cell * Pages /\ Height - Cell = Cell * (Pages - 1)
  BY HalfType DEF Width, Height
<1>2. v \in 0..Height - 1
  <2>1. Height \in Nat
    BY <1>1
  <2>2. QED
    BY <1>1, <2>1
<1>3. V \in PageNumbers /\ u \in Bits /\ v = Cell * V + u
  BY <1>2, PixelIs
<1>4. V \in Nat /\ u \in 0..Cell - 1
  BY <1>1, <1>3 DEF PageNumbers, Bits
<1>5. v <= Cell * (Pages - 1)
  BY <1>1
<1>6. Square(d, h, v) = IF u = 0 THEN Part(d, V, h, Bits)
                        ELSE Part(Part(d, V, h, top), V + 1, h, bottom)
  BY Zenon DEF Square, Part
<1> HIDE DEF V, u
<1>7. u # 0 => V + 1 \in PageNumbers
  <2>1. SUFFICES ASSUME u # 0, V >= Pages - 1 PROVE FALSE
    BY <1>1, <1>4 DEF PageNumbers
  <2>2. Cell * V >= Cell * (Pages - 1)
    BY <1>1, <1>4, <2>1
  <2> DEFINE m == Cell * V
             n == Cell * (Pages - 1)
  <2>3. m \in Int /\ n \in Int /\ m >= n /\ v = m + u /\ v <= n
    BY <1>1, <1>3, <1>4, <1>5, <2>2
  <2> HIDE DEF m, n
  <2>4. QED
    BY <1>4, <2>1, <2>3
<1>8. /\ top = {b \in Bits : u <= b} /\ bottom = {b \in Bits : b < u}
      /\ top \in Bytes /\ bottom \in Bytes /\ Bits \in Bytes
  <2>1. top = {b \in Bits : u <= b}
    BY <1>1, <1>4 DEF Bits
  <2>2. ASSUME NEW b \in Bits
        PROVE  b \in {Cell - 1 - k : k \in 0..Cell - u - 1} <=> ~(b < u)
    <3>1. ASSUME ~(b < u) PROVE b \in {Cell - 1 - k : k \in 0..Cell - u - 1}
      <4>1. Cell - 1 - b \in 0..Cell - u - 1 /\ b = Cell - 1 - (Cell - 1 - b)
        BY <1>1, <1>4, <3>1 DEF Bits
      <4>2. QED
        BY <4>1
    <3>2. ASSUME b \in {Cell - 1 - k : k \in 0..Cell - u - 1} PROVE ~(b < u)
      BY <1>1, <1>4, <3>2
    <3>3. QED
      BY <3>1, <3>2
  <2>3. bottom = {b \in Bits : b < u}
    BY <2>2
  <2>4. QED
    BY <2>1, <2>3 DEF Bytes
<1> HIDE DEF top, bottom
<1>9. \A p \in PageNumbers, x \in Columns : Shows(d, p, x) = {}
  BY DEF ShowsAll, Dark
<1>10. /\ e \in Displays
       /\ \A p \in PageNumbers, x \in Columns :
            Shows(e, p, x) = IF Across(x, h) THEN byte(p) ELSE {}
  <2>1. CASE u = 0
    <3>1. top = Bits /\ bottom = {}
      BY <1>1, <1>8, <2>1 DEF Bits
    <3>2. e = Part(d, V, h, Bits)
      BY <1>6, <2>1
    <3>3. /\ e \in Displays
          /\ \A p \in PageNumbers, x \in Columns :
               Shows(e, p, x) = IF p = V /\ Across(x, h) THEN Bits ELSE Shows(d, p, x)
      BY <1>3, <1>8, <3>2, PartShows
    <3> HIDE DEF e
    <3>4. QED
      BY <1>9, <3>1, <3>3
  <2>2. CASE u # 0
    <3> DEFINE s == Part(d, V, h, top)
    <3>1. /\ s \in Displays
          /\ \A p \in PageNumbers, x \in Columns :
               Shows(s, p, x) = IF p = V /\ Across(x, h) THEN top ELSE Shows(d, p, x)
      BY <1>3, <1>8, PartShows
    <3>2. e = Part(s, V + 1, h, bottom)
      BY <1>6, <2>2
    <3> HIDE DEF s
    <3>3. /\ e \in Displays
          /\ \A p \in PageNumbers, x \in Columns :
               Shows(e, p, x) = IF p = V + 1 /\ Across(x, h) THEN bottom ELSE Shows(s, p, x)
      <4> DEFINE W == V + 1
      <4>1. W \in PageNumbers /\ bottom \in Bytes /\ s \in Displays /\ e = Part(s, W, h, bottom)
        BY <1>7, <1>8, <2>2, <3>1, <3>2
      <4> HIDE DEF W, e
      <4>2. /\ e \in Displays
            /\ \A p \in PageNumbers, x \in Columns :
                 Shows(e, p, x) = IF p = W /\ Across(x, h) THEN bottom ELSE Shows(s, p, x)
        BY <4>1, PartShows
      <4>3. QED
        BY <4>2 DEF W
    <3>4. V # V + 1
      BY <1>4
    <3> HIDE DEF e
    <3>5. QED
      BY <1>9, <3>1, <3>3, <3>4
  <2>3. QED
    BY <2>1, <2>2
<1> HIDE DEF e
<1>11. ASSUME NEW x \in Columns, NEW y \in 0..Height - 1
       PROVE  (y % Cell) \in Shows(e, y \div Cell, x)
                <=> Across(x, h) /\ v <= y /\ y < v + Cell
  <2> DEFINE P == y \div Cell
             b == y % Cell
  <2>1. P \in PageNumbers /\ b \in Bits /\ y = Cell * P + b
    BY PixelIs
  <2>2. P \in Nat /\ b \in 0..Cell - 1
    BY <2>1 DEF PageNumbers, Bits
  <2>3. Shows(e, P, x) = IF Across(x, h) THEN byte(P) ELSE {}
    BY <1>10, <2>1
  <2> HIDE DEF P, b
  <2>4. (v <= y /\ y < v + Cell) <=> (P = V /\ u <= b) \/ (P = V + 1 /\ b < u)
    BY <1>1, <1>3, <1>4, <2>1, <2>2, SquareRows
  <2>5. b \in byte(P) <=> (P = V /\ u <= b) \/ (P = V + 1 /\ b < u)
    BY <1>4, <1>8, <2>1
  <2>6. b \in Shows(e, P, x) <=> Across(x, h) /\ v <= y /\ y < v + Cell
    BY <2>3, <2>4, <2>5
  <2>7. QED
    BY <2>6 DEF P, b
<1>12. \A x \in Columns : Across(x, h) <=> x \in h..h + Cell - 1
  BY <1>1 DEF Across, Columns
<1>13. \A y \in 0..Height - 1 : (v <= y /\ y < v + Cell) <=> y \in v..v + Cell - 1
  BY <1>1
<1>14. (h..h + Cell - 1) \subseteq Columns /\ (v..v + Cell - 1) \subseteq 0..Height - 1
  <2>1. Height \in Nat
    BY <1>1
  <2>2. QED
    BY <1>1, <2>1 DEF Columns
<1>15. Lit(e) = (h..h + Cell - 1) \X (v..v + Cell - 1)
  <2>1. ASSUME NEW q \in Lit(e) PROVE q \in (h..h + Cell - 1) \X (v..v + Cell - 1)
    <3>1. q \in Screen /\ (q[2] % Cell) \in Shows(e, q[2] \div Cell, q[1])
      BY DEF Lit
    <3>2. q[1] \in Columns /\ q[2] \in 0..Height - 1 /\ q = <<q[1], q[2]>>
      BY <3>1 DEF Screen
    <3>3. QED
      BY <1>11, <1>12, <1>13, <3>1, <3>2
  <2>2. ASSUME NEW x \in h..h + Cell - 1, NEW y \in v..v + Cell - 1 PROVE <<x, y>> \in Lit(e)
    <3>1. x \in Columns /\ y \in 0..Height - 1
      BY <1>14
    <3>2. (y % Cell) \in Shows(e, y \div Cell, x)
      BY <1>11, <1>12, <1>13, <3>1
    <3>3. <<x, y>> \in Screen
      BY <3>1 DEF Screen
    <3>4. QED
      BY <3>2, <3>3 DEF Lit
  <2>3. QED
    BY <2>1, <2>2
<1>16. QED
  BY <1>10, <1>15 DEF e

LEMMA PositionIs ==
  ASSUME NEW range \in Nat, NEW a \in 0..FullScale
  PROVE  Position(range, a) \in 0..range
<1> DEFINE m == FullScale - a
           n == range * m
           q == n \div FullScale
<1>1. FullScale \in Nat /\ FullScale > 0 /\ a \in Nat /\ m \in Nat /\ m <= FullScale
  BY HalfType
<1>2. (range * FullScale) - (a * range) = n
  BY <1>1
<1>3. n \in Nat /\ n <= range * FullScale
  BY <1>1
<1> HIDE DEF n
<1>4. q \in Nat /\ FullScale * q <= n
  BY <1>1, <1>3
<1> HIDE DEF q
<1>5. q <= range
  <2>1. SUFFICES ASSUME q >= range + 1 PROVE FALSE
    BY <1>4
  <2>2. FullScale * q >= FullScale * (range + 1)
    BY <1>1, <1>4, <2>1
  <2>3. FullScale * (range + 1) = range * FullScale + FullScale
    BY <1>1
  <2>4. QED
    BY <1>1, <1>3, <1>4, <2>2, <2>3
<1>6. QED
  BY <1>2, <1>4, <1>5 DEF Position, q

LEMMA PicturesTyped ==
  /\ Dark \in Pictures
  /\ \A k : Image(k) \in Pictures
  /\ \A k : [p \in PageNumbers |-> [j \in Columns |-> Bits \ Image(k)[p][j]]] \in Pictures
BY DEF Dark, Image, Pictures, Bytes

LEMMA GlcdTyped ==
  GlcdTypeOK <=> /\ glcd \in Displays /\ turn \in 0..Images
                 /\ previous \in Columns \X (0..Height - 1)
BY DEF GlcdTypeOK, Displays, Memories, Chips, Offsets, Bytes

LEMMA InitGlcd == Init => GlcdTypeOK /\ ShowsPicture
<1>1. SUFFICES ASSUME Init PROVE GlcdTypeOK /\ ShowsPicture
  OBVIOUS
<1>2. /\ turn = 0 /\ previous = <<0, 0>> /\ drawn = {}
      /\ \E byte \in {{}, Bits} :
           glcd = glcd_init([c \in 0..1 |-> [p \in PageNumbers |-> [j \in 0..Half - 1 |-> byte]]])
  BY <1>1 DEF Init, GlcdInit
<1>3. /\ 0 \in Chips /\ 1 \in Chips /\ 0 \in PageNumbers /\ 0 \in Offsets /\ 0 \in Columns
      /\ 0 \in 0..Height - 1 /\ 0 \in 0..Images
  <2>1. Width \in Nat /\ Width > 0 /\ Height \in Nat /\ Height > 0
    BY HalfType DEF Width, Height
  <2>2. QED
    BY <2>1, HalfType DEF Chips, PageNumbers, Offsets, Columns
<1>4. PICK byte \in Bytes :
        glcd = glcd_init([c \in 0..1 |-> [p \in PageNumbers |-> [j \in 0..Half - 1 |-> byte]]])
  BY <1>2 DEF Bytes
<1> DEFINE ram == [c \in 0..1 |-> [p \in PageNumbers |-> [j \in 0..Half - 1 |-> byte]]]
<1>5. ram \in Memories
  BY DEF Memories, Chips, Offsets
<1> HIDE DEF ram
<1>6. glcd = [select |-> 1, page |-> [c \in 0..1 |-> 0], column |-> [c \in 0..1 |-> 0],
              ram |-> ram]
  BY <1>4 DEF glcd_init, ram
<1>7. glcd \in Displays
  BY <1>3, <1>5, <1>6 DEF Displays, Chips
<1>8. QED
  BY <1>2, <1>3, <1>7, GlcdTyped DEF ShowsPicture

\* A display filled with a picture shows it.
LEMMA PictureFilled ==
  ASSUME glcd \in Displays, NEW picture \in Pictures
  PROVE  Fill(glcd, picture) \in Displays /\ Lit(Fill(glcd, picture)) = Pixels(picture)
BY FillShows, LitIs

LEMMA Inverted ==
  ASSUME NEW k
  PROVE  Pixels([p \in PageNumbers |-> [j \in Columns |-> Bits \ Image(k)[p][j]]])
           = Screen \ Pixels(Image(k))
<1> DEFINE inverse == [p \in PageNumbers |-> [j \in Columns |-> Bits \ Image(k)[p][j]]]
           picture == Image(k)
<1> HIDE DEF picture
<1>1. \A q \in Screen : /\ q[1] \in Columns /\ q[2] \div Cell \in PageNumbers
                        /\ q[2] % Cell \in Bits
  BY PixelIs DEF Screen
<1>2. \A q \in Screen : (q[2] % Cell) \in inverse[q[2] \div Cell][q[1]]
                          <=> ~((q[2] % Cell) \in picture[q[2] \div Cell][q[1]])
  BY <1>1 DEF picture
<1> HIDE DEF inverse
<1>3. Pixels(inverse) = Screen \ Pixels(picture)
  BY <1>2, Zenon DEF Pixels
<1>4. QED
  BY <1>3 DEF inverse, picture

\* What a step draws, and what it has to be.
Draws(e, picture) == e \in Displays /\ Lit(e) = picture

LEMMA NextGlcd == GlcdTypeOK /\ ShowsPicture /\ [Next]_vars => GlcdTypeOK' /\ ShowsPicture'
<1>1. SUFFICES ASSUME GlcdTypeOK, ShowsPicture, [Next]_vars PROVE GlcdTypeOK' /\ ShowsPicture'
  OBVIOUS
<1>2. /\ glcd \in Displays /\ turn \in 0..Images /\ previous \in Columns \X (0..Height - 1)
  BY <1>1, GlcdTyped
<1>3. Images \in Nat /\ Images > 0
  BY HalfType
<1>4. ASSUME UNCHANGED <<glcd, drawn>>, turn' \in 0..Images,
             previous' \in Columns \X (0..Height - 1)
      PROVE  GlcdTypeOK' /\ ShowsPicture'
  <2>1. glcd' = glcd /\ drawn' = drawn
    BY <1>4
  <2>2. GlcdTypeOK'
    BY <1>1, <1>4, <2>1 DEF GlcdTypeOK
  <2>3. Pixels(Memory)' = Pixels(Memory)
    BY <2>1, Zenon DEF Pixels, Memory
  <2>4. QED
    BY <1>1, <2>1, <2>2, <2>3 DEF ShowsPicture
<1>5. ASSUME NEW picture, Draws(glcd', picture), drawn' = {picture}, turn' \in 0..Images,
             previous' \in Columns \X (0..Height - 1)
      PROVE  GlcdTypeOK' /\ ShowsPicture'
  <2>1. GlcdTypeOK'
    BY <1>5 DEF Draws, GlcdTypeOK, Displays, Memories, Chips, Offsets, Bytes
  <2>2. ShowsAll(glcd', Memory')
    BY DEF ShowsAll, Shows, Memory
  <2>3. Pixels(Memory') = picture
    BY <1>5, <2>2, LitIs DEF Draws
  <2>4. QED
    BY <1>5, <2>1, <2>3 DEF ShowsPicture
<1>6. CASE UNCHANGED display
  BY <1>2, <1>4, <1>6 DEF display
<1>7. CASE ShowImage
  <2>1. Draws(glcd', Pixels(Image(0)))
    BY <1>2, <1>7, PicturesTyped, PictureFilled DEF ShowImage, sendImage, Draws
  <2>2. drawn' = {Pixels(Image(0))} /\ turn' = 1 /\ previous' = previous
    BY <1>7 DEF ShowImage
  <2>3. QED
    BY <1>2, <1>3, <1>5, <2>1, <2>2
<1>8. CASE ShowNext
  <2>1. Draws(glcd', Screen \ Pixels(Image(turn)))
    BY <1>2, <1>8, PicturesTyped, PictureFilled, Inverted DEF ShowNext, glcd_logodisplay, Draws
  <2>2. drawn' = {Screen \ Pixels(Image(turn))} /\ previous' = previous
    BY <1>8 DEF ShowNext
  <2>3. turn' \in 0..Images
    <3>1. turn' = (turn + 1) % Images /\ turn \in Nat
      BY <1>2, <1>8 DEF ShowNext
    <3>2. QED
      BY <1>3, <3>1
  <2>4. QED
    BY <1>2, <1>5, <2>1, <2>2, <2>3
<1>9. CASE printSqure
  <2>1. PICK a0, a1 \in 0..FullScale :
          LET h == Position(Width - Cell, a0)
              v == Position(Height - Cell, a1)
          IN /\ IF <<h, v>> = previous THEN UNCHANGED <<glcd, drawn>>
                ELSE /\ glcd' = Square(glcd_cleardisplay(glcd), h, v)
                     /\ drawn' = {(h..h + Cell - 1) \X (v..v + Cell - 1)}
             /\ previous' = <<h, v>>
             /\ UNCHANGED turn
    BY <1>9 DEF printSqure
  <2> DEFINE h == Position(Width - Cell, a0)
             v == Position(Height - Cell, a1)
             d == glcd_cleardisplay(glcd)
  <2>2. Width - Cell \in Nat /\ Height - Cell \in Nat
    <3>1. Height - Cell = Cell * (Pages - 1) /\ Pages - 1 \in Nat
      BY HalfType DEF Height
    <3>2. Cell * (Pages - 1) \in Nat
      BY <3>1, HalfType
    <3>3. QED
      BY <3>1, <3>2, HalfType DEF Width
  <2>3. h \in 0..Width - Cell /\ v \in 0..Height - Cell
    BY <2>2, PositionIs
  <2>4. h \in Columns /\ v \in 0..Height - 1
    <3>1. Width \in Nat /\ Height \in Nat /\ Cell \in Nat /\ Cell > 0
      BY <2>2, HalfType DEF Width, Height
    <3> HIDE DEF h, v
    <3>2. QED
      BY <2>3, <3>1 DEF Columns
  <2>5. /\ IF <<h, v>> = previous THEN UNCHANGED <<glcd, drawn>>
           ELSE /\ glcd' = Square(d, h, v)
                /\ drawn' = {(h..h + Cell - 1) \X (v..v + Cell - 1)}
        /\ previous' = <<h, v>> /\ turn' = turn
    BY <2>1
  <2> HIDE DEF h, v
  <2>6. d \in Displays /\ ShowsAll(d, Dark)
    BY <1>2, PicturesTyped, FillShows DEF glcd_cleardisplay, Dark
  <2> HIDE DEF d
  <2>7. Draws(Square(d, h, v), (h..h + Cell - 1) \X (v..v + Cell - 1))
    BY <2>3, <2>6, SquareShows DEF Draws
  <2>8. previous' \in Columns \X (0..Height - 1) /\ turn' \in 0..Images
    BY <1>2, <2>4, <2>5
  <2>9. CASE <<h, v>> = previous
    BY <1>4, <2>5, <2>8, <2>9
  <2>10. CASE <<h, v>> # previous
    <3> DEFINE picture == (h..h + Cell - 1) \X (v..v + Cell - 1)
    <3>1. Draws(glcd', picture) /\ drawn' = {picture}
      BY <2>5, <2>7, <2>10
    <3> HIDE DEF picture
    <3>2. QED
      BY <1>5, <2>8, <3>1
  <2>11. QED
    BY <2>9, <2>10
<1>10. UNCHANGED display \/ Display
  BY <1>1, StepIs
<1>11. QED
  BY <1>6, <1>7, <1>8, <1>9, <1>10 DEF Display

THEOREM GlcdInvariance == Spec => [](GlcdTypeOK /\ ShowsPicture)
<1>1. QED
  BY InitGlcd, NextGlcd, PTL DEF Spec

\* The page and the column of each controller stay on it, and a square on the
\* screen.
THEOREM GlcdTypeCorrect == Spec => []GlcdTypeOK
<1>1. QED
  BY GlcdInvariance, PTL

\* The display shows the picture that was meant, whatever it showed before: an
\* image, an inverted one, and a square across pages and controllers, for displays
\* and squares of any size.
THEOREM PictureShown == Spec => []ShowsPicture
<1>1. QED
  BY GlcdInvariance, PTL

-----------------------------------------------------------------------------
(* The plotter: digits and numbers.                                        *)

Figures == 0..Base - 1
Characters == 0..LF

LEMMA PlotterNumbers == /\ Base \in Nat /\ Base > 1 /\ Digits \in Nat /\ Digits > 0
                        /\ MaxAverage \in Nat
                        /\ \A n \in 0..MaxAverage : Copies(n)[Digits] = 0
BY PlotterAssumption

\* Each copy is the one before without its last digit; of the last nothing is left.
CopiesOf(copy, n) ==
  /\ copy[0] = n /\ copy[Digits] = 0
  /\ \A i \in 1..Digits : copy[i] = copy[i - 1] \div Base

LEMMA CopiesAre ==
  ASSUME NEW n \in 0..MaxAverage
  PROVE  Copies(n) \in [0..Digits -> Nat] /\ CopiesOf(Copies(n), n)
<1> DEFINE F == [q \in Nat \X (1..Digits) |-> q[1] \div Base]
           IsCopy(f) == f = [i \in 0..Digits |-> IF i = 0 THEN n ELSE f[i - 1] \div Base]
           copy == CHOOSE f : IsCopy(f)
<1>1. n \in Nat /\ Base \in Nat /\ Base > 0 /\ Digits \in Nat
  BY PlotterNumbers
<1>2. F \in [Nat \X (1..Digits) -> Nat] /\ \A m \in Nat, i \in 1..Digits : F[<<m, i>>] = m \div Base
  BY <1>1
<1> HIDE DEF F
<1>3. PICK a \in [0..Digits -> Nat] : a[0] = n /\ \A i \in 1..Digits : a[i] = F[<<a[i - 1], i>>]
  <2>1. F \in [Nat \X (1..Digits) -> Nat]
    BY <1>2
  <2>2. HasLoop(Nat, n, Digits, F)
    BY <1>1, <2>1, LoopExists, Zenon
  <2>3. QED
    BY <2>2, Zenon DEF HasLoop
<1>4. IsCopy(a)
  <2>1. ASSUME NEW i \in 0..Digits PROVE a[i] = IF i = 0 THEN n ELSE a[i - 1] \div Base
    <3>1. CASE i = 0
      BY <1>3, <3>1
    <3>2. CASE i # 0
      <4>1. i \in 1..Digits /\ i - 1 \in 0..Digits
        BY <1>1, <3>2
      <4>2. QED
        BY <1>2, <1>3, <3>2, <4>1
    <3>3. QED
      BY <3>1, <3>2
  <2>2. QED
    BY <2>1
<1>5. IsCopy(copy)
  BY <1>4, Zenon
<1>6. Copies(n) = copy
  BY Zenon DEF Copies
<1>7. \A i \in 1..Digits : i \in 0..Digits /\ i - 1 \in 0..Digits /\ i # 0
  BY <1>1
<1>8. copy[0] = n /\ \A i \in 1..Digits : copy[i] = copy[i - 1] \div Base
  <2>1. 0 \in 0..Digits
    BY <1>1
  <2>2. QED
    BY <1>5, <1>7, <2>1
<1>9. \A i \in 0..Digits : copy[i] = a[i]
  <2> DEFINE T == {i \in 0..Digits : copy[i] = a[i]}
  <2>1. 0 \in T
    BY <1>1, <1>3, <1>8
  <2>2. ASSUME NEW i \in 1..Digits, i - 1 \in T PROVE i \in T
    <3> HIDE DEF copy
    <3>1. a[i] = a[i - 1] \div Base
      BY <1>2, <1>3, <1>7
    <3>2. QED
      BY <1>7, <1>8, <2>2, <3>1
  <2>3. \A i \in 1..Digits : i - 1 \in T => i \in T
    BY <2>2
  <2>4. \A i \in 0..Digits : i \in T
    <3> HIDE DEF T
    <3>1. QED
      BY <1>1, <2>1, <2>3, UpTo
  <2>5. QED
    BY <2>4
<1>10. copy \in [0..Digits -> Nat]
  <2>1. copy = [i \in 0..Digits |-> IF i = 0 THEN n ELSE copy[i - 1] \div Base]
    BY <1>5
  <2> HIDE DEF copy
  <2>2. DOMAIN copy = 0..Digits /\ copy = [i \in 0..Digits |-> copy[i]]
    BY <2>1
  <2>3. QED
    BY <1>3, <1>9, <2>2
<1>11. copy[Digits] = 0
  BY <1>6, PlotterNumbers
<1> HIDE DEF copy
<1>12. QED
  BY <1>6, <1>8, <1>10, <1>11 DEF CopiesOf

LEMMA DigitsAre ==
  ASSUME NEW n \in 0..MaxAverage
  PROVE  /\ DigitsOf(n) \in Seq(Figures) /\ Len(DigitsOf(n)) = Digits
         /\ \A i \in 1..Digits : DigitsOf(n)[i] = Copies(n)[Digits - i] % Base
<1> DEFINE c == Copies(n)
<1>1. c \in [0..Digits -> Nat] /\ Base \in Nat /\ Base > 1 /\ Digits \in Nat
  BY CopiesAre, PlotterNumbers
<1> HIDE DEF c
<1>2. ASSUME NEW i \in 1..Digits PROVE c[Digits - i] % Base \in Figures
  <2>1. Digits - i \in 0..Digits
    BY <1>1
  <2>2. c[Digits - i] \in Nat
    BY <1>1, <2>1
  <2> DEFINE m == c[Digits - i]
  <2> HIDE DEF m
  <2>3. m \in Nat => m % Base \in 0..Base - 1
    BY <1>1
  <2>4. QED
    BY <2>2, <2>3 DEF Figures, m
<1>3. [i \in 1..Digits |-> c[Digits - i] % Base] \in [1..Digits -> Figures]
  BY <1>2
<1>4. DigitsOf(n) = [i \in 1..Digits |-> c[Digits - i] % Base]
  BY DEF DigitsOf, c
<1>5. QED
  BY <1>1, <1>3, <1>4 DEF c

\* What the digits so far amount to.
ValueOf(v, ds) ==
  v[0] = 0 /\ \A i \in 1..Len(ds) : v[i] = v[i - 1] * Base + ds[i]

HasValues(ds) ==
  \E v \in [0..Len(ds) -> Nat] : ValueOf(v, ds) /\ Value(ds) = v[Len(ds)]

LEMMA ValueIs ==
  ASSUME NEW ds \in Seq(Figures)
  PROVE  HasValues(ds)
<1> DEFINE n == Len(ds)
           F == [q \in Nat \X (1..n) |-> q[1] * Base + ds[q[2]]]
           IsValue(f) == f = [i \in 0..Len(ds) |-> IF i = 0 THEN 0 ELSE f[i - 1] * Base + ds[i]]
           value == CHOOSE f : IsValue(f)
<1>1. Base \in Nat /\ n \in Nat /\ \A i \in 1..n : ds[i] \in Nat
  BY PlotterNumbers DEF Figures
<1>2. ASSUME NEW m \in Nat, NEW i \in 1..n PROVE m * Base + ds[i] \in Nat
  <2>1. ds[i] \in Nat
    BY <1>1
  <2>2. QED
    BY <1>1, <2>1
<1> HIDE DEF n
<1>3. F \in [Nat \X (1..n) -> Nat] /\ \A m \in Nat, i \in 1..n : F[<<m, i>>] = m * Base + ds[i]
  BY <1>2
<1> HIDE DEF F
<1>4. PICK a \in [0..n -> Nat] : a[0] = 0 /\ \A i \in 1..n : a[i] = F[<<a[i - 1], i>>]
  <2>1. F \in [Nat \X (1..n) -> Nat] /\ 0 \in Nat
    BY <1>3
  <2>2. HasLoop(Nat, 0, n, F)
    BY <1>1, <2>1, LoopExists, Zenon
  <2>3. QED
    BY <2>2, Zenon DEF HasLoop
<1>5. IsValue(a)
  <2>1. ASSUME NEW i \in 0..n PROVE a[i] = IF i = 0 THEN 0 ELSE a[i - 1] * Base + ds[i]
    <3>1. CASE i = 0
      BY <1>4, <3>1
    <3>2. CASE i # 0
      <4>1. i \in 1..n /\ i - 1 \in 0..n
        BY <1>1, <3>2
      <4>2. QED
        BY <1>3, <1>4, <3>2, <4>1
    <3>3. QED
      BY <3>1, <3>2
  <2>2. QED
    BY <2>1 DEF n
<1>6. IsValue(value)
  BY <1>5, Zenon
<1>7. Value(ds) = value[Len(ds)]
  BY Zenon DEF Value
<1>8. \A i \in 1..n : i \in 0..n /\ i - 1 \in 0..n /\ i # 0
  BY <1>1
<1>9. value[0] = 0 /\ \A i \in 1..n : value[i] = value[i - 1] * Base + ds[i]
  <2>1. 0 \in 0..n
    BY <1>1
  <2>2. QED
    BY <1>6, <1>8, <2>1 DEF n
<1> HIDE DEF value
<1>10. \A i \in 0..n : value[i] = a[i]
  <2> DEFINE T == {i \in 0..n : value[i] = a[i]}
  <2>1. 0 \in T
    BY <1>1, <1>4, <1>9
  <2>2. ASSUME NEW i \in 1..n, i - 1 \in T PROVE i \in T
    <3>1. a[i] = a[i - 1] * Base + ds[i]
      BY <1>3, <1>4, <1>8
    <3>2. QED
      BY <1>8, <1>9, <2>2, <3>1
  <2>3. \A i \in 1..n : i - 1 \in T => i \in T
    BY <2>2
  <2>4. \A i \in 0..n : i \in T
    <3> HIDE DEF T
    <3>1. QED
      BY <1>1, <2>1, <2>3, UpTo
  <2>5. QED
    BY <2>4
<1>11. ValueOf(a, ds) /\ Value(ds) = a[Len(ds)]
  <2>1. \A i \in 1..n : a[i] = a[i - 1] * Base + ds[i]
    BY <1>8, <1>9, <1>10
  <2>2. n \in 0..n
    BY <1>1
  <2>3. value[n] = a[n]
    BY <1>10, <2>2
  <2>4. QED
    BY <1>4, <1>7, <2>1, <2>3 DEF ValueOf, n
<1>12. QED
  BY <1>11 DEF HasValues, n

\* The digits of a number amount to it.
LEMMA ValueOfDigits ==
  ASSUME NEW n \in 0..MaxAverage
  PROVE  Value(DigitsOf(n)) = n
<1> DEFINE c == Copies(n)
           ds == DigitsOf(n)
<1>1. /\ ds \in Seq(Figures) /\ Len(ds) = Digits
      /\ \A i \in 1..Digits : ds[i] = c[Digits - i] % Base
  BY DigitsAre
<1>2. /\ c \in [0..Digits -> Nat] /\ c[0] = n /\ c[Digits] = 0
      /\ \A i \in 1..Digits : c[i] = c[i - 1] \div Base
  BY CopiesAre DEF CopiesOf
<1>3. Base \in Nat /\ Base > 1 /\ Digits \in Nat
  BY PlotterNumbers
<1> HIDE DEF c, ds
<1>4. PICK v \in [0..Digits -> Nat] : ValueOf(v, ds) /\ Value(ds) = v[Digits]
  BY <1>1, ValueIs DEF HasValues
<1> DEFINE T == {i \in 0..Digits : v[i] = c[Digits - i]}
<1>5. 0 \in T
  BY <1>2, <1>3, <1>4 DEF ValueOf
<1>6. ASSUME NEW i \in 1..Digits, i - 1 \in T PROVE i \in T
  <2> DEFINE k == Digits - i
  <2>1. k \in 0..Digits /\ k + 1 \in 1..Digits /\ i \in 0..Digits /\ Digits - (i - 1) = k + 1
        /\ (k + 1) - 1 = k
    BY <1>3
  <2>2. c[k + 1] = c[k] \div Base /\ c[k] \in Nat
    BY <1>2, <2>1
  <2>3. v[i] = v[i - 1] * Base + ds[i] /\ ds[i] = c[k] % Base
    BY <1>1, <1>4 DEF ValueOf
  <2>4. v[i - 1] = c[k + 1]
    BY <1>6, <2>1
  <2> DEFINE m == c[k]
  <2>5. v[i] = (m \div Base) * Base + (m % Base) /\ m \in Nat
    BY <2>2, <2>3, <2>4
  <2> HIDE DEF m
  <2>6. v[i] = m
    BY <1>3, <2>5
  <2>7. QED
    BY <2>1, <2>6 DEF m
<1>7. Digits \in T
  <2>1. \A i \in 1..Digits : i - 1 \in T => i \in T
    BY <1>6
  <2>2. Digits \in 0..Digits
    BY <1>3
  <2> HIDE DEF T
  <2>3. QED
    BY <1>3, <1>5, <2>1, <2>2, UpTo
<1>8. v[Digits] = c[0]
  BY <1>3, <1>7
<1>9. QED
  BY <1>2, <1>4, <1>8 DEF ds

\* Without its first digits a number is no larger.
LEMMA ValueOfRest ==
  ASSUME NEW ds \in Seq(Figures), NEW j \in 0..Len(ds)
  PROVE  /\ SubSeq(ds, j + 1, Len(ds)) \in Seq(Figures)
         /\ Value(SubSeq(ds, j + 1, Len(ds))) \in 0..Value(ds)
<1> DEFINE n == Len(ds)
           ts == SubSeq(ds, j + 1, Len(ds))
           m == n - j
<1>1. n \in Nat /\ j \in Nat /\ m \in Nat /\ Base \in Nat /\ Base > 1
      /\ \A i \in 1..n : ds[i] \in Nat
  BY PlotterNumbers DEF Figures
<1>2. ts \in Seq(Figures) /\ Len(ts) = m /\ \A i \in 1..m : ts[i] = ds[j + i]
  <2>1. j + 1 \in Int /\ Len(ds) \in Int /\ \A i \in j + 1..Len(ds) : ds[i] \in Figures
    BY <1>1
  <2>2. /\ ts \in Seq(Figures)
        /\ Len(ts) = IF j + 1 <= Len(ds) THEN Len(ds) - (j + 1) + 1 ELSE 0
        /\ \A i \in 1..Len(ds) - (j + 1) + 1 : ts[i] = ds[(j + 1) + i - 1]
    BY <2>1, SubSeqProperties
  <2> HIDE DEF ts
  <2>3. Len(ts) = m
    BY <1>1, <2>2
  <2>4. ASSUME NEW i \in 1..m PROVE ts[i] = ds[j + i]
    <3>1. i \in 1..Len(ds) - (j + 1) + 1 /\ (j + 1) + i - 1 = j + i
      BY <1>1
    <3>2. QED
      BY <2>2, <3>1
  <2>5. QED
    BY <2>2, <2>3, <2>4
<1> HIDE DEF ts
<1>3. PICK v \in [0..n -> Nat] : ValueOf(v, ds) /\ Value(ds) = v[n]
  BY ValueIs DEF HasValues
<1>4. PICK w \in [0..m -> Nat] : ValueOf(w, ts) /\ Value(ts) = w[m]
  <2>1. HasValues(ts)
    BY <1>2, ValueIs
  <2>2. QED
    BY <1>2, <2>1 DEF HasValues
<1>5. v[0] = 0 /\ \A i \in 1..n : v[i] = v[i - 1] * Base + ds[i]
  BY <1>3 DEF ValueOf
<1>6. w[0] = 0 /\ \A i \in 1..m : w[i] = w[i - 1] * Base + ds[j + i]
  BY <1>2, <1>4 DEF ValueOf
<1> HIDE DEF n
<1> DEFINE T == {i \in 0..m : w[i] <= v[j + i]}
<1>7. 0 \in T
  <2>1. j + 0 = j /\ v[j] \in Nat /\ 0 \in 0..m
    BY <1>1, <1>3 DEF n
  <2>2. QED
    BY <1>6, <2>1
<1>8. ASSUME NEW i \in 1..m, i - 1 \in T PROVE i \in T
  <2>1. i \in 0..m /\ i - 1 \in 0..m /\ j + i \in 1..n /\ (j + i) - 1 = j + (i - 1)
        /\ j + (i - 1) \in 0..n
    BY <1>1
  <2> DEFINE p == w[i - 1]
             q == v[j + (i - 1)]
             d == ds[j + i]
  <2>2. p \in Nat /\ q \in Nat /\ p <= q /\ d \in Nat
    BY <1>1, <1>3, <1>4, <1>8, <2>1
  <2>3. w[i] = p * Base + d /\ v[j + i] = q * Base + d
    BY <1>5, <1>6, <2>1
  <2> HIDE DEF p, q, d
  <2>4. p * Base + d <= q * Base + d
    BY <1>1, <2>2
  <2>5. QED
    BY <2>1, <2>3, <2>4
<1>9. m \in T
  <2>1. \A i \in 1..m : i - 1 \in T => i \in T
    BY <1>8
  <2>2. m \in 0..m
    BY <1>1
  <2> HIDE DEF T, m
  <2>3. QED
    BY <1>1, <1>7, <2>1, <2>2, UpTo
<1>10. j + m = n /\ m \in 0..m /\ n \in 0..n
  BY <1>1
<1>11. w[m] \in Nat /\ v[n] \in Nat /\ w[m] <= v[n]
  BY <1>3, <1>4, <1>9, <1>10
<1>12. Value(ts) \in 0..Value(ds)
  <2> HIDE DEF m
  <2>1. QED
    BY <1>3, <1>4, <1>11
<1>13. QED
  BY <1>2, <1>12 DEF ts, n
-----------------------------------------------------------------------------
(* The plotter: the line.                                                  *)

\* The characters of a line.
Room == 2 * Digits + 2
LineOf(L, a) ==
  /\ L \in Seq(Characters) /\ Len(L) = Room
  /\ \A i \in 1..Digits : L[i] = DigitsOf(a[1])[i] /\ L[Digits + 1 + i] = DigitsOf(a[2])[i]
  /\ L[Digits + 1] = Comma /\ L[Room] = LF

LEMMA CodesAre == /\ Comma \in Characters /\ LF \in Characters /\ Comma \notin Figures
                  /\ LF \notin Figures /\ Comma # LF /\ Figures \subseteq Characters
                  /\ Room \in Nat /\ Digits < Room
BY PlotterNumbers DEF Comma, LF, Characters, Figures, Room

LEMMA LineIs ==
  ASSUME NEW a \in Averages
  PROVE  LineOf(Line(a), a)
<1> DEFINE s == DigitsOf(a[1])
           t == DigitsOf(a[2])
           c == <<Comma>>
           e == <<LF>>
           sc == s \o c
           sct == sc \o t
           L == sct \o e
<1>1. Digits \in Nat /\ Digits > 0
  BY PlotterNumbers
<1>2. s \in Seq(Figures) /\ Len(s) = Digits /\ t \in Seq(Figures) /\ Len(t) = Digits
  BY DigitsAre DEF Averages
<1>3. s \in Seq(Characters) /\ t \in Seq(Characters)
  <2> HIDE DEF s, t
  <2>1. QED
    BY <1>2, CodesAre, SeqMonotonic
<1>4. /\ c \in Seq(Characters) /\ Len(c) = 1 /\ c[1] = Comma
      /\ e \in Seq(Characters) /\ Len(e) = 1 /\ e[1] = LF
  BY CodesAre
<1>5. Line(a) = L
  BY DEF Line
<1> HIDE DEF s, t, c, e
<1>6. /\ sc \in Seq(Characters) /\ Len(sc) = Digits + 1
      /\ \A i \in 1..Digits + 1 : sc[i] = IF i <= Digits THEN s[i] ELSE c[i - Digits]
  <2>1. /\ s \o c \in Seq(Characters) /\ Len(s \o c) = Len(s) + Len(c)
        /\ \A i \in 1..Len(s) + Len(c) :
             (s \o c)[i] = IF i <= Len(s) THEN s[i] ELSE c[i - Len(s)]
    BY <1>2, <1>3, <1>4, ConcatProperties
  <2>2. QED
    BY <1>2, <1>3, <1>4, <2>1
<1> HIDE DEF sc
<1>7. /\ sct \in Seq(Characters) /\ Len(sct) = Digits + 1 + Digits
      /\ \A i \in 1..(Digits + 1) + Digits :
           sct[i] = IF i <= Digits + 1 THEN sc[i] ELSE t[i - (Digits + 1)]
  <2>1. /\ sc \o t \in Seq(Characters) /\ Len(sc \o t) = Len(sc) + Len(t)
        /\ \A i \in 1..Len(sc) + Len(t) :
             (sc \o t)[i] = IF i <= Len(sc) THEN sc[i] ELSE t[i - Len(sc)]
    BY <1>2, <1>3, <1>6, ConcatProperties
  <2>2. QED
    BY <1>2, <1>3, <1>6, <2>1
<1> HIDE DEF sct
<1>8. /\ L \in Seq(Characters) /\ Len(L) = (Digits + 1 + Digits) + 1
      /\ \A i \in 1..(Digits + 1 + Digits) + 1 :
           L[i] = IF i <= Digits + 1 + Digits THEN sct[i] ELSE e[i - (Digits + 1 + Digits)]
  <2>1. /\ sct \o e \in Seq(Characters) /\ Len(sct \o e) = Len(sct) + Len(e)
        /\ \A i \in 1..Len(sct) + Len(e) :
             (sct \o e)[i] = IF i <= Len(sct) THEN sct[i] ELSE e[i - Len(sct)]
    BY <1>4, <1>7, ConcatProperties
  <2>2. QED
    BY <1>4, <1>7, <2>1
<1> HIDE DEF L
<1>9. Room = (Digits + 1 + Digits) + 1
  BY <1>1 DEF Room
<1>10. ASSUME NEW i \in 1..Digits
       PROVE  L[i] = s[i] /\ L[Digits + 1 + i] = t[i]
  <2>1. L[i] = sct[i] /\ sct[i] = sc[i] /\ sc[i] = s[i]
    BY <1>1, <1>6, <1>7, <1>8
  <2> DEFINE k == Digits + 1 + i
  <2>2. k \in 1..(Digits + 1) + Digits /\ k \in 1..(Digits + 1 + Digits) + 1
        /\ ~(k <= Digits + 1) /\ k <= Digits + 1 + Digits /\ k - (Digits + 1) = i
    BY <1>1
  <2> HIDE DEF k
  <2>3. L[k] = sct[k] /\ sct[k] = t[i]
    BY <1>7, <1>8, <2>2
  <2>4. QED
    BY <2>1, <2>3 DEF k
<1>11. L[Digits + 1] = Comma
  <2> DEFINE k == Digits + 1
  <2>1. k \in 1..k /\ k \in 1..(Digits + 1) + Digits /\ k \in 1..(Digits + 1 + Digits) + 1
        /\ k <= Digits + 1 /\ k <= Digits + 1 + Digits /\ ~(k <= Digits) /\ k - Digits = 1
    BY <1>1
  <2>2. L[k] = sct[k] /\ sct[k] = sc[k] /\ sc[k] = c[1]
    BY <1>6, <1>7, <1>8, <2>1
  <2>3. QED
    BY <1>4, <2>2
<1>12. L[Room] = LF
  <2> DEFINE k == (Digits + 1 + Digits) + 1
  <2>1. k \in 1..k /\ ~(k <= Digits + 1 + Digits) /\ k - (Digits + 1 + Digits) = 1
    BY <1>1
  <2>2. L[k] = e[1]
    BY <1>8, <2>1
  <2>3. QED
    BY <1>4, <1>9, <2>2
<1>13. LineOf(L, a)
  BY <1>8, <1>9, <1>10, <1>11, <1>12 DEF LineOf, s, t
<1>14. QED
  BY <1>5, <1>13

\* A line has one comma, and one line feed, at its end.
LEMMA LineMarks ==
  ASSUME NEW a \in Averages, NEW i \in 1..Room
  PROVE  /\ Line(a)[i] = Comma <=> i = Digits + 1
         /\ Line(a)[i] = LF <=> i = Room
<1> DEFINE L == Line(a)
<1>1. LineOf(L, a)
  BY LineIs
<1> HIDE DEF L
<1>2. Digits \in Nat /\ Digits > 0 /\ Room = 2 * Digits + 2
  BY PlotterNumbers DEF Room
<1>3. CASE i \in 1..Digits
  <2>1. L[i] \in Figures
    BY <1>1, <1>3, DigitsAre DEF LineOf, Averages
  <2>2. QED
    BY <1>2, <1>3, <2>1, CodesAre DEF L
<1>4. CASE i = Digits + 1
  BY <1>1, <1>2, <1>4, CodesAre DEF LineOf, L
<1>5. CASE i \in Digits + 2..Room - 1
  <2> DEFINE k == i - (Digits + 1)
  <2>1. k \in 1..Digits /\ i = Digits + 1 + k
    BY <1>2, <1>5
  <2> HIDE DEF k
  <2>2. L[i] \in Figures
    BY <1>1, <2>1, DigitsAre DEF LineOf, Averages
  <2>3. QED
    BY <1>2, <1>5, <2>2, CodesAre DEF L
<1>6. CASE i = Room
  BY <1>1, <1>2, <1>6, CodesAre DEF LineOf, L
<1>7. QED
  BY <1>2, <1>3, <1>4, <1>5, <1>6

\* A stretch of a line.
LEMMA StretchIs ==
  ASSUME NEW S, NEW s \in Seq(S), NEW j \in 0..Len(s), NEW k \in j..Len(s)
  PROVE  /\ SubSeq(s, j + 1, k) \in Seq(S) /\ Len(SubSeq(s, j + 1, k)) = k - j
         /\ \A i \in 1..k - j : SubSeq(s, j + 1, k)[i] = s[j + i]
<1> DEFINE t == SubSeq(s, j + 1, k)
<1>1. Len(s) \in Nat /\ j \in Nat /\ k \in Nat /\ s \in [1..Len(s) -> S]
  BY LenProperties
<1>2. j + 1 \in Int /\ k \in Int /\ \A i \in j + 1..k : s[i] \in S
  BY <1>1
<1>3. /\ t \in Seq(S) /\ Len(t) = IF j + 1 <= k THEN k - (j + 1) + 1 ELSE 0
      /\ \A i \in 1..k - (j + 1) + 1 : t[i] = s[(j + 1) + i - 1]
  BY <1>2, SubSeqProperties
<1> HIDE DEF t
<1>4. Len(t) = k - j
  BY <1>1, <1>3
<1>5. ASSUME NEW i \in 1..k - j PROVE t[i] = s[j + i]
  <2>1. i \in 1..k - (j + 1) + 1 /\ (j + 1) + i - 1 = j + i
    BY <1>1
  <2>2. QED
    BY <1>3, <2>1
<1>6. QED
  BY <1>3, <1>4, <1>5 DEF t

LEMMA PrefixIs ==
  ASSUME NEW S, NEW s \in Seq(S), NEW k \in 0..Len(s)
  PROVE  /\ SubSeq(s, 1, k) \in Seq(S) /\ Len(SubSeq(s, 1, k)) = k
         /\ \A i \in 1..k : SubSeq(s, 1, k)[i] = s[i]
<1>1. Len(s) \in Nat /\ k \in Nat /\ s \in [1..Len(s) -> S]
  BY LenProperties
<1>2. 1 \in Int /\ k \in Int /\ \A i \in 1..k : s[i] \in S
  BY <1>1
<1>3. /\ SubSeq(s, 1, k) \in Seq(S) /\ Len(SubSeq(s, 1, k)) = IF 1 <= k THEN k - 1 + 1 ELSE 0
      /\ \A i \in 1..k - 1 + 1 : SubSeq(s, 1, k)[i] = s[1 + i - 1]
  BY <1>2, SubSeqProperties
<1>4. QED
  BY <1>1, <1>3

\* The first place of a character that has one place.
LEMMA FirstIs ==
  ASSUME NEW n \in Nat, NEW T \in SUBSET (1..n), NEW k \in T, \A i \in T : i = k
  PROVE  Min(T) = k /\ T # {}
<1>1. T = {k}
  OBVIOUS
<1>2. QED
  BY <1>1 DEF Min

\* Where a line is cut, at its beginning or later, it gives a point or none; the
\* whole line gives its averages.
LEMMA ParsedIs ==
  ASSUME NEW a \in Averages, NEW j \in 0..Room - 1
  PROVE  LET line == SubSeq(Line(a), j + 1, Room - 1)
         IN  /\ Parsed(line) \in Averages \cup {NoPoint}
             /\ j = 0 => Parsed(line) = a
<1> DEFINE L == Line(a)
           n == Room - 1 - j
           line == SubSeq(Line(a), j + 1, Room - 1)
           T == {i \in 1..Len(line) : line[i] = Comma}
<1>1. LineOf(L, a)
  BY LineIs
<1>2. Digits \in Nat /\ Digits > 0 /\ Room \in Nat /\ Room = 2 * Digits + 2 /\ j \in Nat /\ n \in Nat
  BY PlotterNumbers DEF Room
<1>3. line \in Seq(Characters) /\ Len(line) = n /\ \A i \in 1..n : line[i] = L[j + i]
  <2>1. L \in Seq(Characters) /\ Len(L) = Room
    BY <1>1 DEF LineOf
  <2>2. j \in 0..Len(L) /\ Room - 1 \in j..Len(L)
    BY <1>2, <2>1
  <2> HIDE DEF L
  <2>3. /\ SubSeq(L, j + 1, Room - 1) \in Seq(Characters)
        /\ Len(SubSeq(L, j + 1, Room - 1)) = (Room - 1) - j
        /\ \A i \in 1..(Room - 1) - j : SubSeq(L, j + 1, Room - 1)[i] = L[j + i]
    BY <2>1, <2>2, StretchIs
  <2>4. QED
    BY <2>3 DEF L
<1>4. ASSUME NEW i \in 1..n PROVE line[i] = Comma <=> i = Digits + 1 - j
  <2>1. j + i \in 1..Room
    BY <1>2
  <2>2. L[j + i] = Comma <=> j + i = Digits + 1
    BY <2>1, LineMarks
  <2>3. QED
    BY <1>2, <1>3, <2>2
<1> DEFINE first == IF T # {} THEN Min(T) ELSE 0
           left == SubSeq(line, 1, first - 1)
           right == SubSeq(line, first + 1, Len(line))
<1>5. Parsed(line) = IF first = 0 \/ left = <<>> \/ right = <<>> THEN NoPoint
                     ELSE <<Value(left), Value(SubSeq(right, 1, Digits))>>
  BY DEF Parsed, SelectInSeq
<1> HIDE DEF n, line, L
<1>6. CASE j > Digits
  <2>1. T = {}
    BY <1>2, <1>3, <1>4, <1>6
  <2>2. QED
    BY <1>2, <1>5, <1>6, <2>1 DEF line
<1>7. CASE j <= Digits
  <2> DEFINE k == Digits + 1 - j
  <2>1. k \in T /\ \A i \in T : i = k
    BY <1>2, <1>3, <1>4, <1>7 DEF n
  <2>2. first = k
    <3>1. T \in SUBSET (1..n) /\ n \in Nat
      BY <1>2, <1>3
    <3> HIDE DEF T, k
    <3>2. QED
      BY <2>1, <3>1, FirstIs
  <2> HIDE DEF first
  <2>3. k # 0 /\ k - 1 = Digits - j /\ n - k = Digits /\ k \in 0..n /\ j + k = Digits + 1
        /\ k - 1 \in 0..n /\ 0 \in 0..n
    BY <1>2, <1>7 DEF n
  <2> DEFINE s == DigitsOf(a[1])
             t == DigitsOf(a[2])
             rest == SubSeq(s, j + 1, Len(s))
  <2>4. /\ s \in Seq(Figures) /\ Len(s) = Digits /\ t \in Seq(Figures) /\ Len(t) = Digits
        /\ Value(s) = a[1] /\ Value(t) = a[2]
    BY DigitsAre, ValueOfDigits DEF Averages
  <2>5. \A i \in 1..Digits : L[i] = s[i] /\ L[Digits + 1 + i] = t[i]
    BY <1>1 DEF LineOf
  <2> HIDE DEF s, t, k
  <2>6. left = rest
    <3>1. k - 1 \in 0..Len(line)
      BY <1>3, <2>3
    <3>2. left \in Seq(Characters) /\ Len(left) = Digits - j
          /\ \A i \in 1..Digits - j : left[i] = line[i]
      BY <1>3, <2>2, <2>3, <3>1, PrefixIs
    <3>3. /\ rest \in Seq(Figures) /\ Len(rest) = Digits - j
          /\ \A i \in 1..Digits - j : rest[i] = s[j + i]
      <4>1. j \in 0..Len(s) /\ Len(s) \in j..Len(s)
        BY <1>2, <1>7, <2>4
      <4>2. QED
        BY <2>4, <4>1, StretchIs
    <3> HIDE DEF left, rest
    <3>4. rest \in Seq(Characters)
      BY <3>3, CodesAre, SeqMonotonic
    <3>5. ASSUME NEW i \in 1..Digits - j PROVE left[i] = rest[i]
      <4>1. i \in 1..n /\ j + i \in 1..Digits
        BY <1>2, <1>7 DEF n
      <4>2. QED
        BY <1>3, <2>5, <3>2, <3>3, <4>1
    <3>6. QED
      BY <3>2, <3>3, <3>4, <3>5, SeqEqual
  <2>7. right = t
    <3>1. right \in Seq(Characters) /\ Len(right) = n - k
          /\ \A i \in 1..n - k : right[i] = line[k + i]
      <4>1. k \in 0..Len(line) /\ Len(line) \in k..Len(line)
        BY <1>2, <1>3, <2>3
      <4> DEFINE m == Len(line)
      <4>2. right = SubSeq(line, k + 1, m) /\ m = n
        BY <1>3, <2>2
      <4> HIDE DEF right
      <4>3. /\ SubSeq(line, k + 1, m) \in Seq(Characters)
            /\ Len(SubSeq(line, k + 1, m)) = m - k
            /\ \A i \in 1..m - k : SubSeq(line, k + 1, m)[i] = line[k + i]
        BY <1>3, <4>1, StretchIs
      <4>4. QED
        BY <4>2, <4>3
    <3>2. t \in Seq(Characters)
      BY <2>4, CodesAre, SeqMonotonic
    <3> HIDE DEF right
    <3>3. ASSUME NEW i \in 1..Digits PROVE right[i] = t[i]
      <4>1. k + i \in 1..n /\ j + (k + i) = Digits + 1 + i /\ i \in 1..n - k
        BY <1>2, <2>3
      <4>2. right[i] = line[k + i] /\ line[k + i] = L[j + (k + i)]
        BY <1>3, <3>1, <4>1
      <4>3. QED
        BY <2>5, <4>1, <4>2
    <3>4. QED
      BY <2>3, <2>4, <3>1, <3>2, <3>3, SeqEqual
  <2> HIDE DEF left, right
  <2>8. SubSeq(right, 1, Digits) = t
    BY <2>4, <2>7, SubSeqFull
  <2>9. t # <<>>
    BY <1>2, <2>4
  <2>10. Parsed(line) = IF rest = <<>> THEN NoPoint ELSE <<Value(rest), a[2]>>
    BY <1>5, <2>2, <2>3, <2>4, <2>6, <2>7, <2>8, <2>9
  <2>11. Value(rest) \in 0..MaxAverage
    <3>1. j \in 0..Len(s)
      BY <1>2, <1>7, <2>4
    <3>2. Value(rest) \in 0..a[1]
      BY <2>4, <3>1, ValueOfRest
    <3>3. a[1] \in 0..MaxAverage /\ MaxAverage \in Nat
      BY PlotterNumbers DEF Averages
    <3> HIDE DEF rest
    <3>4. QED
      BY <3>2, <3>3
  <2>12. j = 0 => rest = s
    BY <2>4, SubSeqFull
  <2>13. s # <<>>
    BY <1>2, <2>4
  <2> HIDE DEF rest
  <2>14. a[1] \in 0..MaxAverage /\ a[2] \in 0..MaxAverage /\ a = <<a[1], a[2]>>
    BY DEF Averages
  <2>15. Parsed(line) \in Averages \cup {NoPoint}
    BY <2>10, <2>11, <2>14 DEF Averages
  <2>16. j = 0 => Parsed(line) = a
    BY <2>4, <2>10, <2>12, <2>13, <2>14
  <2>17. QED
    BY <2>15, <2>16 DEF line
<1>8. QED
  BY <1>2, <1>6, <1>7
-----------------------------------------------------------------------------
(* The plotter: lines on their way.                                        *)

\* The characters sent and not plotted are a stretch of the line that is being
\* sent: unsent is its rest from k on and, when the host does not draw, input is
\* what lies between j and k.  A line is whole where j is its beginning.
Stretch(j, k) == SubSeq(Line(frame), j + 1, k)
OnItsWay == \E k \in 0..Room :
              /\ unsent = Stretch(k, Room)
              /\ ~drawing => \E j \in 0..k : /\ input = Stretch(j, k)
                                             /\ whole => j = 0 \/ j = Room
PlotterIInv == PlotterTypeOK /\ WholeLinesPlotted /\ OnItsWay

LEMMA StretchesAre ==
  ASSUME frame \in Averages, NEW k \in 0..Room, NEW j \in 0..k
  PROVE  /\ Stretch(j, k) \in Seq(Characters) /\ Len(Stretch(j, k)) = k - j
         /\ \A i \in 1..k - j : Stretch(j, k)[i] = Line(frame)[j + i]
         /\ Stretch(j, k) = <<>> <=> j = k
         /\ Stretch(0, Room) = Line(frame) /\ Len(Line(frame)) = Room
<1> DEFINE L == Line(frame)
           t == Stretch(j, k)
<1>1. L \in Seq(Characters) /\ Len(L) = Room
  BY LineIs DEF LineOf
<1>2. Room \in Nat /\ j \in Nat /\ k \in Nat /\ j <= k
  BY CodesAre
<1>3. t \in Seq(Characters) /\ Len(t) = k - j /\ \A i \in 1..k - j : t[i] = L[j + i]
  <2>1. j \in 0..Len(L) /\ k \in j..Len(L)
    BY <1>1, <1>2
  <2>2. t = SubSeq(L, j + 1, k)
    BY DEF Stretch
  <2> HIDE DEF L, t
  <2>3. QED
    BY <1>1, <2>1, <2>2, StretchIs
<1> HIDE DEF t
<1>4. t = <<>> <=> j = k
  BY <1>2, <1>3
<1>5. Stretch(0, Room) = L
  <2>1. Stretch(0, Room) = SubSeq(L, 1, Len(L))
    BY <1>1 DEF Stretch
  <2> HIDE DEF L
  <2>2. QED
    BY <1>1, <2>1, SubSeqFull
<1>6. QED
  BY <1>1, <1>3, <1>4, <1>5 DEF t

\* Where a line feed has come in, the line has been sent to its end.
LEMMA FeedIsLast ==
  ASSUME frame \in Averages, NEW k \in 0..Room, NEW j \in 0..k
  PROVE  Contains(Stretch(j, k), LF) <=> k = Room /\ j < Room
<1> DEFINE t == Stretch(j, k)
<1>1. t \in Seq(Characters) /\ Len(t) = k - j /\ \A i \in 1..k - j : t[i] = Line(frame)[j + i]
  BY StretchesAre
<1>2. Room \in Nat /\ j \in Nat /\ k \in Nat /\ j <= k
  BY CodesAre
<1> HIDE DEF t
<1>3. ASSUME NEW i \in 1..k - j PROVE t[i] = LF <=> j + i = Room
  <2>1. j + i \in 1..Room
    BY <1>2
  <2>2. QED
    BY <1>1, <2>1, LineMarks
<1>4. Contains(t, LF) <=> \E i \in 1..k - j : j + i = Room
  BY <1>1, <1>3 DEF Contains
<1>5. (\E i \in 1..k - j : j + i = Room) <=> k = Room /\ j < Room
  <2>1. ASSUME k = Room, j < Room PROVE \E i \in 1..k - j : j + i = Room
    <3>1. k - j \in 1..k - j /\ j + (k - j) = Room
      BY <1>2, <2>1
    <3>2. QED
      BY <3>1
  <2>2. ASSUME NEW i \in 1..k - j, j + i = Room PROVE k = Room /\ j < Room
    BY <1>2, <2>2
  <2>3. QED
    BY <2>1, <2>2
<1>6. QED
  BY <1>4, <1>5 DEF t

\* What is left of a line is a suffix of it.
LEMMA RestIs ==
  ASSUME frame \in Averages
  PROVE  \A s : s \in Suffixes(Line(frame)) <=> \E k \in 0..Room : s = Stretch(k, Room)
<1> DEFINE L == Line(frame)
<1>1. Room \in Nat /\ Len(L) = Room
  BY LineIs, CodesAre DEF LineOf
<1>2. Stretch(Room, Room) = <<>>
  <2>1. Room \in 0..Room
    BY <1>1
  <2>2. QED
    BY <2>1, StretchesAre
<1>3. ASSUME NEW s, s \in Suffixes(L) PROVE \E k \in 0..Room : s = Stretch(k, Room)
  <2>1. CASE s = <<>>
    <3>1. Room \in 0..Room
      BY <1>1
    <3>2. QED
      BY <1>2, <2>1, <3>1
  <2>2. CASE s # <<>>
    <3>1. PICK l \in 1..Room : s = SubSeq(L, l, Room)
      BY <1>1, <1>3, <2>2 DEF Suffixes
    <3> DEFINE k == l - 1
    <3>2. k \in 0..Room /\ k + 1 = l
      BY <1>1
    <3> HIDE DEF k
    <3>3. s = Stretch(k, Room)
      BY <3>1, <3>2 DEF Stretch
    <3>4. QED
      BY <3>2, <3>3
  <2>3. QED
    BY <2>1, <2>2
<1>4. ASSUME NEW k \in 0..Room PROVE Stretch(k, Room) \in Suffixes(L)
  <2>1. CASE k = Room
    BY <1>2, <2>1 DEF Suffixes
  <2>2. CASE k # Room
    <3>1. k + 1 \in 1..Len(L)
      BY <1>1, <2>2
    <3>2. Stretch(k, Room) = SubSeq(L, k + 1, Len(L))
      BY <1>1 DEF Stretch
    <3> HIDE DEF L
    <3>3. QED
      BY <3>1, <3>2 DEF Suffixes
  <2>3. QED
    BY <2>1, <2>2
<1>5. QED
  BY <1>3, <1>4

LEMMA InitPlotter == Init => PlotterIInv
<1>1. SUFFICES ASSUME Init PROVE PlotterIInv
  OBVIOUS
<1>2. /\ frame \in Averages /\ unsent \in Suffixes(Line(frame)) /\ input = <<>>
      /\ drawing = FALSE /\ whole = (unsent \in {<<>>, Line(frame)})
      /\ plotted = NoPoint /\ due = NoPoint
  BY <1>1 DEF Init, PlotterInit
<1>3. PICK k \in 0..Room : unsent = Stretch(k, Room)
  BY <1>2, RestIs
<1>4. Room \in Nat /\ k \in 0..k /\ Room \in 0..Room /\ 0 \in 0..Room /\ 0 \in 0..k /\ k \in Nat
  BY CodesAre
<1>5. input = Stretch(k, k)
  BY <1>2, <1>4, StretchesAre
<1>6. whole => k = 0 \/ k = Room
  <2>1. /\ Stretch(k, Room) = <<>> <=> k = Room
        /\ Len(Stretch(k, Room)) = Room - k /\ Len(Line(frame)) = Room
    <3>1. k \in 0..Room
      OBVIOUS
    <3>2. QED
      BY <1>2, <1>4, StretchesAre
  <2>2. whole => unsent = <<>> \/ unsent = Line(frame)
    BY <1>2, Zenon
  <2>3. unsent = <<>> => k = Room
    BY <1>3, <2>1
  <2>4. unsent = Line(frame) => k = 0
    BY <1>3, <1>4, <2>1
  <2>5. QED
    BY <2>2, <2>3, <2>4
<1>7. OnItsWay
  BY <1>3, <1>4, <1>5, <1>6 DEF OnItsWay
<1>8. input \in Seq(0..LF) /\ Len(input) <= Len(Line(frame)) /\ whole \in BOOLEAN
  BY <1>2, <1>4, StretchesAre
<1>9. QED
  BY <1>2, <1>7, <1>8 DEF PlotterIInv, PlotterTypeOK, WholeLinesPlotted

\* What the steps share: the type and the point follow from the parts a step sets.
LEMMA PlotterParts ==
  ASSUME frame' \in Averages, input' \in Seq(Characters), Len(input') <= Room,
         drawing' \in BOOLEAN, whole' \in BOOLEAN,
         plotted' \in Averages \cup {NoPoint}, due' \in Averages \cup {NoPoint},
         WholeLinesPlotted', OnItsWay'
  PROVE  PlotterIInv'
<1>1. Len(Line(frame')) = Room
  BY LineIs DEF LineOf
<1>2. \A k : Stretch(k, Room)' = SubSeq(Line(frame'), k + 1, Room)
  BY DEF Stretch
<1>3. unsent' \in Suffixes(Line(frame'))
  <2>1. PICK k \in 0..Room : unsent' = SubSeq(Line(frame'), k + 1, Room)
    BY <1>2 DEF OnItsWay
  <2> DEFINE M == Line(frame')
  <2>2. Room \in Nat
    BY CodesAre
  <2>3. CASE k = Room
    <3>1. Room + 1 \in Int /\ Room \in Int /\ Room < Room + 1
      BY <2>2
    <3>2. unsent' = <<>>
      BY <2>1, <2>3, <3>1, SubSeqEmpty
    <3>3. QED
      BY <3>2 DEF Suffixes
  <2>4. CASE k # Room
    <3>1. k + 1 \in 1..Len(M)
      BY <1>1, <2>2, <2>4
    <3>2. unsent' = SubSeq(M, k + 1, Len(M))
      BY <1>1, <2>1
    <3> HIDE DEF M
    <3>3. unsent' \in Suffixes(M)
      BY <3>1, <3>2 DEF Suffixes
    <3>4. QED
      BY <3>3 DEF M
  <2>5. QED
    BY <2>3, <2>4
<1>4. QED
  BY <1>1, <1>3 DEF PlotterIInv, PlotterTypeOK, Characters
LEMMA SampleKeeps == PlotterIInv /\ Sample => PlotterIInv'
<1>1. SUFFICES ASSUME PlotterIInv, Sample PROVE PlotterIInv'
  OBVIOUS
<1>2. /\ frame \in Averages /\ input \in Seq(Characters) /\ Len(input) <= Room
      /\ drawing \in BOOLEAN /\ whole \in BOOLEAN
      /\ plotted \in Averages \cup {NoPoint} /\ due \in Averages \cup {NoPoint}
  BY <1>1, LineIs DEF PlotterIInv, PlotterTypeOK, Characters, LineOf
<1>3. PICK a \in Averages : frame' = a /\ unsent' = Line(a)
  BY <1>1 DEF Sample
<1>4. /\ unsent = <<>> /\ (drawing \/ ~Contains(input, LF))
      /\ UNCHANGED <<input, drawing, whole, plotted, due>>
  BY <1>1 DEF Sample
<1>5. PICK k \in 0..Room :
        /\ unsent = Stretch(k, Room)
        /\ ~drawing => \E j \in 0..k : /\ input = Stretch(j, k)
                                       /\ whole => j = 0 \/ j = Room
  BY <1>1 DEF PlotterIInv, OnItsWay
<1>6. Room \in Nat /\ Room \in 0..Room /\ 0 \in 0..Room /\ 0 \in 0..0
  BY CodesAre
<1>7. k = Room
  BY <1>2, <1>4, <1>5, <1>6, StretchesAre
<1>8. ~drawing => input = <<>>
  <2>1. SUFFICES ASSUME ~drawing PROVE input = <<>>
    OBVIOUS
  <2>2. PICK j \in 0..k : input = Stretch(j, k)
    BY <1>5, <2>1
  <2>3. ~Contains(Stretch(j, k), LF)
    BY <1>4, <2>1, <2>2
  <2>4. ~(j < Room)
    BY <1>2, <1>7, <2>3, FeedIsLast
  <2>5. j = k
    BY <1>6, <1>7, <2>4
  <2>6. QED
    BY <1>2, <2>2, <2>5, StretchesAre
<1>9. OnItsWay'
  <2>1. unsent' = Stretch(0, Room)'
    <3>1. LineOf(Line(a), a)
      BY LineIs
    <3> DEFINE M == Line(a)
    <3>2. M \in Seq(Characters) /\ Len(M) = Room
      BY <3>1 DEF LineOf
    <3>3. Stretch(0, Room)' = SubSeq(M, 1, Room)
      BY <1>3 DEF Stretch
    <3>4. unsent' = M
      BY <1>3
    <3> HIDE DEF M
    <3>5. QED
      BY <3>2, <3>3, <3>4, SubSeqFull
  <2>2. Stretch(0, 0)' = <<>>
    <3>1. 0 + 1 \in Int /\ 0 \in Int /\ 0 < 0 + 1
      OBVIOUS
    <3>2. QED
      BY <3>1, SubSeqEmpty DEF Stretch
  <2>3. ~drawing' => input' = Stretch(0, 0)'
    BY <1>4, <1>8, <2>2
  <2>4. QED
    BY <1>6, <2>1, <2>3 DEF OnItsWay
<1>10. WholeLinesPlotted'
  BY <1>1, <1>4 DEF PlotterIInv, WholeLinesPlotted
<1>11. frame' \in Averages
  BY <1>3
<1>12. QED
  BY <1>2, <1>4, <1>9, <1>10, <1>11, PlotterParts

LEMMA SendCharKeeps == PlotterIInv /\ SendChar => PlotterIInv'
<1>1. SUFFICES ASSUME PlotterIInv, SendChar PROVE PlotterIInv'
  OBVIOUS
<1>2. /\ frame \in Averages /\ input \in Seq(Characters) /\ Len(input) <= Room
      /\ drawing \in BOOLEAN /\ whole \in BOOLEAN
      /\ plotted \in Averages \cup {NoPoint} /\ due \in Averages \cup {NoPoint}
      /\ Len(Line(frame)) = Room
  BY <1>1, LineIs DEF PlotterIInv, PlotterTypeOK, Characters, LineOf
<1>3. /\ unsent # <<>> /\ unsent' = Tail(unsent)
      /\ input' = IF Len(input) < Room THEN Append(input, Head(unsent)) ELSE input
      /\ UNCHANGED <<frame, drawing, whole, plotted, due>>
  BY <1>1, <1>2 DEF SendChar
<1>4. PICK k \in 0..Room :
        /\ unsent = Stretch(k, Room)
        /\ ~drawing => \E j \in 0..k : /\ input = Stretch(j, k)
                                       /\ whole => j = 0 \/ j = Room
  BY <1>1 DEF PlotterIInv, OnItsWay
<1>5. Room \in Nat /\ Room \in 0..Room /\ k \in 0..k /\ k \in Nat
  BY CodesAre
<1>6. k < Room
  BY <1>2, <1>3, <1>4, <1>5, StretchesAre
<1> DEFINE L == Line(frame)
           m == k + 1
<1>7. L \in Seq(Characters) /\ Len(L) = Room
  BY <1>2, LineIs DEF LineOf
<1>8. m \in 1..Room /\ m \in 0..Room /\ m \in 1..Len(L) /\ Room \in m..Len(L)
  BY <1>5, <1>6, <1>7
<1>9. Head(unsent) = L[m] /\ Tail(unsent) = Stretch(m, Room) /\ L[m] \in Characters
  <2>1. unsent = SubSeq(L, m, Room)
    BY <1>4 DEF Stretch
  <2>2. Stretch(m, Room) = SubSeq(L, m + 1, Room)
    BY DEF Stretch
  <2> HIDE DEF L, m
  <2>3. Head(SubSeq(L, m, Room)) = L[m] /\ Tail(SubSeq(L, m, Room)) = SubSeq(L, m + 1, Room)
    BY <1>7, <1>8, HeadTailOfSubSeq
  <2>4. L[m] \in Characters
    BY <1>7, <1>8, ElementOfSeq
  <2>5. QED
    BY <2>1, <2>2, <2>3, <2>4
<1>10. input' \in Seq(Characters) /\ Len(input') <= Room
  <2> DEFINE c == Head(unsent)
  <2>1. c \in Characters
    BY <1>9
  <2>2. Len(input) \in Nat
    BY <1>2, LenProperties
  <2> HIDE DEF c
  <2>3. Append(input, c) \in Seq(Characters) /\ Len(Append(input, c)) = Len(input) + 1
    BY <1>2, <2>1, AppendProperties
  <2>4. QED
    BY <1>2, <1>3, <1>5, <2>2, <2>3 DEF c
<1>11. ~drawing => \E j \in 0..m : /\ input' = Stretch(j, m)
                                   /\ whole => j = 0 \/ j = Room
  <2>1. SUFFICES ASSUME ~drawing
                 PROVE  \E j \in 0..m : input' = Stretch(j, m) /\ (whole => j = 0 \/ j = Room)
    OBVIOUS
  <2>2. PICK j \in 0..k : input = Stretch(j, k) /\ (whole => j = 0 \/ j = Room)
    BY <1>4, <2>1
  <2>3. Len(input) = k - j /\ j \in 0..m /\ m - 1 = k /\ m \in j + 1..Len(L)
        /\ j + 1 \in 1..Len(L)
    <3>1. Len(input) = k - j
      BY <1>2, <2>2, StretchesAre
    <3>2. j \in 0..m /\ m - 1 = k /\ m \in j + 1..Room /\ j + 1 \in 1..Room
      BY <1>5, <1>6
    <3>3. QED
      BY <1>7, <3>1, <3>2
  <2>4. input' = Append(input, L[m])
    BY <1>3, <1>5, <1>6, <1>9, <2>3
  <2>5. SubSeq(L, j + 1, m) = SubSeq(L, j + 1, m - 1) \o <<L[m]>>
    <3> DEFINE p == j + 1
    <3>1. p \in 1..Len(L) /\ m \in p..Len(L)
      BY <2>3
    <3> HIDE DEF p, m, L
    <3>2. SubSeq(L, p, m) = SubSeq(L, p, m - 1) \o <<L[m]>>
      BY <1>7, <3>1, SubSeqRecursiveSecond
    <3>3. QED
      BY <3>2 DEF p
  <2>6. Stretch(j, m) = input \o <<L[m]>>
    <3>1. Stretch(j, m) = SubSeq(L, j + 1, m) /\ input = SubSeq(L, j + 1, m - 1)
      BY <2>2, <2>3 DEF Stretch
    <3>2. QED
      BY <2>5, <3>1
  <2>7. input' = Stretch(j, m)
    <3> HIDE DEF L, m
    <3>1. QED
      BY <1>2, <1>9, <2>4, <2>6, AppendIsConcat
  <2>8. QED
    BY <2>2, <2>3, <2>7
<1>12. OnItsWay'
  <2>1. \A i, n : Stretch(i, n)' = Stretch(i, n)
    BY <1>3 DEF Stretch
  <2> HIDE DEF m
  <2>2. unsent' = Stretch(m, Room)'
    BY <1>3, <1>9, <2>1
  <2>3. ~drawing' => \E j \in 0..m : /\ input' = Stretch(j, m)'
                                     /\ whole' => j = 0 \/ j = Room
    BY <1>3, <1>11, <2>1
  <2>4. QED
    BY <1>8, <2>2, <2>3 DEF OnItsWay
<1>13. WholeLinesPlotted'
  BY <1>1, <1>3 DEF PlotterIInv, WholeLinesPlotted
<1>14. QED
  BY <1>2, <1>3, <1>10, <1>12, <1>13, PlotterParts
LEMMA ReadLineKeeps == PlotterIInv /\ ReadLine => PlotterIInv'
<1>1. SUFFICES ASSUME PlotterIInv, ReadLine PROVE PlotterIInv'
  OBVIOUS
<1>2. /\ frame \in Averages /\ input \in Seq(Characters) /\ Len(input) <= Room
      /\ plotted \in Averages \cup {NoPoint} /\ due \in Averages \cup {NoPoint}
  BY <1>1, LineIs DEF PlotterIInv, PlotterTypeOK, Characters, LineOf
<1> DEFINE T == {i \in 1..Len(input) : input[i] = LF}
           end == IF T # {} THEN Min(T) ELSE 0
           point == Parsed(SubSeq(input, 1, end - 1))
<1>3. /\ ~drawing /\ Contains(input, LF) /\ UNCHANGED <<frame, unsent>>
      /\ input' = SubSeq(input, end + 1, Len(input))
      /\ drawing' = (point # NoPoint)
      /\ plotted' = IF point = NoPoint THEN plotted ELSE point
      /\ due' = IF point # NoPoint /\ whole THEN frame ELSE NoPoint
      /\ whole' = TRUE
  BY <1>1 DEF ReadLine, SelectInSeq
<1> HIDE DEF point, end, T
<1>4. PICK k \in 0..Room :
        /\ unsent = Stretch(k, Room)
        /\ ~drawing => \E j \in 0..k : /\ input = Stretch(j, k)
                                       /\ whole => j = 0 \/ j = Room
  BY <1>1 DEF PlotterIInv, OnItsWay
<1>5. PICK j \in 0..k : input = Stretch(j, k) /\ (whole => j = 0 \/ j = Room)
  BY <1>3, <1>4
<1>6. k = Room /\ j < Room
  BY <1>2, <1>3, <1>5, FeedIsLast
<1> DEFINE n == Room - j
<1>7. Room \in Nat /\ j \in 0..Room - 1 /\ n \in Nat /\ n > 0 /\ Room \in 0..Room
      /\ Room - 1 \in 0..Room /\ j \in 0..Room
  BY <1>6, CodesAre
<1>8. Len(input) = n /\ \A i \in 1..n : input[i] = Line(frame)[j + i]
  BY <1>2, <1>5, <1>6, StretchesAre
<1>9. \A i \in 1..n : input[i] = LF <=> i = n
  <2>1. ASSUME NEW i \in 1..n PROVE input[i] = LF <=> i = n
    <3>1. j + i \in 1..Room /\ (j + i = Room <=> i = n)
      BY <1>7
    <3>2. QED
      BY <1>2, <1>8, <3>1, LineMarks
  <2>2. QED
    BY <2>1
<1>10. end = n
  <2>1. n \in T /\ T \in SUBSET (1..n) /\ \A i \in T : i = n
    BY <1>7, <1>8, <1>9 DEF T
  <2> HIDE DEF n
  <2>2. QED
    BY <1>7, <2>1, FirstIs DEF end
<1>11. input' = <<>>
  <2>1. n + 1 \in Int /\ n \in Int /\ n < n + 1
    BY <1>7
  <2> HIDE DEF n
  <2>2. QED
    BY <1>3, <1>8, <1>10, <2>1, SubSeqEmpty
<1>12. SubSeq(input, 1, end - 1) = SubSeq(Line(frame), j + 1, Room - 1)
  <2> DEFINE s == SubSeq(input, 1, n - 1)
             t == SubSeq(Line(frame), j + 1, Room - 1)
  <2>1. /\ s \in Seq(Characters) /\ Len(s) = n - 1
        /\ \A i \in 1..n - 1 : s[i] = input[i]
    <3>1. n - 1 \in 0..Len(input)
      BY <1>7, <1>8
    <3> HIDE DEF n
    <3>2. QED
      BY <1>2, <3>1, PrefixIs
  <2>2. /\ t \in Seq(Characters) /\ Len(t) = Room - 1 - j
        /\ \A i \in 1..Room - 1 - j : t[i] = Line(frame)[j + i]
    <3>1. Room - 1 \in 0..Room /\ j \in 0..Room - 1
      BY <1>7
    <3>2. t = Stretch(j, Room - 1)
      BY DEF Stretch
    <3> HIDE DEF t
    <3>3. QED
      BY <1>2, <3>1, <3>2, StretchesAre
  <2>3. n - 1 = Room - 1 - j /\ \A i \in 1..n - 1 : i \in 1..n
    BY <1>7
  <2> HIDE DEF s, t, n
  <2>4. s = t
    BY <1>8, <2>1, <2>2, <2>3, SeqEqual
  <2>5. QED
    BY <1>10, <2>4 DEF s, t
<1>13. point \in Averages \cup {NoPoint} /\ (j = 0 => point = frame)
  BY <1>2, <1>7, <1>12, ParsedIs DEF point
<1>14. whole => j = 0
  BY <1>5, <1>7
<1>15. /\ drawing' \in BOOLEAN /\ whole' \in BOOLEAN
       /\ plotted' \in Averages \cup {NoPoint} /\ due' \in Averages \cup {NoPoint}
  <2>1. drawing' \in BOOLEAN
    BY <1>3, Zenon
  <2>2. whole' \in BOOLEAN
    BY <1>3
  <2>3. plotted' \in Averages \cup {NoPoint} /\ due' \in Averages \cup {NoPoint}
    BY <1>2, <1>3, <1>13, Zenon
  <2>4. QED
    BY <2>1, <2>2, <2>3
<1>16. WholeLinesPlotted'
  <2>1. SUFFICES ASSUME due' # NoPoint PROVE plotted' = due'
    BY DEF WholeLinesPlotted
  <2>2. point # NoPoint /\ whole /\ due' = frame
    BY <1>3, <2>1, Zenon
  <2>3. plotted' = point
    BY <1>3, <2>2, Zenon
  <2>4. point = frame
    BY <1>13, <1>14, <2>2, Zenon
  <2>5. QED
    BY <2>2, <2>3, <2>4
<1>17. OnItsWay'
  <2>1. \A i, m : Stretch(i, m)' = Stretch(i, m)
    BY <1>3 DEF Stretch
  <2>2. Stretch(Room, Room) = <<>>
    BY <1>2, <1>7, StretchesAre
  <2>3. unsent' = Stretch(Room, Room)' /\ input' = Stretch(Room, Room)'
    BY <1>3, <1>4, <1>6, <1>11, <2>1, <2>2
  <2>4. QED
    BY <1>7, <2>3 DEF OnItsWay
<1>18. frame' \in Averages /\ input' \in Seq(Characters) /\ Len(input') <= Room
  <2>1. <<>> \in Seq(Characters) /\ Len(<<>>) = 0
    BY EmptySeq
  <2>2. input' = <<>>
    BY <1>11
  <2>3. input' \in Seq(Characters)
    BY <2>1, <2>2
  <2>4. Len(input') <= Room
    <3>1. Len(input') = 0
      BY <2>1, <2>2
    <3>2. QED
      BY <1>7, <3>1
  <2>5. frame' \in Averages
    BY <1>2, <1>3
  <2>6. QED
    BY <2>3, <2>4, <2>5
<1>19. QED
  BY <1>15, <1>16, <1>17, <1>18, PlotterParts

LEMMA FlushInputKeeps == PlotterIInv /\ FlushInput => PlotterIInv'
<1>1. SUFFICES ASSUME PlotterIInv, FlushInput PROVE PlotterIInv'
  OBVIOUS
<1>2. /\ frame \in Averages
      /\ plotted \in Averages \cup {NoPoint} /\ due \in Averages \cup {NoPoint}
  BY <1>1 DEF PlotterIInv, PlotterTypeOK
<1>3. /\ drawing' = FALSE /\ input' = <<>>
      /\ whole' = (unsent \in {<<>>, Line(frame)})
      /\ UNCHANGED <<frame, unsent, plotted, due>>
  BY <1>1 DEF FlushInput
<1>4. PICK k \in 0..Room : unsent = Stretch(k, Room)
  BY <1>1 DEF PlotterIInv, OnItsWay
<1>5. Room \in Nat /\ k \in 0..k /\ Room \in 0..Room /\ 0 \in 0..k /\ k \in Nat
  BY CodesAre
<1>6. whole' => k = 0 \/ k = Room
  <2>1. /\ Stretch(k, Room) = <<>> <=> k = Room
        /\ Len(Stretch(k, Room)) = Room - k /\ Len(Line(frame)) = Room
    <3>1. k \in 0..Room
      OBVIOUS
    <3>2. QED
      BY <1>2, <1>5, <3>1, StretchesAre
  <2>2. whole' => unsent = <<>> \/ unsent = Line(frame)
    BY <1>3, Zenon
  <2>3. unsent = <<>> => k = Room
    BY <1>4, <2>1
  <2>4. unsent = Line(frame) => k = 0
    BY <1>4, <1>5, <2>1
  <2>5. QED
    BY <2>2, <2>3, <2>4
<1>7. OnItsWay'
  <2>1. \A i, m : Stretch(i, m)' = Stretch(i, m)
    BY <1>3 DEF Stretch
  <2>2. Stretch(k, k) = <<>>
    BY <1>2, <1>5, StretchesAre
  <2>3. unsent' = Stretch(k, Room)' /\ input' = Stretch(k, k)'
    BY <1>3, <1>4, <2>1, <2>2
  <2>4. QED
    BY <1>5, <1>6, <2>3 DEF OnItsWay
<1>8. frame' \in Averages /\ input' \in Seq(Characters) /\ Len(input') <= Room
      /\ drawing' \in BOOLEAN
      /\ plotted' \in Averages \cup {NoPoint} /\ due' \in Averages \cup {NoPoint}
  <2>1. <<>> \in Seq(Characters) /\ Len(<<>>) = 0
    BY EmptySeq
  <2>2. input' = <<>>
    BY <1>3
  <2>3. input' \in Seq(Characters)
    BY <2>1, <2>2
  <2>4. Len(input') <= Room
    <3>1. Len(input') = 0
      BY <2>1, <2>2
    <3>2. QED
      BY <1>5, <3>1
  <2>5. frame' \in Averages
    BY <1>2, <1>3
  <2>6. drawing' \in BOOLEAN
    BY <1>3
  <2>7. plotted' \in Averages \cup {NoPoint} /\ due' \in Averages \cup {NoPoint}
    BY <1>2, <1>3
  <2>8. QED
    BY <2>3, <2>4, <2>5, <2>6, <2>7
<1>9. whole' \in BOOLEAN
  <2>1. whole' = (unsent \in {<<>>, Line(frame)})
    BY <1>3
  <2>2. QED
    BY <2>1
<1>10. WholeLinesPlotted'
  BY <1>1, <1>3 DEF PlotterIInv, WholeLinesPlotted
<1>11. QED
  BY <1>7, <1>8, <1>9, <1>10, PlotterParts

LEMMA NextPlotter == PlotterIInv /\ [Next]_vars => PlotterIInv'
<1>1. SUFFICES ASSUME PlotterIInv, [Next]_vars PROVE PlotterIInv'
  OBVIOUS
<1>2. UNCHANGED plotter \/ PlotterNext
  BY <1>1, StepIs
<1>3. CASE UNCHANGED plotter
  BY <1>1, <1>3 DEF plotter, PlotterIInv, PlotterTypeOK, WholeLinesPlotted, OnItsWay, Stretch
<1>4. QED
  BY <1>1, <1>2, <1>3, SampleKeeps, SendCharKeeps, ReadLineKeeps, FlushInputKeeps
     DEF PlotterNext

\* Between the board and the host no character is lost while the host does not
\* draw: what it holds and what is still to come is a stretch of the line sent.
THEOREM PlotterInvariance == Spec => []PlotterIInv
<1>1. QED
  BY InitPlotter, NextPlotter, PTL DEF Spec

\* The port never holds more than a line, and every point plotted is one of two
\* averages, also when the line was cut.
THEOREM PlotterTypeCorrect == Spec => []PlotterTypeOK
<1>1. PlotterIInv => PlotterTypeOK
  BY DEF PlotterIInv
<1>2. QED
  BY <1>1, PlotterInvariance, PTL

\* A line the host reads from its beginning is plotted as the averages that were
\* sampled, whatever the base, the number of digits and the averages.
THEOREM LinesPlotted == Spec => []WholeLinesPlotted
<1>1. PlotterIInv => WholeLinesPlotted
  BY DEF PlotterIInv
<1>2. QED
  BY <1>1, PlotterInvariance, PTL

\* Every variable of every laboratory program stays in its range.
THEOREM LabsTypeCorrect == Spec => []LabsTypeOK
<1>1. (/\ Lab1TypeOK /\ Lab2TypeOK /\ RainbowTypeOK /\ LampTypeOK
       /\ PlotterTypeOK /\ GlcdTypeOK) => LabsTypeOK
  BY DEF LabsTypeOK
<1>2. QED
  BY <1>1, Lab1TypeCorrect, Lab2TypeCorrect, RainbowTypeCorrect, LampTypeCorrect,
     PlotterTypeCorrect, GlcdTypeCorrect, PTL

=============================================================================
