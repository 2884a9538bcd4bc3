-------------------------------- MODULE Lab1 --------------------------------
(***************************************************************************)
(* The LED programs of experiments 0 and 1, which poll the buttons from    *)
(* their main loop: lab-0.c, lab-1.c, lab-1_PartC.c and lab-1_PartA_B.c.   *)
(* The state of each is a record; a colour is the value written to port F. *)
(* The counters named debounce, 16 bits that wrap while a button is held,  *)
(* stop at their threshold here: once it is reached the status that the    *)
(* threshold set stays until an open reading, whatever the counter does.   *)
(***************************************************************************)
EXTENDS Board

CONSTANT Debounce      \* closed readings lab-1_PartA_B.c asks for (50000)

\* A contact chatters for fewer passes than the threshold, and a finger stays for
\* longer than both.
ASSUME DebounceAssumption == /\ Debounce \in Nat \ {0}
                             /\ Bounce < Debounce /\ Bounce + Debounce <= Hold

VARIABLES lab0, lab1, labC, labAB

NextColour(c) == IF c = 8 THEN 2 ELSE c * 2

-----------------------------------------------------------------------------
(* lab-0.c *)
Lab0Init == lab0 = [ui8LED |-> 2, led |-> 0]

\* One turn of main: show the colour, wait, go to the next one.
Lab0Turn == /\ lab0' = [ui8LED |-> NextColour(lab0.ui8LED), led |-> lab0.ui8LED]
            /\ Elapse(Hold)

-----------------------------------------------------------------------------
(* lab-1.c: "at" is the check main has called, or the half period it waits *)
(* out; "again" is the second reading of a check, 50 ms after the first.   *)
Checks == {"sw1", "sw2", "hold2", "hold1"}

Lab1Init == lab1 = [at |-> "sw1", again |-> FALSE, sw1 |-> FALSE, count |-> 0,
                    delay |-> 1, colour |-> 2, led |-> 0]

Checked == IF lab1.at \in {"sw2", "hold2"} THEN 2 ELSE 1

AfterButton2(s) == IF s.sw1 THEN "hold1" ELSE "lit"

\* delay_cnt, in quarters of a second: 1, then 2, 4, 2, 4, ...
NextDelay(d) == IF d = 4 THEN 2 ELSE d * 2

\* main goes on when the check it called returns.
Returns(closed) ==
    LET s == [lab1 EXCEPT !.again = FALSE]
    IN CASE s.at = "sw1" -> [s EXCEPT !.at = "sw2", !.sw1 = closed]
         [] s.at = "sw2" /\ closed ->
                [s EXCEPT !.at = "hold2", !.count = (@ + 1) % 256]
         [] s.at = "sw2" /\ ~closed -> [s EXCEPT !.at = AfterButton2(s)]
         [] s.at = "hold2" /\ ~closed ->
                [s EXCEPT !.at = AfterButton2(s), !.delay = NextDelay(@)]
         [] s.at = "hold1" /\ ~closed ->
                [s EXCEPT !.at = "lit", !.colour = NextColour(@)]
         [] OTHER -> s

\* The plausible slip: the first reading is believed.
BugFirstReading ==
    /\ lab1.at \in Checks /\ ~lab1.again
    /\ \E closed \in Readings(Checked) : lab1' = Returns(closed) /\ UNCHANGED board

FirstReading ==
    /\ lab1.at \in Checks /\ ~lab1.again
    /\ \E closed \in Readings(Checked) :
         IF closed THEN lab1' = [lab1 EXCEPT !.again = TRUE] /\ Elapse(Hold)
                   ELSE lab1' = Returns(FALSE) /\ UNCHANGED board

SecondReading ==
    /\ lab1.at \in Checks /\ lab1.again
    /\ \E closed \in Readings(Checked) : lab1' = Returns(closed) /\ UNCHANGED board

Toggle ==
    /\ lab1.at \in {"lit", "dark"}
    /\ lab1' = IF lab1.at = "lit"
               THEN [lab1 EXCEPT !.at = "dark", !.led = lab1.colour]
               ELSE [lab1 EXCEPT !.at = "sw1", !.led = 0]
    /\ Elapse(Hold)

Lab1Turn == FirstReading \/ SecondReading \/ Toggle

-----------------------------------------------------------------------------
(* lab-1_PartC.c: a pass of main, then half a period of at least 250 ms.   *)
LabCInit == labC = [uicount |-> 0, val |-> 1, temp |-> FALSE, debounce |-> 0,
                    closed |-> FALSE, uicountSW2 |-> 0, lock2 |-> FALSE,
                    lock |-> FALSE, lit |-> {}]

\* Button 2 selects the LED, once per press.
SelectLed(s, down) ==
    IF down /\ ~s.lock2
    THEN [s EXCEPT !.lock2 = TRUE, !.uicountSW2 = (@ + 1) % 3]
    ELSE [s EXCEPT !.lock2 = @ /\ down]

\* Button 1 counts as pressed from its second closed reading on.
SelectDelay(s, down) ==
    LET n == IF down THEN IF s.debounce < 2 THEN s.debounce + 1 ELSE 2 ELSE 0
        pressed == down /\ (n = 2 \/ s.closed)
        moved == ~pressed /\ s.temp
    IN [s EXCEPT !.debounce = n, !.closed = pressed, !.temp = pressed,
                 !.val = IF pressed THEN 2 ^ s.uicount ELSE @,
                 !.uicount = IF moved THEN (@ + 1) % 3 ELSE @]

\* The plausible slip: only the LED selected is cleared.
BugBlink(s) == [s EXCEPT !.lock = ~@,
                         !.lit = IF s.lock THEN @ \cup {s.uicountSW2}
                                           ELSE @ \ {s.uicountSW2}]

\* Every other pass the LED selected lights; the passes between clear all.
Blink(s) == [s EXCEPT !.lock = ~@,
                      !.lit = IF s.lock THEN @ \cup {s.uicountSW2} ELSE {}]

LabCTurn == /\ \E one \in Readings(1), two \in Readings(2) :
                 labC' = Blink(SelectDelay(SelectLed(labC, two), one))
            /\ Elapse(Hold)

-----------------------------------------------------------------------------
(* lab-1_PartA_B.c: a pass of main is one unit.                            *)
LabABInit == labAB = [debounceSW2 |-> 0, pressed2 |-> FALSE, uicountSW2 |-> 0,
                      debounce |-> 0, closed |-> FALSE, temp |-> FALSE,
                      uicount |-> 0, lit |-> {}]

\* The plausible slip: the first closed reading counts.
BugCountButton2(s, down) ==
    IF down /\ ~s.pressed2
    THEN [s EXCEPT !.pressed2 = TRUE, !.uicountSW2 = (@ + 1) % 256]
    ELSE [s EXCEPT !.pressed2 = down]

CountButton2(s, down) ==
    IF down /\ ~s.pressed2
    THEN IF s.debounceSW2 + 1 >= Debounce
         THEN [s EXCEPT !.pressed2 = TRUE, !.debounceSW2 = 0,
                        !.uicountSW2 = (@ + 1) % 256]
         ELSE [s EXCEPT !.debounceSW2 = @ + 1]
    ELSE IF down THEN s
                 ELSE [s EXCEPT !.debounceSW2 = 0, !.pressed2 = FALSE]

\* The LED of this press is lit while button 1 counts as closed; on release
\* it goes out and the next press has the next one.
LightButton1(s, down) ==
    LET n == IF down THEN IF s.debounce < Debounce THEN s.debounce + 1
                                                   ELSE Debounce
                     ELSE 0
        pressed == down /\ (n >= Debounce \/ s.closed)
    IN [s EXCEPT !.debounce = n, !.closed = pressed, !.temp = pressed,
                 !.lit = IF pressed THEN @ \cup {s.uicount} ELSE @ \ {s.uicount},
                 !.uicount = IF ~pressed /\ s.temp THEN (@ + 1) % 3 ELSE @]

LabABTurn == /\ \E one \in Readings(1), two \in Readings(2) :
                  labAB' = LightButton1(CountButton2(labAB, two), one)
             /\ Elapse(1)

-----------------------------------------------------------------------------
Lab1TypeOK ==
    /\ lab0 \in [ui8LED : {2, 4, 8}, led : {0, 2, 4, 8}]
    /\ lab1 \in [at : Checks \cup {"lit", "dark"}, again : BOOLEAN,
                 sw1 : BOOLEAN, count : 0..255, delay : {1, 2, 4},
                 colour : {2, 4, 8}, led : {0, 2, 4, 8}]
    /\ labC \in [uicount : 0..2, val : {1, 2, 4}, temp : BOOLEAN,
                 debounce : 0..2, closed : BOOLEAN, uicountSW2 : 0..2,
                 lock2 : BOOLEAN, lock : BOOLEAN, lit : SUBSET (0..2)]
    /\ labAB \in [debounceSW2 : 0..Debounce - 1, pressed2 : BOOLEAN,
                  uicountSW2 : 0..255, debounce : 0..Debounce,
                  closed : BOOLEAN, temp : BOOLEAN, uicount : 0..2,
                  lit : SUBSET (0..2)]

\* lab-1.c never counts a press of button 2 twice, although it debounces
\* only the press and what keeps the chatter of the release out is the time
\* for which it blinks before it looks again.
NoPressCountedTwice == lab1.count <= presses[2]

\* lab-1_PartC.c never leaves two LEDs lit, whichever the user selects
\* between the pass that lights one and the pass that clears them.
OneLedAtATime == Cardinality(labC.lit) <= 1

Settled(k, n) == since[k] >= Bounce + n

\* lab-1_PartA_B.c: once a button has been still for long enough, the count
\* of button 2 is its presses, and the LED of button 1's last press is lit,
\* alone, exactly while the button is down.
EveryPressSeen ==
    program = "lab-1_PartA_B" =>
      /\ Settled(2, Debounce) => labAB.uicountSW2 = presses[2] % 256
      /\ Settled(1, Debounce) =>
           labAB.lit = IF finger[1] THEN {(presses[1] - 1) % 3} ELSE {}

-----------------------------------------------------------------------------
(***************************************************************************)
(* The inductive invariants of the proofs in LabsProofs.                   *)
(***************************************************************************)
\* lab-1.c: how far the count is behind the presses of button 2.  It is behind
\* by one while a press may still be counted, and by two where a press that
\* came between the two readings would be counted now and again later.
Behind(n) == lab1.count + n <= presses[2]

Lab1IInv ==
    /\ since[2] \in {0, Hold} /\ Behind(0)
    /\ finger[2] /\ (lab1.at # "hold2" \/ since[2] = 0) => Behind(1)
    /\ ~finger[2] /\ since[2] = 0 /\ lab1.at \in {"dark", "sw1", "sw2"} => Behind(1)
    /\ lab1.at = "sw2" /\ lab1.again =>
         Behind(1) /\ (finger[2] /\ since[2] = 0 => Behind(2))

\* lab-1_PartC.c: everything is dark before the pass that lights
LabCIInv == IF labC.lock THEN labC.lit = {} ELSE \E k \in 0..2 : labC.lit \subseteq {k}

\* lab-1_PartA_B.c: how far a counter of closed readings is, a number of readings
\* after button k moved; "counted" says that it reached the threshold.
Counting(k, n, counted) ==
    IF finger[k]
    THEN /\ presses[k] > 0
         /\ counted => since[k] >= Debounce
         /\ ~counted => n < Debounce /\ n <= since[k] /\ since[k] <= n + Bounce
    ELSE /\ since[k] = 0 => counted
         /\ since[k] > Bounce => ~counted /\ n = 0
         /\ ~counted => n <= since[k]
         /\ counted => presses[k] > 0

LabABIInv ==
    /\ labAB.pressed2 => labAB.debounceSW2 = 0
    /\ Counting(2, labAB.debounceSW2, labAB.pressed2)
    /\ labAB.uicountSW2 = (IF finger[2] /\ ~labAB.pressed2 THEN presses[2] - 1
                                                         ELSE presses[2]) % 256
    /\ labAB.closed = (labAB.debounce = Debounce) /\ labAB.temp = labAB.closed
    /\ Counting(1, labAB.debounce, labAB.closed)
    /\ labAB.lit = IF labAB.closed THEN {labAB.uicount} ELSE {}
    /\ labAB.uicount = (IF finger[1] \/ labAB.closed THEN presses[1] - 1
                                                   ELSE presses[1]) % 3

=============================================================================
