------------------------------ MODULE Rainbow ------------------------------
(***************************************************************************)
(* Lab3P1A.c: a timer interrupt counts, main turns the count into three    *)
(* brightnesses that should fade into each other, and the buttons set the  *)
(* pace of the timer.  LAB3P2.c: the buttons turn a servo.  Both programs  *)
(* read the buttons once per pass and believe what they read, so a reading *)
(* may be anything.                                                        *)
(***************************************************************************)
EXTENDS Naturals

CONSTANTS Full,             \* full brightness (255)
          Slowest, Fastest, \* range of timedelay, as ticks it brings per pass
          ServoLow, ServoHigh  \* range of ui8Adjust (56 and 111)

\* main's delay of 7.5 ms is three periods of the timer at its fastest (2.5 ms).
ASSUME RainbowAssumption ==
    /\ {Full, Slowest, Fastest, ServoLow, ServoHigh} \subseteq Nat
    /\ 0 < Slowest /\ Slowest < Fastest /\ Fastest <= 4
    /\ Full > (2 * Fastest) + 7
    /\ 0 < ServoLow /\ ServoLow < ServoHigh

VARIABLES at,          \* where main is
          counter, TempCounter,   \* shared with the interrupt handler
          timedelay,
          state,       \* the two colours that are fading
          val,         \* RedVal, GreenVal, BlueVal
          pwm,         \* the brightnesses the PWM generators were given
          ticks,       \* ticks since main last read the counter
          ui8Adjust

rainbow == <<at, counter, TempCounter, timedelay, state, val, pwm, ticks>>

Colour(r, g, b) == [red |-> r, green |-> g, blue |-> b]

RainbowInit ==
    /\ at = "first" /\ counter = 1 /\ TempCounter = 1 /\ timedelay = Slowest
    /\ state = "RB" /\ val = Colour(Full, 0, 0) /\ pwm = val /\ ticks = 0

\* Timer0IntHandler, between any two steps of main.
Tick ==
    /\ ticks < timedelay
    /\ ticks' = ticks + 1
    /\ TempCounter' = (TempCounter + 1) % 256
    /\ counter' = IF counter + 1 > Full - 1 THEN 1 ELSE counter + 1
    /\ UNCHANGED <<at, timedelay, state, val, pwm>>

\* The fading colour is computed from one reading of the counter ...
Fade == /\ at = "first" /\ at' = "second"
        /\ val' = CASE state = "RB" -> [val EXCEPT !.red = Full - counter]
                    [] state = "BY" -> [val EXCEPT !.blue = Full - counter]
                    [] state = "YR" -> [val EXCEPT !.green = Full - counter]
        /\ UNCHANGED <<counter, TempCounter, timedelay, state, pwm, ticks>>

Risen == CASE state = "RB" -> [val EXCEPT !.blue = counter, !.green = 1]
           [] state = "BY" -> [val EXCEPT !.green = counter, !.red = 1]
           [] state = "YR" -> [val EXCEPT !.red = counter, !.blue = 1]

\* ... the rising one from another, and when that is nearly full, the next
\* pair of colours begins.
Raise == /\ at = "second"
         /\ val' = Risen
         /\ at' = IF counter > Full - 5 THEN "restart" ELSE "show"
         /\ ticks' = 0
         /\ UNCHANGED <<counter, TempCounter, timedelay, state, pwm>>

\* The plausible slip: the counter is left where it is.
BugRestart == /\ at = "restart" /\ at' = "show"
              /\ state' = CASE state = "RB" -> "BY" [] state = "BY" -> "YR"
                            [] state = "YR" -> "RB"
              /\ UNCHANGED <<counter, TempCounter, timedelay, val, pwm, ticks>>

Restart == /\ at = "restart" /\ at' = "show"
           /\ counter' = 1
           /\ state' = CASE state = "RB" -> "BY" [] state = "BY" -> "YR"
                         [] state = "YR" -> "RB"
           /\ UNCHANGED <<TempCounter, timedelay, val, pwm, ticks>>

\* Every third tick or later the PWM generators get the new brightnesses.
Show == /\ at = "show" /\ at' = "keys"
        /\ IF TempCounter > 2 THEN TempCounter' = 0 /\ pwm' = val
                              ELSE UNCHANGED <<TempCounter, pwm>>
        /\ UNCHANGED <<counter, timedelay, state, val, ticks>>

\* The plausible slip: no upper limit.
BugStepped(x, down, up, low, high) ==
    LET y == IF ~down THEN x ELSE IF x - 1 < low THEN low ELSE x - 1
    IN IF ~up THEN y ELSE y + 1

Stepped(x, down, up, low, high) ==
    LET y == IF ~down THEN x ELSE IF x - 1 < low THEN low ELSE x - 1
    IN IF ~up THEN y ELSE IF y + 1 > high THEN high ELSE y + 1

\* The buttons set the period, and main waits.
Keys == /\ at = "keys" /\ at' = "first"
        /\ \E one, two \in BOOLEAN :
             timedelay' = Stepped(timedelay, one, two, Slowest, Fastest)
        /\ UNCHANGED <<counter, TempCounter, state, val, pwm, ticks>>

RainbowNext == Tick \/ Fade \/ Raise \/ Restart \/ Show \/ Keys

-----------------------------------------------------------------------------
ServoInit == ui8Adjust = (ServoLow + ServoHigh) \div 2

ServoTurn == \E one, two \in BOOLEAN :
               ui8Adjust' = Stepped(ui8Adjust, one, two, ServoLow, ServoHigh)

-----------------------------------------------------------------------------
RainbowTypeOK ==
    /\ at \in {"first", "second", "restart", "show", "keys"}
    /\ counter \in 1..Full - 1 /\ TempCounter \in 0..255
    /\ timedelay \in Slowest..Fastest /\ ticks \in 0..Fastest
    /\ state \in {"RB", "BY", "YR"}
    /\ {val, pwm} \subseteq [red : 0..Full, green : 0..Full, blue : 0..Full]
    /\ ui8Adjust \in ServoLow..ServoHigh

Near(x, y) == x <= y + 3 + (3 * Fastest) /\ y <= x + 3 + (3 * Fastest)

\* No colour ever jumps: from one setting of the PWM generators to the next
\* each brightness changes by no more than the timer can count between them.
\* The window of four counts in which main must see a colour nearly full is
\* not missed, because the fastest pace of the timer fits in it.
FadesSmoothly ==
    [][pwm = pwm' \/ \A c \in {"red", "green", "blue"} : Near(pwm[c], pwm'[c])]_pwm

-----------------------------------------------------------------------------
(***************************************************************************)
(* The inductive invariant of the proofs in LabsProofs.                    *)
(***************************************************************************)
\* The colour of v that falls, the one that rises and the one that is off.
Falling(v) == IF state = "RB" THEN v.red ELSE IF state = "BY" THEN v.blue ELSE v.green
Rising(v) == IF state = "RB" THEN v.blue ELSE IF state = "BY" THEN v.green ELSE v.red
Off(v) == IF state = "RB" THEN v.green ELSE IF state = "BY" THEN v.red ELSE v.blue

\* Brightnesses of the present pair, shown "age" ticks before the count was k
Current(f, r, o, k, age) ==
    /\ r + age <= k /\ k <= r + age + Fastest
    /\ Full + age <= k + f /\ k + f <= Full + age + (2 * Fastest)
    /\ o <= 1

\* Brightnesses of the pair before, shown up to "age" ticks before it was over
Former(f, r, o, age) ==
    /\ Full <= f + 4 + age + Fastest /\ f < Full
    /\ 1 <= o /\ o <= 4 + age + (2 * Fastest)
    /\ r <= 1

Lags == \/ Current(Falling(pwm), Rising(pwm), Off(pwm), counter, TempCounter)
        \/ /\ counter <= 1 + Fastest + TempCounter
           /\ Former(Falling(pwm), Rising(pwm), Off(pwm), 2)

AllNear == Near(pwm.red, val.red) /\ Near(pwm.green, val.green) /\ Near(pwm.blue, val.blue)

\* What main has computed of a pair: the falling colour not after the rising one
Computed(f, r, o) == Full <= f + r /\ f + r <= Full + Fastest /\ o = 1

RainbowIInv ==
    /\ at # "restart" => counter + 5 <= Full + ticks
    /\ at \in {"restart", "show"} => TempCounter <= 2 + ticks + Fastest /\ AllNear
    /\ at \in {"keys", "first", "second"} => TempCounter <= 2 + ticks /\ Lags
    /\ at = "second" => /\ Full <= Falling(val) + counter
                        /\ Falling(val) + counter <= Full + ticks
    /\ at = "restart" =>
         /\ Computed(Falling(val), Rising(val), Off(val))
         /\ Full <= Rising(val) + 4 /\ Rising(val) < Full
         /\ Former(Rising(pwm), Off(pwm), Falling(pwm), TempCounter)
    /\ at = "show" =>
         \/ /\ Computed(Falling(val), Rising(val), Off(val))
            /\ Rising(val) + ticks = counter /\ Lags
         \/ /\ Rising(val) = 1 /\ Full <= Falling(val) + 4 /\ Falling(val) < Full
            /\ 1 <= Off(val) /\ Off(val) <= 4 + Fastest
            /\ counter <= 1 + ticks
            /\ Former(Falling(pwm), Rising(pwm), Off(pwm), TempCounter)

=============================================================================
