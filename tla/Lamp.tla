-------------------------------- MODULE Lamp --------------------------------
(***************************************************************************)
(* lab3P1B.c: a lamp that cycles through colours until a long press of     *)
(* button 2, with one to three presses of button 1 meanwhile, selects one  *)
(* LED whose brightness the buttons then set.  Three timer interrupts      *)
(* share their flags with main.  Timer 0 reads the buttons every 20 ms,    *)
(* chatter or not, so a reading may be anything.                           *)
(***************************************************************************)
EXTENDS Naturals

CONSTANTS High,        \* brightest (254)
          LongPress,   \* ticks of timer 0 until timer 1 expires (2 s)
          SpeedLow, SpeedHigh,  \* range of ucTransitionSpeed (10 and 250)
          MaxCount     \* bound: presses of button 1 during a long press

ASSUME LampAssumption == /\ {High, LongPress, SpeedLow, SpeedHigh} \subseteq Nat
                         /\ MaxCount \in 1..255
                         /\ High > 2 /\ LongPress > 0 /\ SpeedLow < SpeedHigh

VARIABLES lamp,        \* main's variables and where it is
          flags,       \* what the handlers leave for main
          debouncer,   \* uint8Key1State, uint8Key2State
          timer1,      \* ticks until timer 1 expires, 0 when it is off
          late         \* a press was counted between main's last two resets

Keys12 == 1..2
Leds == {"red", "green", "blue"}

LampInit ==
    /\ lamp = [at |-> "show", mode |-> 0, fading |-> 0, out |-> Leds,
               light |-> [c \in Leds |-> 2], speed |-> SpeedLow]
    /\ flags = [timer2 |-> FALSE, check |-> FALSE, held |-> [k \in Keys12 |-> FALSE],
                long |-> FALSE, count |-> 0]
    /\ debouncer = [k \in Keys12 |-> "Idle"]
    /\ timer1 = 0 /\ late = FALSE

-----------------------------------------------------------------------------
(* The interrupt handlers *)
NextState(k, closed) ==
    CASE debouncer[k] = "Idle" -> IF closed THEN "Press" ELSE "Idle"
      [] debouncer[k] = "Press" -> IF closed THEN "Release" ELSE "Idle"
      [] debouncer[k] = "Release" -> IF closed THEN "Release" ELSE "Idle"

\* The plausible slip: presses count whether or not a mode is being chosen.
BugDetectKeyPress_1(f, closed) ==
    CASE debouncer[1] = "Press" /\ closed ->
           [f EXCEPT !.held[1] = TRUE, !.count = (@ + 1) % 256]
      [] debouncer[1] = "Release" /\ ~closed -> [f EXCEPT !.held[1] = FALSE]
      [] OTHER -> f

detectKeyPress_1(f, closed) ==
    CASE debouncer[1] = "Press" /\ closed ->
           [f EXCEPT !.held[1] = TRUE,
                     !.count = IF f.long THEN (@ + 1) % 256 ELSE @]
      [] debouncer[1] = "Release" /\ ~closed -> [f EXCEPT !.held[1] = FALSE]
      [] OTHER -> f

\* Timer 1 runs while the press of button 2 lasts.
detectKeyPress_2(f, closed) ==
    CASE debouncer[2] = "Press" /\ closed ->
           timer1' = LongPress /\ flags' = [f EXCEPT !.held[2] = TRUE]
      [] debouncer[2] = "Release" /\ ~closed ->
           timer1' = 0 /\ flags' = [f EXCEPT !.held[2] = FALSE]
      [] OTHER -> /\ flags' = f
                  /\ timer1' = IF timer1 > 1 THEN timer1 - 1 ELSE timer1

\* Timer 1, once expired, is served before the next tick.
LampTimer0 ==
    /\ timer1 # 1 /\ flags.count < MaxCount
    /\ \E one, two \in BOOLEAN :
         /\ detectKeyPress_2(detectKeyPress_1([flags EXCEPT !.check = TRUE], one), two)
         /\ debouncer' = [k \in Keys12 |->
                            NextState(k, IF k = 1 THEN one ELSE two)]
    /\ late' = (late \/ (lamp.at = "clear" /\ flags'.count # flags.count))
    /\ UNCHANGED lamp

\* Timer 1 has one shot.
LampTimer1 == /\ timer1 = 1 /\ timer1' = 0
              /\ flags' = [flags EXCEPT !.long = TRUE]
              /\ UNCHANGED <<lamp, debouncer, late>>

LampTimer2 == /\ ~flags.timer2 /\ flags' = [flags EXCEPT !.timer2 = TRUE]
              /\ UNCHANGED <<lamp, debouncer, timer1, late>>

-----------------------------------------------------------------------------
(* main *)
Fading == <<"red", "green", "blue", "red", "green", "blue">>

\* The plausible slip: a fade that goes up ends where one that goes down does.
BugAutoModeProg(l) ==
    LET c == Fading[l.fading + 1]
        up == l.fading % 2 = 0
        x == IF up THEN l.light[c] + 1 ELSE l.light[c] - 1
    IN [l EXCEPT !.light[c] = x % 256, !.fading = IF x <= 1 THEN (@ + 1) % 6 ELSE @]

\* AutoModeProg: red up, green down, blue up, red down, green up, blue down.
AutoModeProg(l) ==
    LET c == Fading[l.fading + 1]
        up == l.fading % 2 = 0
        x == IF up THEN l.light[c] + 1 ELSE l.light[c] - 1
        done == IF up THEN x >= High ELSE x <= 1
    IN [l EXCEPT !.light[c] = x, !.fading = IF done THEN (@ + 1) % 6 ELSE @]

\* The LED of a manual mode.
LedOf(mode) == CASE mode = 1 -> "red" [] mode = 2 -> "blue" [] mode = 3 -> "green"

\* A turn of the inner loop, when timer 2 said so.
Refresh ==
    /\ lamp.at = "show" /\ flags.timer2
    /\ flags' = [flags EXCEPT !.timer2 = FALSE]
    /\ lamp' = IF lamp.mode = 0 THEN AutoModeProg(lamp)
                                ELSE [lamp EXCEPT !.out = {LedOf(lamp.mode)}]
    /\ UNCHANGED <<debouncer, timer1, late>>

Within(x, low, high) == IF x < low THEN low ELSE IF x > high THEN high ELSE x

AutoModeKeyFunc(l) ==
    LET x == IF flags.held[1] THEN Within(l.speed - 1, SpeedLow, SpeedHigh)
                              ELSE l.speed
    IN [l EXCEPT !.speed =
          IF flags.held[2] THEN Within(x + 1, SpeedLow, SpeedHigh) ELSE x]

\* Mode1KeyFunc, Mode2KeyFunc and Mode3KeyFunc, each on its own LED.
ModeKeyFunc(l, c) ==
    LET up == IF l.light[c] + 1 >= High THEN High ELSE l.light[c] + 1
        x == IF flags.held[1] THEN up ELSE l.light[c]
        down == IF x - 1 <= 2 THEN 2 ELSE x - 1
    IN [l EXCEPT !.light[c] = IF flags.held[2] THEN down ELSE x]

KeyFunc ==
    /\ lamp.at = "show" /\ flags.check
    /\ flags' = [flags EXCEPT !.check = FALSE]
    /\ lamp' = IF lamp.mode = 0 THEN AutoModeKeyFunc(lamp)
                                ELSE ModeKeyFunc(lamp, LedOf(lamp.mode))
    /\ UNCHANGED <<debouncer, timer1, late>>

\* A long press puts all LEDs off until button 2 reads open (Selected).
LongPressSeen == /\ lamp.at = "show" /\ flags.long
                 /\ lamp' = [lamp EXCEPT !.at = "release", !.out = {}]
                 /\ UNCHANGED <<flags, debouncer, timer1, late>>

Select(mode, n) == IF n \in 1..3 THEN n ELSE mode

Selected == /\ lamp.at = "release"
            /\ lamp' = [lamp EXCEPT !.at = "reset", !.mode = Select(@, flags.count)]
            /\ UNCHANGED <<flags, debouncer, timer1, late>>

\* The plausible slip: the count is not reset.
BugResetCount == /\ lamp.at = "reset"
                 /\ lamp' = [lamp EXCEPT !.at = "clear"]
                 /\ late' = FALSE
                 /\ UNCHANGED <<flags, debouncer, timer1>>

ResetCount == /\ lamp.at = "reset"
              /\ lamp' = [lamp EXCEPT !.at = "clear"]
              /\ flags' = [flags EXCEPT !.count = 0]
              /\ late' = FALSE
              /\ UNCHANGED <<debouncer, timer1>>

ClearLong == /\ lamp.at = "clear"
             /\ lamp' = [lamp EXCEPT !.at = "show", !.out = Leds]
             /\ flags' = [flags EXCEPT !.long = FALSE]
             /\ UNCHANGED <<debouncer, timer1, late>>

LampNext == \/ LampTimer0 \/ LampTimer1 \/ LampTimer2 \/ Refresh \/ KeyFunc
            \/ LongPressSeen \/ Selected \/ ResetCount \/ ClearLong

-----------------------------------------------------------------------------
LampTypeOK ==
    /\ lamp \in [at : {"show", "release", "reset", "clear"}, mode : 0..3,
                 fading : 0..5, out : SUBSET Leds, light : [Leds -> 1..High],
                 speed : SpeedLow..SpeedHigh]
    /\ flags \in [timer2 : BOOLEAN, check : BOOLEAN, held : [Keys12 -> BOOLEAN],
                  long : BOOLEAN, count : 0..255]
    /\ debouncer \in [Keys12 -> {"Idle", "Press", "Release"}]
    /\ timer1 \in 0..LongPress /\ late \in BOOLEAN

\* While the lamp is lit and no long press is under way, the count of presses
\* that will select the next mode is zero, so no press of an earlier selection
\* counts in the next.  The exception is a press that the handler counts between
\* main's reset of the count and of the flag.  (One that it counts just before,
\* between main's use of the count and its reset, is lost: it selects nothing.)
CountStartsAtZero ==
    lamp.at = "show" /\ ~flags.long /\ ~late => flags.count = 0

-----------------------------------------------------------------------------
(***************************************************************************)
(* The inductive invariants of the proofs in LabsProofs.                   *)
(***************************************************************************)
\* main is done with the count when it has reset it, not when it shows again.
CountIInv ==
    lamp.at = "clear" \/ (lamp.at = "show" /\ ~flags.long) =>
      late \/ flags.count = 0

\* No fade passes its limit: the colour that fades next is where the fades
\* before it have left it.
FadeIInv ==
    lamp.mode = 0 =>
      /\ lamp.fading = 0 => lamp.light["red"] < High
      /\ lamp.fading \in {1, 2} => lamp.light["red"] = High
      /\ lamp.fading = 3 => lamp.light["red"] > 1
      /\ lamp.fading \in {4, 5} => lamp.light["red"] = 1
      /\ lamp.fading \in {0, 1} => lamp.light["green"] > 1
      /\ lamp.fading \in {2, 3} => lamp.light["green"] = 1
      /\ lamp.fading = 4 => lamp.light["green"] < High
      /\ lamp.fading = 5 => lamp.light["green"] = High
      /\ lamp.fading \in {0, 1, 2} => lamp.light["blue"] < High
      /\ lamp.fading \in {3, 4} => lamp.light["blue"] = High
      /\ lamp.fading = 5 => lamp.light["blue"] > 1

=============================================================================
