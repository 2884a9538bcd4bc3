-------------------------------- MODULE Lab2 --------------------------------
(***************************************************************************)
(* lab-2.c: the timer's interrupt handler runs a state machine for each    *)
(* button every 5 ms; button 1 shows the next colour while it is held,     *)
(* button 2 counts.  main only starts the timer.                           *)
(***************************************************************************)
EXTENDS Board

\* A contact chatters for at most two readings and a finger stays longer.
ASSUME TimingAssumption == Bounce <= 2 /\ Bounce + 2 <= Hold

VARIABLES key,         \* KeyPressState and Key2PressState
          locked,      \* uiStatusSW1ReleaseLockFlag, uiStatusSW2ReleaseLockFlag
          ucLEDState,
          led,         \* pins 1..3 of port F: 0 or the value written
          ucSW2Counter

lab2 == <<key, locked, ucLEDState, led, ucSW2Counter>>

Lab2Init == /\ key = [k \in Buttons |-> "Idle"]
            /\ locked = [k \in Buttons |-> FALSE]
            /\ ucLEDState = 0 /\ led = 0 /\ ucSW2Counter = 0

\* The plausible slip: one closed reading is enough.
BugStateMachine(state, closed) == IF closed THEN "Release" ELSE "Idle"

\* The state machine: two closed readings in a row make a press.
Switch1StateMachine(state, closed) ==
    IF ~closed THEN "Idle" ELSE IF state = "Idle" THEN "Press" ELSE "Release"

Switch2StateMachine(state, closed) ==
    IF ~closed THEN "Idle" ELSE IF state = "Idle" THEN "Press" ELSE "Release"

\* Button 1: the LED shows the next colour until the key is released.
ShowColour(flag) ==
    IF flag
    THEN IF locked[1] THEN UNCHANGED <<ucLEDState, led>>
         ELSE /\ led' = 2 ^ (ucLEDState + 1)
              /\ ucLEDState' = IF ucLEDState + 1 > 2 THEN 0 ELSE ucLEDState + 1
    ELSE led' = 0 /\ UNCHANGED ucLEDState

\* The plausible slip: the lock is not looked at.
BugCountPress(flag) ==
    ucSW2Counter' = IF flag THEN (ucSW2Counter + 1) % 256 ELSE ucSW2Counter

CountPress(flag) ==
    ucSW2Counter' = IF flag /\ ~locked[2] THEN (ucSW2Counter + 1) % 256
                                          ELSE ucSW2Counter

Timer0IntHandler ==
    \E one \in Readings(1), two \in Readings(2) :
      LET state1 == Switch1StateMachine(key[1], one)
          state2 == Switch2StateMachine(key[2], two)
      IN /\ key' = [k \in Buttons |-> IF k = 1 THEN state1 ELSE state2]
         /\ locked' = [k \in Buttons |-> key'[k] = "Release"]
         /\ ShowColour(state1 = "Release")
         /\ CountPress(state2 = "Release")
         /\ Elapse(1)

-----------------------------------------------------------------------------
Lab2TypeOK ==
    /\ key \in [Buttons -> {"Idle", "Press", "Release"}]
    /\ locked \in [Buttons -> BOOLEAN]
    /\ ucLEDState \in 0..2 /\ led \in {0, 2, 4, 8} /\ ucSW2Counter \in 0..255

\* Two ticks after a button has stopped chattering the program knows it: the
\* counter is the number of presses of button 2 (in its 8 bits), and the LED
\* shows one colour per press of button 1, for as long as it is held.
PressesRegistered ==
    program = "lab-2" =>
      /\ since[2] >= Bounce + 2 => ucSW2Counter = presses[2] % 256
      /\ since[1] >= Bounce + 2 =>
           /\ ucLEDState = presses[1] % 3
           /\ led = IF finger[1] THEN 2 ^ (((presses[1] - 1) % 3) + 1) ELSE 0

-----------------------------------------------------------------------------
(***************************************************************************)
(* The inductive invariant of the proofs in LabsProofs.                    *)
(***************************************************************************)
\* Where a state machine can be, a number of readings after its button moved
Settling(k) ==
    IF finger[k]
    THEN /\ presses[k] > 0
         /\ since[k] = 0 => key[k] = "Idle"
         /\ since[k] = 1 => key[k] # "Release"
         /\ since[k] >= Bounce + 1 => key[k] # "Idle"
         /\ since[k] >= Bounce + 2 => key[k] = "Release"
    ELSE /\ since[k] = 0 => key[k] = "Release"
         /\ since[k] = 1 => key[k] # "Press"
         /\ since[k] >= Bounce + 1 => key[k] = "Idle"

\* The presses that the program knows of
Known(k) == IF finger[k] /\ key[k] # "Release" THEN presses[k] - 1 ELSE presses[k]

ButtonsTyped ==
    /\ finger \in [Buttons -> BOOLEAN]
    /\ since \in [Buttons -> 0..Hold] /\ presses \in [Buttons -> Nat]
    /\ key \in [Buttons -> {"Idle", "Press", "Release"}]
    /\ locked = [k \in Buttons |-> key[k] = "Release"]

Shown == led = IF key[1] = "Release" THEN 2 ^ (((presses[1] - 1) % 3) + 1) ELSE 0

Lab2IInv == /\ ButtonsTyped
            /\ \A k \in Buttons : Settling(k)
            /\ ucSW2Counter = Known(2) % 256
            /\ ucLEDState = Known(1) % 3
            /\ Shown
=============================================================================
