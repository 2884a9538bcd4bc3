------------------------------- MODULE Board -------------------------------
(***************************************************************************)
(* The board of the laboratory programs: two push buttons to ground that   *)
(* chatter, and the program that was flashed.  Time is counted in units of *)
(* whatever the running program does between two readings.                 *)
(***************************************************************************)
EXTENDS Naturals, FiniteSets

CONSTANTS Bounce,      \* units for which a contact chatters after it moved
          Hold,        \* units a finger stays before it moves again
          MaxPresses   \* bound: presses of each button

ASSUME BoardAssumption == /\ Bounce \in Nat /\ Hold \in Nat \ {0}
                          /\ MaxPresses \in Nat /\ Bounce < Hold

VARIABLES program,     \* the program that runs
          finger,      \* is the button held down?
          since,       \* units since it last moved, counted up to Hold
          presses      \* times it has been pressed

board == <<finger, since, presses>>
Buttons == {1, 2}

BoardInit == /\ finger = [k \in Buttons |-> FALSE]
             /\ since = [k \in Buttons |-> Hold]
             /\ presses = [k \in Buttons |-> 0]

\* What GPIOPinRead may find: TRUE is a closed contact, the pin is low.
Readings(k) == IF since[k] < Bounce THEN BOOLEAN ELSE {finger[k]}

Elapse(n) ==
    /\ since' = [k \in Buttons |-> IF since[k] + n > Hold THEN Hold
                                                          ELSE since[k] + n]
    /\ UNCHANGED <<finger, presses>>

\* The user presses or releases a button.
Move(k) ==
    /\ since[k] = Hold
    /\ finger[k] \/ presses[k] < MaxPresses
    /\ finger' = [finger EXCEPT ![k] = ~@]
    /\ since' = [since EXCEPT ![k] = 0]
    /\ presses' = IF finger[k] THEN presses ELSE [presses EXCEPT ![k] = @ + 1]

BoardTypeOK == /\ finger \in [Buttons -> BOOLEAN] /\ since \in [Buttons -> 0..Hold]
               /\ presses \in [Buttons -> Nat]

=============================================================================
