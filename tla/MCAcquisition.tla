---------------------------- MODULE MCAcquisition ----------------------------
EXTENDS Acquisition

\* The channels at the ends of the converter's range, against each other, and in
\* between: the largest energies and the largest jumps of the average
MCInputs == {[c \in Channel |-> IF c = "crnt" THEN 0
                                ELSE IF c = "volt1" THEN 4095 ELSE 1000],
             [c \in Channel |-> IF c = "crnt" THEN 4095
                                ELSE IF c = "volt1" THEN 0 ELSE 2600]}
=============================================================================
