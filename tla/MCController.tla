---------------------------- MODULE MCController ----------------------------
EXTENDS Controller

Reading(i, v1, v2) == [c \in Channel |-> IF c = "crnt" THEN i
                                         ELSE IF c = "volt1" THEN v1 ELSE v2]

\* Sums of squares over a cycle that measure 60 mA, 300 mA, 120 V and 230 V
I60 == 126
I300 == 3136
V120 == 4175746
V230 == 15340064

Healthy == Reading(I60, V230, V230)     \* power on both sides of the MCB
Trip    == Reading(I300, V230, 0)       \* the cycle in which an overload trips it
Dark    == Reading(0, 0, 0)             \* no mains supply

MCReadings == {Healthy, Trip, Dark}

\* Without a reading of a tripped MCB: power, then none
CutReadings == {Healthy, Dark}

\* A brownout before an open MCB
Brownout == Reading(0, V120, 0)
OddReadings == {Healthy, Brownout}
=============================================================================
