------------------------------ MODULE MCSystem ------------------------------
EXTENDS System

Measured(i, v1, v2) == [c \in Channel |-> IF c = "crnt" THEN i
                                          ELSE IF c = "volt1" THEN v1 ELSE v2]

\* 300 mA at 230 V, then nothing but an offset with the MCB open
MCMeasurements == {Measured(300, 230, 230), Measured(5, 230, 0)}

\* Every report that such measurements and their peaks can make
MCReports == {Frame(t, m) : t \in {PowerOK, Tripped}, m \in MCMeasurements \cup {Zero}}
=============================================================================
