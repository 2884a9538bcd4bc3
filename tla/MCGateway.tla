------------------------------ MODULE MCGateway ------------------------------
EXTENDS Gateway

Measured(i, v1, v2) == [c \in Channel |-> IF c = "crnt" THEN i
                                          ELSE IF c = "volt1" THEN v1 ELSE v2]

\* 60 mA at 230 V, and 300 mA with the MCB open
MCReports == {Frame(PowerOK, Measured(60, 230, 230)),
              Frame(Tripped, Measured(300, 230, 0))}
=============================================================================
