-------------------------------- MODULE Labs --------------------------------
(***************************************************************************)
(* The laboratory programs: one of them runs, the variables of the others  *)
(* stay as they are.                                                       *)
(***************************************************************************)
EXTENDS Lab1, Lab2, Rainbow, Lamp, Plotter, Glcd

blinkers == <<lab0, lab1, labC, labAB>>
lamps == <<lamp, flags, debouncer, timer1, late>>
programs == <<blinkers, lab2, rainbow, ui8Adjust, lamps>>

Programs == {"lab-0", "lab-1", "lab-1_PartC", "lab-1_PartA_B", "lab-2",
             "Lab3P1A", "lab3P1B", "LAB3P2", "lab4", "lab5_1", "lab5_2", "lab5_3"}

Init == /\ program \in Programs
        /\ BoardInit /\ Lab0Init /\ Lab1Init /\ LabCInit /\ LabABInit /\ Lab2Init
        /\ RainbowInit /\ ServoInit /\ LampInit /\ PlotterInit /\ GlcdInit
        /\ program # "lab4" => frame = <<0, 0>> /\ unsent = <<>>
        /\ program \notin {"lab5_1", "lab5_2", "lab5_3"} =>
             glcd.ram[0][0][0] = {}

Blinkers ==
    /\ \/ program = "lab-0" /\ Lab0Turn /\ UNCHANGED <<lab1, labC, labAB>>
       \/ program = "lab-1" /\ Lab1Turn /\ UNCHANGED <<lab0, labC, labAB>>
       \/ program = "lab-1_PartC" /\ LabCTurn /\ UNCHANGED <<lab0, lab1, labAB>>
       \/ program = "lab-1_PartA_B" /\ LabABTurn /\ UNCHANGED <<lab0, lab1, labC>>
    /\ UNCHANGED <<lab2, rainbow, ui8Adjust, lamps>>

Timed ==
    \/ /\ program = "lab-2" /\ Timer0IntHandler
       /\ UNCHANGED <<blinkers, rainbow, ui8Adjust, lamps>>
    \/ /\ program = "Lab3P1A" /\ RainbowNext /\ UNCHANGED board
       /\ UNCHANGED <<blinkers, lab2, ui8Adjust, lamps>>
    \/ /\ program = "LAB3P2" /\ ServoTurn /\ UNCHANGED board
       /\ UNCHANGED <<blinkers, lab2, rainbow, lamps>>
    \/ /\ program = "lab3P1B" /\ LampNext /\ UNCHANGED board
       /\ UNCHANGED <<blinkers, lab2, rainbow, ui8Adjust>>

User == /\ program \in {"lab-1", "lab-1_PartC", "lab-1_PartA_B", "lab-2"}
        /\ \E k \in Buttons : Move(k)
        /\ UNCHANGED programs

Display == \/ program = "lab5_1" /\ ShowImage
           \/ program = "lab5_2" /\ printSqure
           \/ program = "lab5_3" /\ ShowNext

Next == \/ (Blinkers \/ Timed \/ User) /\ UNCHANGED <<program, plotter, display>>
        \/ program = "lab4" /\ PlotterNext /\ UNCHANGED <<program, board, programs, display>>
        \/ Display /\ UNCHANGED <<program, board, programs, plotter>>

vars == <<program, board, programs, plotter, display>>
Spec == Init /\ [][Next]_vars

\* Every variable of the program that runs stays in its range: no brightness,
\* delay, speed or servo position leaves the limits the code sets it.  The counts
\* of presses have eight bits and no limit: they do wrap.
LabsTypeOK == /\ Lab1TypeOK /\ Lab2TypeOK /\ RainbowTypeOK /\ LampTypeOK
              /\ PlotterTypeOK /\ GlcdTypeOK

=============================================================================
