------------------------------ MODULE Plotter ------------------------------
(***************************************************************************)
(* Experiment 4: lab4_Adc_Uart.c sends the two positions of a joystick as  *)
(* a line of text, twice a second, and plotSerialCom4.py on the host reads *)
(* lines and plots the point each gives.  After plotting it throws away    *)
(* what has arrived meanwhile, which may be the beginning of a line.       *)
(***************************************************************************)
EXTENDS Naturals, SequencesExt

CONSTANTS Base,        \* base of the digits (10)
          Digits,      \* digits of a position (4)
          MaxAverage   \* the largest average (4095)

\* copy0 and copy1: the number, divided once more for each digit.
Copies(n) ==
    LET copy[i \in 0..Digits] == IF i = 0 THEN n ELSE copy[i - 1] \div Base IN copy

\* No average has more digits than are sent.
ASSUME PlotterAssumption ==
    /\ Base \in Nat \ {0, 1} /\ Digits \in Nat \ {0} /\ MaxAverage \in Nat
    /\ \A n \in 0..MaxAverage : Copies(n)[Digits] = 0

VARIABLES frame,       \* the averages of the line that is being sent
          unsent,      \* its characters not yet sent
          input,       \* characters the host's serial port holds
          drawing,     \* is the host drawing?
          whole,       \* does the host's next line begin where a line begins?
          plotted,     \* the point on the screen
          due          \* what it should be, when the line was read whole

plotter == <<frame, unsent, input, drawing, whole, plotted, due>>

Averages == (0..MaxAverage) \X (0..MaxAverage)
NoPoint == <<>>
Comma == Base
LF == Base + 1

\* The plausible slip: the digits are sent as they are computed.
BugDigitsOf(n) == [i \in 1..Digits |-> Copies(n)[i - 1] % Base]

\* The last digit of the number is the last sent.
DigitsOf(n) == [i \in 1..Digits |-> Copies(n)[Digits - i] % Base]

Line(a) == DigitsOf(a[1]) \o <<Comma>> \o DigitsOf(a[2]) \o <<LF>>

\* The host may be started when part of a line has gone.
PlotterInit == /\ frame \in Averages
               /\ unsent \in Suffixes(Line(frame))
               /\ input = <<>> /\ drawing = FALSE
               /\ whole = (unsent \in {<<>>, Line(frame)})
               /\ plotted = NoPoint /\ due = NoPoint

\* main samples, averages and starts a line.  In the half second since the
\* last one the host has read it, or it is drawing.
Sample == /\ unsent = <<>>
          /\ drawing \/ ~Contains(input, LF)
          /\ \E a \in Averages : frame' = a /\ unsent' = Line(a)
          /\ UNCHANGED <<input, drawing, whole, plotted, due>>

\* uart_char.  The port of the host keeps a line or so.
SendChar == /\ unsent # <<>>
            /\ input' = IF Len(input) < Len(Line(frame))
                        THEN Append(input, Head(unsent)) ELSE input
            /\ unsent' = Tail(unsent)
            /\ UNCHANGED <<frame, drawing, whole, plotted, due>>

Value(ds) ==
    LET value[i \in 0..Len(ds)] == IF i = 0 THEN 0 ELSE value[i - 1] * Base + ds[i]
    IN value[Len(ds)]

\* split(',') and int(): the point of a line, if it has two parts.
Parsed(line) ==
    LET i == SelectInSeq(line, LAMBDA c : c = Comma)
        left == SubSeq(line, 1, i - 1)
        right == SubSeq(line, i + 1, Len(line))
    IN IF i = 0 \/ left = <<>> \/ right = <<>> THEN NoPoint
       ELSE <<Value(left), Value(SubSeq(right, 1, Digits))>>

\* readline: a line without a point is skipped, a point is drawn.
ReadLine ==
    /\ ~drawing /\ Contains(input, LF)
    /\ LET end == SelectInSeq(input, LAMBDA c : c = LF)
           point == Parsed(SubSeq(input, 1, end - 1))
       IN /\ input' = SubSeq(input, end + 1, Len(input))
          /\ drawing' = (point # NoPoint)
          /\ plotted' = IF point = NoPoint THEN plotted ELSE point
          /\ due' = IF point # NoPoint /\ whole THEN frame ELSE NoPoint
          /\ whole' = TRUE
    /\ UNCHANGED <<frame, unsent>>

\* When it has drawn, the host drops what came in.
FlushInput == /\ drawing /\ drawing' = FALSE
              /\ input' = <<>>
              /\ whole' = (unsent \in {<<>>, Line(frame)})
              /\ UNCHANGED <<frame, unsent, plotted, due>>

PlotterNext == Sample \/ SendChar \/ ReadLine \/ FlushInput

-----------------------------------------------------------------------------
PlotterTypeOK ==
    /\ frame \in Averages /\ unsent \in Suffixes(Line(frame))
    /\ input \in Seq(0..LF) /\ Len(input) <= Len(Line(frame))
    /\ {drawing, whole} \subseteq BOOLEAN
    /\ plotted \in Averages \cup {NoPoint} /\ due \in Averages \cup {NoPoint}

\* A line read from its beginning is plotted as the averages the board sent:
\* the order of the digits, the comma and the cut of the second part fit
\* together.  A line that the host began to read in the middle, after it
\* started or flushed, may be plotted as a point that was never sent.
WholeLinesPlotted == due # NoPoint => plotted = due

=============================================================================
