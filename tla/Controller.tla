----------------------------- MODULE Controller -----------------------------
(***************************************************************************)
(* The Tiva controller: the main loop of main.c with DAQ_20msTask, against *)
(* the timer and ADC interrupt handlers.                                   *)
(*                                                                         *)
(* The three share the byte g_stFlags without any protection.  The build   *)
(* (Debug/DAQ.obj) updates one of its bit-fields as LDRB, BIC/ORR, STRB,   *)
(* so an assignment to a flag in the main loop is a load step into "reg"   *)
(* and a store step that writes the whole byte.  The handlers have equal   *)
(* priority and never nest: each is one step.                              *)
(***************************************************************************)
EXTENDS Metering

CONSTANTS Readings,         \* sums of squares a cycle of the mains can give
          SamplesPerCycle,  \* SAMPLES_PER_CYCLE, 16 in the code
          TimeoutTicks,     \* the limit of uiCounter, 4000 in the code
          DelayCycles       \* cycles that surely end in the 2.25 s delay, 112

ASSUME ReadingsAssumption == Readings # {} /\ Readings \subseteq [Channel -> Nat]
ASSUME TimingAssumption == /\ SamplesPerCycle \in Nat \ {0}
                           /\ TimeoutTicks \in Nat \ {0} /\ TimeoutTicks < 65535
                           /\ DelayCycles \in Nat \ {0}

VARIABLES
  converting,   \* a conversion is started and its interrupt not yet served
  count,        \* g_stADCTaskVar.m_uiSampleCount
  meas,         \* g_stMeasVar.m_ullSumSqr
  uiCounter,    \* timer ticks since the last timeout
  flags,        \* the byte g_stFlags
  pc,           \* where the main loop is
  reg,          \* the register of a flag update in progress
  waited,       \* cycles ended in the present delay, up to DelayCycles
  mean,         \* g_stMeasVar.m_ulMeanSqr
  met,          \* g_stMetVar
  maximum,      \* g_stMaximumMetVar
  tripped,      \* g_stTrippedMetVar
  led,          \* the LED pins
  out,          \* Status, Current_High, Current_Low, Voltage1, Voltage2
  line,         \* the bytes of the present report already on the line
  sent,         \* the last complete report, <<>> before the first
  window        \* history: the currents measured since the peak was forgotten

isrVars  == <<converting, count, meas, uiCounter>>
taskVars == <<mean, met, maximum, tripped, window>>
lineVars == <<out, line, sent>>
vars == <<isrVars, flags, pc, reg, waited, taskVars, led, lineVars>>

\* Flags: bPowerUpFlag is never used
Flags == [cycle : 0..1, trip : 0..3, send : 0..1, timeout : 0..1]
NoFlags == [cycle |-> 0, trip |-> 0, send |-> 0, timeout |-> 0]

Locations == {"delay", "check", "clear load", "clear store",
              "mean crnt", "mean volt1", "mean volt2", "compute",
              "trip load", "trip store", "test timeout", "ack load",
              "ack store", "forget", "decide", "send load", "send store",
              "latch", "transmit"}

\* What a channel can measure
Levels == {RMS(c, MeanSqr(c, r[c])) : c \in Channel, r \in Readings \cup {Zero}}

-----------------------------------------------------------------------------
Init ==
  /\ converting = FALSE /\ count = 0 /\ meas = Zero /\ uiCounter = 0
  /\ flags = NoFlags
  /\ pc = "delay" /\ reg = NoFlags /\ waited = 0
  /\ mean = Zero /\ met = Zero /\ maximum = Zero /\ tripped = Zero
  /\ led = 0
  /\ out = <<0, 0, 0, 0, 0>> /\ line = <<>> /\ sent = <<>>
  /\ window = {0}

-----------------------------------------------------------------------------
(***************************************************************************)
(* The interrupt handlers.  A conversion takes less than a tick of 1.25 ms.*)
(*                                                                         *)
(* A definition whose name begins with Bug is used by no other: it is a    *)
(* plausible mistake in the definition after it, which some property of    *)
(* this module has to tell from the code (PROJECT.json says which).        *)
(***************************************************************************)
\* without the reset of uiCounter
BugTimerRunsOn ==
  /\ ~converting
  /\ converting' = TRUE
  /\ uiCounter' = uiCounter + 1
  /\ flags' = IF uiCounter' > TimeoutTicks THEN [flags EXCEPT !.timeout = 1]
                                          ELSE flags
  /\ UNCHANGED <<count, meas, pc, reg, waited, taskVars, led, lineVars>>

Timer0IntHandler ==
  /\ ~converting
  /\ converting' = TRUE
  /\ IF uiCounter + 1 > TimeoutTicks
     THEN uiCounter' = 0 /\ flags' = [flags EXCEPT !.timeout = 1]
     ELSE uiCounter' = uiCounter + 1 /\ UNCHANGED flags
  /\ UNCHANGED <<count, meas, pc, reg, waited, taskVars, led, lineVars>>

\* ADC0handler and PerSampleActivity; the sums are those of module Acquisition
ADC0handler ==
  /\ converting
  /\ converting' = FALSE
  /\ IF count + 1 = SamplesPerCycle
     THEN /\ count' = 0
          /\ meas' \in Readings
          /\ flags' = [flags EXCEPT !.cycle = 1]
          /\ waited' = IF pc = "delay" /\ waited < DelayCycles
                       THEN waited + 1 ELSE waited
     ELSE /\ count' = count + 1
          /\ UNCHANGED <<meas, flags, waited>>
  /\ UNCHANGED <<uiCounter, pc, reg, taskVars, led, lineVars>>

-----------------------------------------------------------------------------
(***************************************************************************)
(* The main loop.                                                          *)
(***************************************************************************)
Goto(from, to) == pc = from /\ pc' = to

\* A flag update in two steps: load the byte, then store it changed
Load(from, to) ==
  /\ Goto(from, to)
  /\ reg' = flags
  /\ UNCHANGED <<isrVars, flags, waited, taskVars, led, lineVars>>

Store(from, to, new) ==
  /\ Goto(from, to)
  /\ flags' = new
  /\ reg' = NoFlags       \* the register is free again
  /\ UNCHANGED <<isrVars, waited, taskVars, led, lineVars>>

\* a delay too short for a cycle
BugNoDelay ==
  /\ Goto("delay", "check")
  /\ waited' = 0
  /\ UNCHANGED <<isrVars, flags, reg, taskVars, led, lineVars>>

\* 2000 delays of 1.125 ms, in which at least DelayCycles cycles end
Delay ==
  /\ waited = DelayCycles
  /\ Goto("delay", "check")
  /\ waited' = 0
  /\ UNCHANGED <<isrVars, flags, reg, taskVars, led, lineVars>>

Check ==
  /\ Goto("check", IF flags.cycle = 1 THEN "clear load" ELSE "decide")
  /\ UNCHANGED <<isrVars, flags, reg, waited, taskVars, led, lineVars>>

ClearLoad  == Load("clear load", "clear store")
ClearStore == Store("clear store", "mean crnt", [reg EXCEPT !.cycle = 0])

\* Three reads of the published sums, one after the other
Mean(c, from, to) ==
  /\ Goto(from, to)
  /\ mean' = [mean EXCEPT ![c] = MeanSqr(c, meas[c])]
  /\ UNCHANGED <<isrVars, flags, reg, waited, met, maximum, tripped,
                 window, led, lineVars>>

MeanCrnt  == Mean("crnt", "mean crnt", "mean volt1")
MeanVolt1 == Mean("volt1", "mean volt1", "mean volt2")
MeanVolt2 == Mean("volt2", "mean volt2", "compute")

\* a fault shown with the last measurement, not with the peak
BugShowLatest ==
  /\ Goto("compute", "trip load")
  /\ met' = [c \in Channel |-> RMS(c, mean[c])]
  /\ maximum' = Peak(maximum, met')
  /\ tripped' = met'
  /\ window' = window \cup {met'["crnt"]}
  /\ UNCHANGED <<isrVars, flags, reg, waited, mean, led, lineVars>>

\* Square roots, no-load clamps, peak hold and the choice of what to report
Compute ==
  /\ Goto("compute", "trip load")
  /\ met' = [c \in Channel |-> RMS(c, mean[c])]
  /\ maximum' = Peak(maximum, met')
  /\ tripped' = IF Verdict(met') = PowerOK THEN met' ELSE maximum'
  /\ window' = window \cup {met'["crnt"]}
  /\ UNCHANGED <<isrVars, flags, reg, waited, mean, led, lineVars>>

TripLoad  == Load("trip load", "trip store")

\* the timeout is served in every branch, the faults' too
BugForgetInFault ==
  Store("trip store", "test timeout", [reg EXCEPT !.trip = Verdict(met)])

TripStore == Store("trip store",
                   IF Verdict(met) = PowerOK THEN "test timeout" ELSE "decide",
                   [reg EXCEPT !.trip = Verdict(met)])

TestTimeout ==
  /\ Goto("test timeout", IF flags.timeout = 1 THEN "ack load" ELSE "decide")
  /\ UNCHANGED <<isrVars, flags, reg, waited, taskVars, led, lineVars>>

AckLoad  == Load("ack load", "ack store")
AckStore == Store("ack store", "forget", [reg EXCEPT !.timeout = 0])

\* the peak is reset to nothing
BugForgetAll ==
  /\ Goto("forget", "decide")
  /\ maximum' = Zero
  /\ window' = {0}
  /\ UNCHANGED <<isrVars, flags, reg, waited, mean, met, tripped, led,
                 lineVars>>

Forget ==
  /\ Goto("forget", "decide")
  /\ maximum' = met
  /\ window' = {met["crnt"]}
  /\ UNCHANGED <<isrVars, flags, reg, waited, mean, met, tripped, led,
                 lineVars>>

\* The pin of the LED that is lit: red, blue or green
Led(trip) == CASE trip = Tripped -> 2 [] trip = NoPower -> 4 [] OTHER -> 8

\* without the assignment of 0 to Status
BugStatusKept ==
  /\ Goto("decide", IF flags.trip = Tripped THEN "latch" ELSE "send load")
  /\ led' = Led(flags.trip)
  /\ out' = [out EXCEPT ![1] = IF flags.trip \in {Tripped, NoPower}
                               THEN flags.trip ELSE @]
  /\ UNCHANGED <<isrVars, flags, reg, waited, taskVars, line, sent>>

\* LED and Status; bSendmsgFlag is set unless the MCB has tripped
Decide ==
  /\ Goto("decide", IF flags.trip = Tripped THEN "latch" ELSE "send load")
  /\ led' = Led(flags.trip)
  /\ out' = [out EXCEPT ![1] = IF flags.trip \in {Tripped, NoPower}
                               THEN flags.trip ELSE PowerOK]
  /\ UNCHANGED <<isrVars, flags, reg, waited, taskVars, line, sent>>

SendLoad  == Load("send load", "send store")
SendStore == Store("send store", "latch", [reg EXCEPT !.send = 1])

Latch ==
  /\ Goto("latch", "transmit")
  /\ out' = <<out[1], CurrentHigh(tripped), CurrentLow(tripped),
              tripped["volt1"] % 256, tripped["volt2"] % 256>>
  /\ UNCHANGED <<isrVars, flags, reg, waited, taskVars, led, line, sent>>

\* One UARTCharPut; the delays between them only let the handlers run
Transmit ==
  /\ pc = "transmit"
  /\ LET bytes == Append(line, IF Len(line) < 5 THEN out[Len(line) + 1]
                                               ELSE Newline) IN
       IF Len(line) = 5
       THEN pc' = "delay" /\ line' = <<>> /\ sent' = bytes
       ELSE line' = bytes /\ UNCHANGED <<pc, sent>>
  /\ UNCHANGED <<isrVars, flags, reg, waited, taskVars, led, out>>

DAQ_20msTask ==
  \/ ClearLoad \/ ClearStore
  \/ MeanCrnt \/ MeanVolt1 \/ MeanVolt2
  \/ Compute
  \/ TripLoad \/ TripStore
  \/ TestTimeout \/ AckLoad \/ AckStore \/ Forget

Main == \/ Delay \/ Check
        \/ DAQ_20msTask
        \/ Decide \/ SendLoad \/ SendStore
        \/ Latch \/ Transmit

Next == Timer0IntHandler \/ ADC0handler \/ Main

Spec == Init /\ [][Next]_vars

\* The timer and the converter never stop, and neither does the processor
FairSpec == /\ Spec
            /\ WF_vars(Timer0IntHandler)
            /\ WF_vars(ADC0handler)
            /\ WF_vars(Main)

-----------------------------------------------------------------------------
(***************************************************************************)
(* Properties.                                                             *)
(***************************************************************************)

\* Every variable has its type: in particular uiCounter stays within its
\* limit, a measurement is one the readings allow, and a report is six bytes.
TypeOK ==
  /\ meas \in Readings \cup {Zero}
  /\ converting \in BOOLEAN
  /\ count \in 0..(SamplesPerCycle - 1)
  /\ uiCounter \in 0..TimeoutTicks
  /\ flags \in Flags /\ reg \in Flags
  /\ pc \in Locations
  /\ waited \in 0..DelayCycles
  /\ mean \in [Channel -> 0..MaxUInt32]
  /\ met \in [Channel -> Levels]
  /\ maximum \in [Channel -> Levels]
  /\ tripped \in [Channel -> Levels]
  /\ window \subseteq Levels
  /\ led \in {0, 2, 4, 8}
  /\ out \in [1..5 -> Byte]
  /\ line \in Seq(Byte) /\ Len(line) < 6
  /\ sent = <<>> \/ sent \in [1..6 -> Byte]

\* Every pass of the main loop measures again: although a flag update of the
\* main loop can wipe out the bCycleOver of a cycle that ends in between, the
\* flag is there whenever the loop looks at it (main.c:232).
EveryPassMeasures == pc = "check" => flags.cycle = 1

\* The peak hold (DAQ.c:122, 138-143) has the highest current of all the
\* measurements made since it was last forgotten, and none that was not made.
PeakHold == /\ maximum["crnt"] \in window
            /\ \A i \in window : i <= maximum["crnt"]

\* A complete report is made of one piece: its status, its values and the LED
\* tell the same verdict, whatever the handlers did while it was put together
\* and sent byte by byte (main.c:235-304).
ReportCoherent ==
  pc = "delay" /\ sent # <<>> =>
    /\ sent = Frame(flags.trip, tripped)
    /\ CurrentIn(sent) = tripped["crnt"]
    /\ flags.trip = Verdict(met)
    /\ led = Led(sent[1])

\* A report of a fault shows a current at least as high as every one measured
\* since the peak was forgotten, the load before the fault included; a report
\* of a healthy state shows what was measured, never an older peak
\* (DAQ.c:126, 131, 136).
ReportedCurrent ==
  pc = "delay" /\ sent # <<>> =>
    IF sent[1] = PowerOK THEN CurrentIn(sent) = met["crnt"]
                         ELSE \A i \in window : i <= CurrentIn(sent)

\* The peak of a fault is kept as long as the fault lasts: it goes down only
\* in a pass that found the state healthy (DAQ.c:134-145).
PeakKeptInFault ==
  [][maximum'["crnt"] < maximum["crnt"] =>
       flags.trip = PowerOK /\ Verdict(met) = PowerOK]_vars

\* A reading that repeats for good is reported for good: the status of every
\* later report is the verdict on it and, when it is healthy, the values are
\* its own.  No race on the flags and no old peak prevents it.
Measured == [r \in Readings |-> [c \in Channel |-> RMS(c, MeanSqr(c, r[c]))]]

SteadyStateReported ==
  \A r \in Readings :
    <>[](meas = r) =>
      <>[](/\ sent # <<>>
           /\ sent[1] = Verdict(Measured[r])
           /\ sent[1] = PowerOK => sent = Frame(PowerOK, Measured[r]))

\* The controller implements the meter of module Meter: a verdict exists from
\* the moment the measurement is judged, before its flag is stored.
Judged == IF pc \in {"trip load", "trip store"} THEN Verdict(met) ELSE flags.trip

M == INSTANCE Meter WITH
       Measurements <- [Channel -> Levels],
       peak <- maximum,
       verdict <- [trip |-> Judged, values |-> tripped],
       report <- sent

ImplementsMeter == M!Spec

-----------------------------------------------------------------------------
(***************************************************************************)
(* The inductive invariant of the proofs in ControllerProofs.              *)
(***************************************************************************)
Storing  == {"clear store", "trip store", "ack store", "send store"}
Judging  == {"trip load", "trip store"}
HealthyPass == {"test timeout", "ack load", "ack store", "forget"}
Decided  == {"send load", "send store", "latch", "transmit"}
Stored == HealthyPass \cup Decided \cup {"decide"}

\* Only the main loop writes bTripFlag, so a stale register has it right
RegHoldsTrip == pc \in Storing => reg.trip = flags.trip

\* The main loop stores no flag during its delay, so a cycle that ends is seen
CycleSeen == /\ pc = "check" \/ (pc = "delay" /\ waited > 0) => flags.cycle = 1
             /\ pc # "delay" => waited = 0

\* From the first measurement on, flag and shown values belong to the last one
VerdictKept ==
  pc \in Stored \/ (sent # <<>> /\ pc \notin Judging) => flags.trip = Verdict(met)

ShownKept ==
  pc \in Stored \cup Judging \/ sent # <<>> =>
    tripped = IF Verdict(met) = PowerOK THEN met ELSE maximum

HealthyBranch == pc \in HealthyPass => Verdict(met) = PowerOK

\* The report under construction
ReportInProgress ==
  /\ pc \in Decided => out[1] = flags.trip /\ led = Led(flags.trip)
  /\ pc = "transmit" => \A i \in 1..5 : out[i] = Frame(flags.trip, tripped)[i]
  /\ pc = "transmit" => \A i \in 1..Len(line) : line[i] = Frame(flags.trip, tripped)[i]
  /\ pc # "transmit" => line = <<>>

\* A mean square comes from a reading, or from none yet
MeanOfReading ==
  \A c \in Channel : \E r \in Readings \cup {Zero} : mean[c] = MeanSqr(c, r[c])

IInv == /\ TypeOK
        /\ MeanOfReading
        /\ RegHoldsTrip
        /\ CycleSeen
        /\ VerdictKept
        /\ ShownKept
        /\ HealthyBranch
        /\ PeakHold
        /\ ReportInProgress
        /\ ReportCoherent

-----------------------------------------------------------------------------
(***************************************************************************)
(* What documents and comments of the project say and the code does not do.*)
(***************************************************************************)

\* readme.md:14: "MCB Tripped: means MCB has got tripped".  The flag would then
\* only be raised when some cycle of the mains measures so: but the three sums
\* are read one by one, and a power cut that is published in between is judged
\* with the primary voltage before it and the secondary voltage after it.
NoFalseTrip ==
  flags.trip = Tripped => \E r \in Readings : Verdict(Measured[r]) = Tripped

\* readme.md:12: "Power OK: means voltages on Primary & Secondary side of MCB are
\* OK".  No report of a healthy state would then come from a dead side: but the
\* chain of conditions (DAQ.c:124-134) leaves a primary voltage of 50 to 200 V
\* to the last branch, whatever the secondary is.
PowerOKMeansPower ==
  sent # <<>> /\ sent[1] = PowerOK /\ pc = "delay" =>
    met["volt1"] > 0 /\ met["volt2"] > 0
=============================================================================
