-------------------------- MODULE ControllerProofs --------------------------
(***************************************************************************)
(* Proofs about the controller, for every set of readings and every timing:*)
(* the inductive invariant IInv, the safety properties that follow from it *)
(* and that the controller implements the meter of module Meter.           *)
(***************************************************************************)
EXTENDS Controller, MeteringProofs, SequenceTheorems

\* Sums of squares are natural numbers, those of before the first cycle too.
LEMMA ReadingType == \A r \in Readings \cup {Zero} : r \in [Channel -> Nat]
BY ReadingsAssumption DEF Zero

\* What a channel can measure fits two bytes, and nothing is one of its values.
LEMMA LevelsType == Levels \subseteq 0..MaxUInt16
<1>1. SUFFICES ASSUME NEW c \in Channel, NEW r \in Readings \cup {Zero}
               PROVE  RMS(c, MeanSqr(c, r[c])) \in 0..MaxUInt16
  BY DEF Levels
<1>2. r[c] \in Nat
  BY ReadingType
<1>3. QED
  BY <1>2, MeanSqrType, RMSType

\* In particular it is a natural number.
LEMMA LevelsNat == Levels \subseteq Nat
<1>1. 0..MaxUInt16 \subseteq Nat
  BY Word16
<1>2. QED
  BY <1>1, LevelsType

\* The mean square of nothing is nothing, and so is its RMS value.
LEMMA NothingMeasured == \A c \in Channel : MeanSqr(c, 0) = 0 /\ RMS(c, 0) = 0
<1>1. TAKE c \in Channel
<1>2. Scaled(c, 0) = 0
  BY SMT DEF Scaled, Divisor, Gain
<1>3. MeanSqr(c, 0) = 0
  BY <1>2, WordAssumption, SMT DEF MeanSqr
<1>4. ISqrt(0) = 0
  <2>1. 0 \in 0..MaxUInt32
    BY WordAssumption
  <2>2. ISqrt(0) \in Nat /\ ISqrt(0) * ISqrt(0) <= 0
    BY <2>1, ISqrtCorrect, Word16
  <2>3. QED
    BY <2>2
<1>5. RMS(c, 0) = 0
  BY <1>4 DEF RMS
<1>6. QED
  BY <1>3, <1>5

LEMMA ZeroLevel == 0 \in Levels
<1>1. Zero \in Readings \cup {Zero} /\ Zero["crnt"] = 0 /\ "crnt" \in Channel
  BY DEF Zero, Channel
<1>2. RMS("crnt", MeanSqr("crnt", Zero["crnt"])) = 0
  BY <1>1, NothingMeasured
<1>3. QED
  BY <1>1, <1>2 DEF Levels

\* The initial state satisfies the invariant.
LEMMA InitIInv == Init => IInv
<1>1. SUFFICES ASSUME Init PROVE IInv
  OBVIOUS
<1> USE <1>1 DEF Init
<1>2. TypeOK
  <2>1. Zero \in [Channel -> Levels] /\ Zero \in [Channel -> 0..MaxUInt32]
    BY ZeroLevel, WordAssumption DEF Zero
  <2>2. NoFlags \in Flags
    BY DEF NoFlags, Flags
  <2>3. out \in [1..5 -> Byte] /\ line \in Seq(Byte) /\ Len(line) < 6
    BY DEF Byte
  <2>4. 0 \in 0..(SamplesPerCycle - 1) /\ 0 \in 0..TimeoutTicks /\ 0 \in 0..DelayCycles
    BY TimingAssumption
  <2>5. QED
    BY <2>1, <2>2, <2>3, <2>4, ZeroLevel DEF TypeOK, Locations
<1>3. MeanOfReading
  BY NothingMeasured DEF MeanOfReading, Zero
<1>4. PeakHold
  BY DEF PeakHold, Zero, Channel
<1>5. QED
  BY <1>2, <1>3, <1>4 DEF IInv, RegHoldsTrip, CycleSeen, VerdictKept, ShownKept,
     HealthyBranch, ReportInProgress, ReportCoherent, Storing, Judging, HealthyPass,
     Decided, Stored

-----------------------------------------------------------------------------
\* An update of one flag leaves the others as they are.
LEMMA FlagUpdates ==
  /\ NoFlags \in Flags
  /\ \A f \in Flags :
       /\ [f EXCEPT !.cycle = 0] \in Flags /\ [f EXCEPT !.cycle = 0].trip = f.trip
       /\ [f EXCEPT !.timeout = 0] \in Flags /\ [f EXCEPT !.timeout = 0].trip = f.trip
       /\ [f EXCEPT !.send = 1] \in Flags /\ [f EXCEPT !.send = 1].trip = f.trip
       /\ \A t \in 0..3 : /\ [f EXCEPT !.trip = t] \in Flags
                          /\ [f EXCEPT !.trip = t].trip = t
<1>1. NoFlags \in Flags
  BY DEF NoFlags, Flags
<1>2. SUFFICES ASSUME NEW f \in Flags
               PROVE  /\ [f EXCEPT !.cycle = 0] \in Flags
                      /\ [f EXCEPT !.cycle = 0].trip = f.trip
                      /\ [f EXCEPT !.timeout = 0] \in Flags
                      /\ [f EXCEPT !.timeout = 0].trip = f.trip
                      /\ [f EXCEPT !.send = 1] \in Flags
                      /\ [f EXCEPT !.send = 1].trip = f.trip
                      /\ \A t \in 0..3 : /\ [f EXCEPT !.trip = t] \in Flags
                                         /\ [f EXCEPT !.trip = t].trip = t
  BY <1>1
<1>3. [f EXCEPT !.cycle = 0] \in Flags /\ [f EXCEPT !.cycle = 0].trip = f.trip
  BY DEF Flags
<1>4. [f EXCEPT !.timeout = 0] \in Flags /\ [f EXCEPT !.timeout = 0].trip = f.trip
  BY DEF Flags
<1>5. [f EXCEPT !.send = 1] \in Flags /\ [f EXCEPT !.send = 1].trip = f.trip
  BY DEF Flags
<1>6. \A t \in 0..3 : [f EXCEPT !.trip = t] \in Flags /\ [f EXCEPT !.trip = t].trip = t
  BY DEF Flags
<1>7. QED
  BY <1>3, <1>4, <1>5, <1>6

\* The interrupt handlers keep the invariant: they only set flags, and a cycle
\* that ends is the one event that counts in the delay.
LEMMA HandlersIInv == IInv /\ (Timer0IntHandler \/ ADC0handler) => IInv'
<1>1. SUFFICES ASSUME IInv, Timer0IntHandler \/ ADC0handler PROVE IInv'
  OBVIOUS
<1>2. UNCHANGED <<pc, reg, mean, met, maximum, tripped, window, led, out, line, sent>>
  BY <1>1 DEF Timer0IntHandler, ADC0handler, taskVars, lineVars
<1>3. flags \in Flags /\ count \in Nat /\ count <= SamplesPerCycle - 1
      /\ uiCounter \in 0..TimeoutTicks /\ waited \in 0..DelayCycles
  BY <1>1, TimingAssumption DEF IInv, TypeOK
<1>4. /\ flags' \in Flags /\ flags'.trip = flags.trip
      /\ flags.cycle = 1 => flags'.cycle = 1
  BY <1>1, <1>3 DEF Timer0IntHandler, ADC0handler, Flags
<1>5. TypeOK'
  <2>1. count' \in 0..(SamplesPerCycle - 1)
    BY <1>1, <1>3, TimingAssumption DEF Timer0IntHandler, ADC0handler
  <2>2. uiCounter' \in 0..TimeoutTicks
    BY <1>1, <1>3, TimingAssumption DEF Timer0IntHandler, ADC0handler
  <2>3. waited' \in 0..DelayCycles
    BY <1>1, <1>3, TimingAssumption DEF Timer0IntHandler, ADC0handler
  <2>4. converting' \in BOOLEAN /\ meas' \in Readings \cup {Zero}
    BY <1>1 DEF IInv, TypeOK, Timer0IntHandler, ADC0handler
  <2>5. QED
    BY <1>1, <1>2, <1>4, <2>1, <2>2, <2>3, <2>4 DEF IInv, TypeOK
<1>6. CycleSeen'
  <2>1. waited' # waited => flags'.cycle = 1 /\ pc = "delay"
    BY <1>1, <1>3 DEF Timer0IntHandler, ADC0handler, Flags
  <2>2. CycleSeen
    BY <1>1 DEF IInv
  <2>3. QED
    BY <1>2, <1>4, <2>1, <2>2 DEF CycleSeen
<1>7. MeanOfReading' /\ PeakHold' /\ HealthyBranch'
  BY <1>1, <1>2 DEF IInv, MeanOfReading, PeakHold, HealthyBranch
<1>8. RegHoldsTrip' /\ VerdictKept' /\ ShownKept'
  BY <1>1, <1>2, <1>4 DEF IInv, RegHoldsTrip, VerdictKept, ShownKept
<1>9. ReportInProgress' /\ ReportCoherent'
  BY <1>1, <1>2, <1>4 DEF IInv, ReportInProgress, ReportCoherent
<1>10. QED
  BY <1>5, <1>6, <1>7, <1>8, <1>9 DEF IInv

\* Loading the flags for an update keeps the invariant.
LEMMA LoadIInv == IInv /\ (ClearLoad \/ TripLoad \/ AckLoad \/ SendLoad) => IInv'
<1>1. SUFFICES ASSUME IInv, ClearLoad \/ TripLoad \/ AckLoad \/ SendLoad PROVE IInv'
  OBVIOUS
<1>2. /\ reg' = flags
      /\ UNCHANGED <<isrVars, flags, waited, taskVars, led, lineVars>>
      /\ \/ pc = "clear load" /\ pc' = "clear store"
         \/ pc = "trip load" /\ pc' = "trip store"
         \/ pc = "ack load" /\ pc' = "ack store"
         \/ pc = "send load" /\ pc' = "send store"
  BY <1>1 DEF ClearLoad, TripLoad, AckLoad, SendLoad, Load, Goto
<1>3. UNCHANGED <<converting, count, meas, uiCounter, flags, waited, mean, met, maximum,
                  tripped, window, led, out, line, sent>>
  BY <1>2 DEF isrVars, taskVars, lineVars
<1>4. TypeOK'
  BY <1>1, <1>2, <1>3 DEF IInv, TypeOK, Locations
<1>5. MeanOfReading' /\ PeakHold' /\ RegHoldsTrip' /\ CycleSeen'
  BY <1>1, <1>2, <1>3 DEF IInv, MeanOfReading, PeakHold, RegHoldsTrip, CycleSeen
<1>6. VerdictKept' /\ ShownKept' /\ HealthyBranch'
  BY <1>1, <1>2, <1>3 DEF IInv, VerdictKept, ShownKept, HealthyBranch, Stored, Judging,
     HealthyPass, Decided
<1>7. ReportInProgress' /\ ReportCoherent'
  BY <1>1, <1>2, <1>3 DEF IInv, ReportInProgress, ReportCoherent, Decided
<1>8. QED
  BY <1>4, <1>5, <1>6, <1>7 DEF IInv

\* Storing the register writes the stale copies of the flags of the handlers,
\* but bTripFlag is never among what it destroys.
LEMMA StoreIInv == IInv /\ (ClearStore \/ TripStore \/ AckStore \/ SendStore) => IInv'
<1>1. SUFFICES ASSUME IInv, ClearStore \/ TripStore \/ AckStore \/ SendStore PROVE IInv'
  OBVIOUS
<1>2. /\ \/ pc = "clear store" /\ pc' = "mean crnt"
         \/ pc = "trip store" /\ pc' = IF Verdict(met) = PowerOK THEN "test timeout"
                                                                ELSE "decide"
         \/ pc = "ack store" /\ pc' = "forget"
         \/ pc = "send store" /\ pc' = "latch"
      /\ reg' = NoFlags
  BY <1>1 DEF ClearStore, TripStore, AckStore, SendStore, Store, Goto
<1>3. UNCHANGED <<converting, count, meas, uiCounter, waited, mean, met, maximum,
                  tripped, window, led, out, line, sent>>
  BY <1>1 DEF ClearStore, TripStore, AckStore, SendStore, Store, isrVars, taskVars, lineVars
<1>4. /\ flags' \in Flags
      /\ flags'.trip = IF pc = "trip store" THEN Verdict(met) ELSE flags.trip
  <2>1. reg \in Flags
    BY <1>1 DEF IInv, TypeOK
  <2>2. reg.trip = flags.trip
    BY <1>1, <1>2 DEF IInv, RegHoldsTrip, Storing
  <2>3. Verdict(met) \in 0..3
    BY VerdictType DEF PowerOK, Tripped, NoPower
  <2>4. CASE TripStore
    BY <2>1, <2>3, <2>4, FlagUpdates DEF TripStore, Store, Goto
  <2>5. CASE ClearStore
    BY <2>1, <2>2, <2>5, FlagUpdates DEF ClearStore, Store, Goto
  <2>6. CASE AckStore
    BY <2>1, <2>2, <2>6, FlagUpdates DEF AckStore, Store, Goto
  <2>7. CASE SendStore
    BY <2>1, <2>2, <2>7, FlagUpdates DEF SendStore, Store, Goto
  <2>8. QED
    BY <1>1, <2>4, <2>5, <2>6, <2>7
<1>5. TypeOK'
  <2>1. reg' \in Flags
    BY <1>2, FlagUpdates
  <2>2. pc' \in {"mean crnt", "test timeout", "decide", "forget", "latch"}
    BY <1>2
  <2>3. pc' \in Locations
    BY <2>2 DEF Locations
  <2>4. QED
    BY <1>1, <1>3, <1>4, <2>1, <2>3 DEF IInv, TypeOK
<1>6. MeanOfReading' /\ PeakHold' /\ RegHoldsTrip' /\ CycleSeen'
  BY <1>1, <1>2, <1>3 DEF IInv, MeanOfReading, PeakHold, RegHoldsTrip, CycleSeen, Storing
<1>7. VerdictKept' /\ ShownKept' /\ HealthyBranch'
  BY <1>1, <1>2, <1>3, <1>4 DEF IInv, VerdictKept, ShownKept, HealthyBranch, Stored,
     Judging, HealthyPass, Decided
<1>8. ReportInProgress' /\ ReportCoherent'
  BY <1>1, <1>2, <1>3, <1>4 DEF IInv, ReportInProgress, ReportCoherent, Decided
<1>9. QED
  BY <1>5, <1>6, <1>7, <1>8 DEF IInv

\* The steps that only look at the flags keep the invariant.  A pass that found
\* no new cycle would report what it has, but CycleSeen excludes it.
LEMMA BranchIInv == IInv /\ (Delay \/ Check \/ TestTimeout) => IInv'
<1>1. SUFFICES ASSUME IInv, Delay \/ Check \/ TestTimeout PROVE IInv'
  OBVIOUS
<1>2. UNCHANGED <<converting, count, meas, uiCounter, flags, reg, mean, met, maximum,
                  tripped, window, led, out, line, sent>>
  BY <1>1 DEF Delay, Check, TestTimeout, isrVars, taskVars, lineVars
<1>3. \/ pc = "delay" /\ pc' = "check" /\ waited = DelayCycles /\ waited' = 0
      \/ pc = "check" /\ pc' = "clear load" /\ waited' = waited
      \/ pc = "test timeout" /\ pc' \in {"ack load", "decide"} /\ waited' = waited
  BY <1>1 DEF Delay, Check, TestTimeout, Goto, IInv, CycleSeen
<1>4. TypeOK'
  <2>1. pc' \in Locations
    BY <1>3 DEF Locations
  <2>2. waited' \in 0..DelayCycles
    <3>1. waited \in 0..DelayCycles
      BY <1>1 DEF IInv, TypeOK
    <3>2. waited' = 0 \/ waited' = waited
      BY <1>3
    <3>3. 0 \in 0..DelayCycles
      BY TimingAssumption
    <3>4. QED
      BY <3>1, <3>2, <3>3
  <2>3. QED
    BY <1>1, <1>2, <2>1, <2>2 DEF IInv, TypeOK
<1>5. MeanOfReading' /\ PeakHold' /\ RegHoldsTrip'
  BY <1>1, <1>2, <1>3 DEF IInv, MeanOfReading, PeakHold, RegHoldsTrip, Storing
<1>6. CycleSeen'
  <2>1. CycleSeen /\ DelayCycles > 0
    BY <1>1, TimingAssumption DEF IInv
  <2>2. QED
    BY <1>2, <1>3, <2>1 DEF CycleSeen
<1>7. VerdictKept' /\ ShownKept' /\ HealthyBranch'
  BY <1>1, <1>2, <1>3 DEF IInv, VerdictKept, ShownKept, HealthyBranch, Stored, Judging,
     HealthyPass, Decided
<1>8. ReportInProgress' /\ ReportCoherent'
  BY <1>1, <1>2, <1>3 DEF IInv, ReportInProgress, ReportCoherent, Decided
<1>9. QED
  BY <1>4, <1>5, <1>6, <1>7, <1>8 DEF IInv

\* Reading the sums changes one mean square, to that of a reading.
LEMMA MeanIInv == IInv /\ (MeanCrnt \/ MeanVolt1 \/ MeanVolt2) => IInv'
<1>1. SUFFICES ASSUME IInv, MeanCrnt \/ MeanVolt1 \/ MeanVolt2 PROVE IInv'
  OBVIOUS
<1>2. PICK c \in Channel : mean' = [mean EXCEPT ![c] = MeanSqr(c, meas[c])]
  BY <1>1 DEF MeanCrnt, MeanVolt1, MeanVolt2, Mean, Channel
<1>3. UNCHANGED <<converting, count, meas, uiCounter, flags, reg, waited, met, maximum,
                  tripped, window, led, out, line, sent>>
  BY <1>1 DEF MeanCrnt, MeanVolt1, MeanVolt2, Mean, isrVars, lineVars
<1>4. \/ pc = "mean crnt" /\ pc' = "mean volt1"
      \/ pc = "mean volt1" /\ pc' = "mean volt2"
      \/ pc = "mean volt2" /\ pc' = "compute"
  BY <1>1 DEF MeanCrnt, MeanVolt1, MeanVolt2, Mean, Goto
<1>5. mean \in [Channel -> 0..MaxUInt32] /\ meas \in Readings \cup {Zero}
  BY <1>1 DEF IInv, TypeOK
<1>6. MeanSqr(c, meas[c]) \in 0..MaxUInt32
  BY <1>5, ReadingType, MeanSqrType
<1>7. TypeOK'
  <2>1. mean' \in [Channel -> 0..MaxUInt32]
    BY <1>2, <1>5, <1>6
  <2>2. pc' \in Locations
    BY <1>4 DEF Locations
  <2>3. QED
    BY <1>1, <1>3, <2>1, <2>2 DEF IInv, TypeOK
<1>8. MeanOfReading'
  <2>1. MeanOfReading
    BY <1>1 DEF IInv
  <2>2. QED
    BY <1>2, <1>5, <2>1 DEF MeanOfReading
<1>9. PeakHold' /\ RegHoldsTrip' /\ CycleSeen'
  BY <1>1, <1>3, <1>4 DEF IInv, PeakHold, RegHoldsTrip, CycleSeen, Storing
<1>10. VerdictKept' /\ ShownKept' /\ HealthyBranch'
  BY <1>1, <1>3, <1>4 DEF IInv, VerdictKept, ShownKept, HealthyBranch, Stored, Judging,
     HealthyPass, Decided
<1>11. ReportInProgress' /\ ReportCoherent'
  BY <1>1, <1>3, <1>4 DEF IInv, ReportInProgress, ReportCoherent, Decided
<1>12. QED
  BY <1>7, <1>8, <1>9, <1>10, <1>11 DEF IInv

\* The peak hold takes a measurement into the currents it is the highest of.
LEMMA PeakTakesIn ==
  ASSUME NEW W \in SUBSET Nat, NEW p, NEW m, m["crnt"] \in Nat,
         p["crnt"] \in W, \A i \in W : i <= p["crnt"]
  PROVE  /\ Peak(p, m)["crnt"] \in W \cup {m["crnt"]}
         /\ \A i \in W \cup {m["crnt"]} : i <= Peak(p, m)["crnt"]
<1> DEFINE a == p["crnt"]
           b == m["crnt"]
<1>1. a \in Nat /\ b \in Nat /\ (\A i \in W : i \in Nat /\ i <= a)
  OBVIOUS
<1>2. /\ a <= b => \A i \in W \cup {b} : i <= b
      /\ ~ (a <= b) => \A i \in W \cup {b} : i <= a
  <2> HIDE DEF a, b
  <2>1. QED
    BY <1>1
<1>3. CASE a <= b
  <2>1. Peak(p, m) = m
    BY <1>3 DEF Peak
  <2>2. QED
    BY <1>2, <1>3, <2>1
<1>4. CASE ~ (a <= b)
  <2>1. Peak(p, m) = p
    BY <1>4 DEF Peak
  <2>2. QED
    BY <1>2, <1>4, <2>1
<1>5. QED
  BY <1>3, <1>4

\* What is computed from mean squares of readings is measurable, and the peak
\* hold takes the new measurement in.
LEMMA ComputeIInv == IInv /\ Compute => IInv'
<1>1. SUFFICES ASSUME IInv, Compute PROVE IInv'
  OBVIOUS
<1>2. /\ pc = "compute" /\ pc' = "trip load"
      /\ met' = [c \in Channel |-> RMS(c, mean[c])]
      /\ maximum' = Peak(maximum, met')
      /\ tripped' = IF Verdict(met') = PowerOK THEN met' ELSE maximum'
      /\ window' = window \cup {met'["crnt"]}
  BY <1>1 DEF Compute, Goto
<1>3. UNCHANGED <<converting, count, meas, uiCounter, flags, reg, waited, mean, led, out,
                  line, sent>>
  BY <1>1 DEF Compute, isrVars, lineVars
<1>4. met' \in [Channel -> Levels]
  <2>1. MeanOfReading
    BY <1>1 DEF IInv
  <2>2. \A c \in Channel : RMS(c, mean[c]) \in Levels
    BY <2>1 DEF MeanOfReading, Levels
  <2>3. QED
    BY <1>2, <2>2
<1>5. /\ maximum \in [Channel -> Levels] /\ window \subseteq Levels
      /\ maximum' \in [Channel -> Levels] /\ tripped' \in [Channel -> Levels]
  <2>1. maximum \in [Channel -> Levels] /\ window \subseteq Levels
    BY <1>1 DEF IInv, TypeOK
  <2>2. maximum' \in [Channel -> Levels]
    BY <1>2, <1>4, <2>1 DEF Peak
  <2>3. QED
    BY <1>2, <1>4, <2>1, <2>2
<1>6. TypeOK'
  <2>1. window' \subseteq Levels
    BY <1>2, <1>4, <1>5 DEF Channel
  <2>2. pc' \in Locations
    BY <1>2 DEF Locations
  <2>3. QED
    BY <1>1, <1>3, <1>4, <1>5, <2>1, <2>2 DEF IInv, TypeOK
<1>7. PeakHold'
  <2>1. PeakHold
    BY <1>1 DEF IInv
  <2>2. window \in SUBSET Nat /\ met'["crnt"] \in Nat
    BY <1>4, <1>5, LevelsNat DEF Channel
  <2>3. /\ Peak(maximum, met')["crnt"] \in window \cup {met'["crnt"]}
        /\ \A i \in window \cup {met'["crnt"]} : i <= Peak(maximum, met')["crnt"]
    BY <2>1, <2>2, PeakTakesIn DEF PeakHold
  <2>4. QED
    BY <1>2, <2>3 DEF PeakHold
<1>8. MeanOfReading' /\ RegHoldsTrip' /\ CycleSeen'
  BY <1>1, <1>2, <1>3 DEF IInv, MeanOfReading, RegHoldsTrip, CycleSeen, Storing
<1>9. VerdictKept' /\ ShownKept' /\ HealthyBranch'
  BY <1>2, <1>3 DEF VerdictKept, ShownKept, HealthyBranch, Stored, Judging, HealthyPass,
     Decided
<1>10. ReportInProgress' /\ ReportCoherent'
  BY <1>1, <1>2, <1>3 DEF IInv, ReportInProgress, ReportCoherent, Decided
<1>11. QED
  BY <1>6, <1>7, <1>8, <1>9, <1>10 DEF IInv

\* The peak is forgotten for the measurement just made.
LEMMA ForgetIInv == IInv /\ Forget => IInv'
<1>1. SUFFICES ASSUME IInv, Forget PROVE IInv'
  OBVIOUS
<1>2. /\ pc = "forget" /\ pc' = "decide"
      /\ maximum' = met /\ window' = {met["crnt"]}
  BY <1>1 DEF Forget, Goto
<1>3. UNCHANGED <<converting, count, meas, uiCounter, flags, reg, waited, mean, met,
                  tripped, led, out, line, sent>>
  BY <1>1 DEF Forget, isrVars, lineVars
<1>4. met \in [Channel -> Levels] /\ met["crnt"] \in Levels
  BY <1>1 DEF IInv, TypeOK, Channel
<1>5. TypeOK'
  <2>1. pc' \in Locations
    BY <1>2 DEF Locations
  <2>2. QED
    BY <1>1, <1>2, <1>3, <1>4, <2>1 DEF IInv, TypeOK
<1>6. PeakHold'
  <2>1. met["crnt"] \in Nat
    BY <1>4, LevelsNat
  <2>2. QED
    BY <1>2, <2>1 DEF PeakHold
<1>7. MeanOfReading' /\ RegHoldsTrip' /\ CycleSeen'
  BY <1>1, <1>2, <1>3 DEF IInv, MeanOfReading, RegHoldsTrip, CycleSeen, Storing
<1>8. VerdictKept' /\ ShownKept' /\ HealthyBranch'
  BY <1>1, <1>2, <1>3 DEF IInv, VerdictKept, ShownKept, HealthyBranch, Stored, Judging,
     HealthyPass, Decided
<1>9. ReportInProgress' /\ ReportCoherent'
  BY <1>1, <1>2, <1>3 DEF IInv, ReportInProgress, ReportCoherent, Decided
<1>10. QED
  BY <1>5, <1>6, <1>7, <1>8, <1>9 DEF IInv

\* Status and LED follow bTripFlag, which is the verdict on the measurement.
LEMMA DecideIInv == IInv /\ Decide => IInv'
<1>1. SUFFICES ASSUME IInv, Decide PROVE IInv'
  OBVIOUS
<1>2. /\ pc = "decide" /\ pc' \in {"latch", "send load"}
      /\ led' = Led(flags.trip)
      /\ out' = [out EXCEPT ![1] = IF flags.trip \in {Tripped, NoPower}
                                   THEN flags.trip ELSE PowerOK]
  BY <1>1 DEF Decide, Goto
<1>3. UNCHANGED <<converting, count, meas, uiCounter, flags, reg, waited, mean, met,
                  maximum, tripped, window, line, sent>>
  BY <1>1 DEF Decide, isrVars, taskVars
<1>4. flags.trip \in {PowerOK, Tripped, NoPower}
  BY <1>1, <1>2, VerdictType DEF IInv, VerdictKept, Stored
<1>5. out \in [1..5 -> Byte] /\ out' = [out EXCEPT ![1] = flags.trip]
  BY <1>1, <1>2, <1>4 DEF IInv, TypeOK
<1>6. TypeOK'
  <2>1. flags.trip \in Byte
    BY <1>4 DEF Byte, PowerOK, Tripped, NoPower
  <2>2. out' \in [1..5 -> Byte]
    BY <1>5, <2>1
  <2>3. pc' \in Locations /\ led' \in {0, 2, 4, 8}
    BY <1>2 DEF Locations, Led
  <2>4. QED
    BY <1>1, <1>3, <2>2, <2>3 DEF IInv, TypeOK
<1>7. MeanOfReading' /\ RegHoldsTrip' /\ CycleSeen' /\ PeakHold'
  BY <1>1, <1>2, <1>3 DEF IInv, MeanOfReading, RegHoldsTrip, CycleSeen, Storing, PeakHold
<1>8. VerdictKept' /\ ShownKept' /\ HealthyBranch'
  BY <1>1, <1>2, <1>3 DEF IInv, VerdictKept, ShownKept, HealthyBranch, Stored, Judging,
     HealthyPass, Decided
<1>9. ReportInProgress' /\ ReportCoherent'
  <2>1. out'[1] = flags.trip
    BY <1>5
  <2>2. QED
    BY <1>1, <1>2, <1>3, <2>1 DEF IInv, ReportInProgress, ReportCoherent, Decided
<1>10. QED
  BY <1>6, <1>7, <1>8, <1>9 DEF IInv

\* The bytes latched are the ones of the report on what is shown.
LEMMA LatchIInv == IInv /\ Latch => IInv'
<1>1. SUFFICES ASSUME IInv, Latch PROVE IInv'
  OBVIOUS
<1>2. /\ pc = "latch" /\ pc' = "transmit"
      /\ out' = <<out[1], CurrentHigh(tripped), CurrentLow(tripped),
                  tripped["volt1"] % 256, tripped["volt2"] % 256>>
  BY <1>1 DEF Latch, Goto
<1>3. UNCHANGED <<converting, count, meas, uiCounter, flags, reg, waited, mean, met,
                  maximum, tripped, window, led, line, sent>>
  BY <1>1 DEF Latch, isrVars, taskVars
<1>4. flags.trip = Verdict(met) /\ out[1] = flags.trip /\ led = Led(flags.trip)
      /\ line = <<>>
  BY <1>1, <1>2 DEF IInv, VerdictKept, Stored, ReportInProgress, Decided
<1>5. Frame(flags.trip, tripped) \in [1..6 -> Byte]
  <2>1. tripped \in [Channel -> 0..MaxUInt16]
    BY <1>1, LevelsType DEF IInv, TypeOK
  <2>2. flags.trip \in {PowerOK, Tripped, NoPower}
    BY <1>4, VerdictType
  <2>3. QED
    BY <2>1, <2>2, CurrentArrives
<1>6. \A i \in 1..5 : out'[i] = Frame(flags.trip, tripped)[i]
  BY <1>2, <1>4 DEF Frame
<1>7. out' \in [1..5 -> Byte]
  <2>1. \A i \in 1..5 : out'[i] \in Byte
    BY <1>5, <1>6
  <2>2. QED
    BY <1>2, <2>1
<1>8. TypeOK'
  <2>1. pc' \in Locations
    BY <1>2 DEF Locations
  <2>2. QED
    BY <1>1, <1>3, <1>7, <2>1 DEF IInv, TypeOK
<1>9. MeanOfReading' /\ RegHoldsTrip' /\ CycleSeen' /\ PeakHold'
  BY <1>1, <1>2, <1>3 DEF IInv, MeanOfReading, RegHoldsTrip, CycleSeen, Storing, PeakHold
<1>10. VerdictKept' /\ ShownKept' /\ HealthyBranch'
  BY <1>1, <1>2, <1>3 DEF IInv, VerdictKept, ShownKept, HealthyBranch, Stored, Judging,
     HealthyPass, Decided
<1>11. ReportInProgress' /\ ReportCoherent'
  <2>1. out'[1] = flags.trip
    BY <1>2, <1>4
  <2>2. Len(line) = 0
    BY <1>4
  <2>3. QED
    BY <1>2, <1>3, <1>4, <1>6, <2>1, <2>2 DEF ReportInProgress, ReportCoherent, Decided
<1>12. QED
  BY <1>8, <1>9, <1>10, <1>11 DEF IInv

\* One byte more is on the line, and it is the next one of the report.
LEMMA TransmitIInv == IInv /\ Transmit => IInv'
<1>1. SUFFICES ASSUME IInv, Transmit PROVE IInv'
  OBVIOUS
<1> DEFINE frame == Frame(flags.trip, tripped)
           next  == IF Len(line) < 5 THEN out[Len(line) + 1] ELSE Newline
           bytes == Append(line, next)
<1>2. /\ pc = "transmit"
      /\ \/ Len(line) = 5 /\ pc' = "delay" /\ line' = <<>> /\ sent' = bytes
         \/ Len(line) # 5 /\ pc' = pc /\ line' = bytes /\ sent' = sent
  BY <1>1 DEF Transmit
<1>3. UNCHANGED <<converting, count, meas, uiCounter, flags, reg, waited, mean, met,
                  maximum, tripped, window, led, out>>
  BY <1>1 DEF Transmit, isrVars, taskVars
<1>4. /\ flags.trip = Verdict(met) /\ led = Led(flags.trip)
      /\ \A i \in 1..5 : out[i] = frame[i]
      /\ \A i \in 1..Len(line) : line[i] = frame[i]
  BY <1>1, <1>2 DEF IInv, VerdictKept, Stored, ReportInProgress, Decided
<1>5. line \in Seq(Byte) /\ Len(line) \in 0..5 /\ out \in [1..5 -> Byte]
  <2>1. line \in Seq(Byte) /\ Len(line) < 6 /\ out \in [1..5 -> Byte]
    BY <1>1 DEF IInv, TypeOK
  <2>2. Len(line) \in Nat
    BY <2>1, LenProperties
  <2>3. \A n \in Nat : n < 6 => n \in 0..5
    OBVIOUS
  <2>4. Len(line) \in 0..5
    BY <2>1, <2>2, <2>3, Zenon
  <2>5. QED
    BY <2>1, <2>4
<1>6. frame \in [1..6 -> Byte] /\ CurrentIn(frame) = tripped["crnt"]
      /\ frame[1] = flags.trip /\ frame[6] = Newline
  <2>1. tripped \in [Channel -> 0..MaxUInt16]
    BY <1>1, LevelsType DEF IInv, TypeOK
  <2>2. flags.trip \in {PowerOK, Tripped, NoPower}
    BY <1>4, VerdictType
  <2>3. frame \in [1..6 -> Byte] /\ CurrentIn(frame) = tripped["crnt"]
    BY <2>1, <2>2, CurrentArrives
  <2>4. frame[1] = flags.trip /\ frame[6] = Newline
    BY SMT DEF Frame
  <2>5. QED
    BY <2>3, <2>4
<1> HIDE DEF frame
<1>7. next = frame[Len(line) + 1]
  BY <1>4, <1>5, <1>6
<1>8. /\ bytes \in Seq(Byte) /\ Len(bytes) = Len(line) + 1
      /\ \A i \in 1..Len(bytes) : bytes[i] = frame[i]
  <2>1. next \in Byte
    BY <1>5, <1>6, <1>7
  <2> HIDE DEF next
  <2>2. bytes \in Seq(Byte) /\ Len(bytes) = Len(line) + 1
    BY <1>5, <2>1
  <2>3. \A i \in 1..Len(line) : bytes[i] = line[i]
    BY <1>5, <2>1
  <2>4. bytes[Len(line) + 1] = next
    BY <1>5, <2>1
  <2>5. QED
    BY <1>4, <1>5, <1>7, <2>2, <2>3, <2>4
<1> HIDE DEF bytes
<1>9. Len(line) = 5 => bytes = frame
  <2>1. SUFFICES ASSUME Len(line) = 5 PROVE bytes = frame
    OBVIOUS
  <2>2. bytes \in [1..6 -> Byte]
    <3>1. Len(bytes) = 6
      BY <1>8, <2>1
    <3>2. bytes \in [1..Len(bytes) -> Byte]
      BY <1>8, LenProperties
    <3>3. QED
      BY <3>1, <3>2
  <2>3. QED
    BY <1>6, <1>8, <2>1, <2>2
<1>10. TypeOK'
  <2>1. pc' \in Locations
    BY <1>2 DEF Locations
  <2>2. line' \in Seq(Byte) /\ Len(line') < 6
    <3>1. CASE Len(line) = 5
      BY <1>2, <3>1
    <3>2. CASE Len(line) # 5
      BY <1>2, <1>5, <1>8, <3>2
    <3>3. QED
      BY <3>1, <3>2
  <2>3. sent' = <<>> \/ sent' \in [1..6 -> Byte]
    BY <1>1, <1>2, <1>6, <1>9 DEF IInv, TypeOK
  <2>4. QED
    BY <1>1, <1>3, <2>1, <2>2, <2>3 DEF IInv, TypeOK
<1>11. MeanOfReading' /\ RegHoldsTrip' /\ PeakHold'
  BY <1>1, <1>2, <1>3 DEF IInv, MeanOfReading, RegHoldsTrip, Storing, PeakHold
<1>12. CycleSeen'
  <2>1. waited = 0
    BY <1>1, <1>2 DEF IInv, CycleSeen
  <2>2. QED
    BY <1>2, <1>3, <2>1 DEF CycleSeen
<1>13. VerdictKept' /\ ShownKept' /\ HealthyBranch'
  BY <1>1, <1>2, <1>3 DEF IInv, VerdictKept, ShownKept, HealthyBranch, Stored, Judging,
     HealthyPass, Decided
<1>14. ReportInProgress'
  <2>1. CASE Len(line) = 5
    BY <1>2, <2>1 DEF ReportInProgress, Decided
  <2>2. CASE Len(line) # 5
    BY <1>1, <1>2, <1>3, <1>4, <1>8, <2>2 DEF IInv, ReportInProgress, Decided, frame
  <2>3. QED
    BY <2>1, <2>2
<1>15. ReportCoherent'
  BY <1>2, <1>3, <1>4, <1>6, <1>9 DEF ReportCoherent, frame
<1>16. QED
  BY <1>10, <1>11, <1>12, <1>13, <1>14, <1>15 DEF IInv

-----------------------------------------------------------------------------
\* Every step keeps the invariant.
LEMMA NextIInv == IInv /\ [Next]_vars => IInv'
<1>1. SUFFICES ASSUME IInv, [Next]_vars PROVE IInv'
  OBVIOUS
<1>2. CASE Timer0IntHandler \/ ADC0handler
  BY <1>1, <1>2, HandlersIInv
<1>3. CASE DAQ_20msTask
  BY <1>1, <1>3, LoadIInv, StoreIInv, BranchIInv, MeanIInv, ComputeIInv, ForgetIInv
     DEF DAQ_20msTask
<1>4. CASE Delay \/ Check \/ SendLoad \/ SendStore
  BY <1>1, <1>4, BranchIInv, LoadIInv, StoreIInv
<1>5. CASE Decide \/ Latch \/ Transmit
  BY <1>1, <1>5, DecideIInv, LatchIInv, TransmitIInv
<1>6. CASE UNCHANGED vars
  BY <1>1, <1>6 DEF vars, isrVars, taskVars, lineVars, IInv, TypeOK, MeanOfReading,
     RegHoldsTrip, CycleSeen, VerdictKept, ShownKept, HealthyBranch, PeakHold,
     ReportInProgress, ReportCoherent
<1>7. QED
  BY <1>1, <1>2, <1>3, <1>4, <1>5, <1>6 DEF Next, Main

\* The inductive invariant holds in every reachable state.
THEOREM Invariance == Spec => []IInv
<1>1. QED
  BY InitIInv, NextIInv, PTL DEF Spec

\* Type correctness of the controller, for every set of readings and timing.
THEOREM TypeCorrect == Spec => []TypeOK
<1>1. IInv => TypeOK
  BY DEF IInv
<1>2. QED
  BY <1>1, Invariance, PTL

\* However the handlers interleave with the flag updates of the main loop, no
\* pass of the loop finds bCycleOver clear (main.c:232).
THEOREM FreshPasses == Spec => []EveryPassMeasures
<1>1. IInv => EveryPassMeasures
  BY DEF IInv, CycleSeen, EveryPassMeasures
<1>2. QED
  BY <1>1, Invariance, PTL

\* The peak hold is the maximum of the currents measured since it was forgotten
\* (DAQ.c:122-143).
THEOREM PeakHolds == Spec => []PeakHold
<1>1. IInv => PeakHold
  BY DEF IInv
<1>2. QED
  BY <1>1, Invariance, PTL

\* A complete report, its LED and its values belong to one verdict
\* (main.c:235-304).
THEOREM ReportsCohere == Spec => []ReportCoherent
<1>1. IInv => ReportCoherent
  BY DEF IInv
<1>2. QED
  BY <1>1, Invariance, PTL

\* A report of a fault shows the highest current measured since the peak was
\* forgotten, a report of a healthy state the current just measured.
THEOREM CurrentsReported == Spec => []ReportedCurrent
<1>1. ASSUME IInv PROVE ReportedCurrent
  <2>1. SUFFICES ASSUME pc = "delay", sent # <<>>
                 PROVE  IF sent[1] = PowerOK
                        THEN CurrentIn(sent) = met["crnt"]
                        ELSE \A i \in window : i <= CurrentIn(sent)
    BY DEF ReportedCurrent
  <2>2. /\ sent = Frame(flags.trip, tripped) /\ CurrentIn(sent) = tripped["crnt"]
        /\ flags.trip = Verdict(met)
    BY <1>1, <2>1 DEF IInv, ReportCoherent
  <2>3. sent[1] = Verdict(met)
    BY <2>2 DEF Frame
  <2>4. tripped = IF Verdict(met) = PowerOK THEN met ELSE maximum
    BY <1>1, <2>1 DEF IInv, ShownKept
  <2>5. \A i \in window : i <= maximum["crnt"]
    BY <1>1 DEF IInv, PeakHold
  <2>6. QED
    BY <2>2, <2>3, <2>4, <2>5
<1>2. QED
  BY <1>1, Invariance, PTL

\* The peak goes down in no other step than the one that forgets it, and that
\* one belongs to a pass that found the state healthy (DAQ.c:134-145).
THEOREM PeakKept == Spec => PeakKeptInFault
<1>1. ASSUME IInv, [Next]_vars, maximum'["crnt"] < maximum["crnt"]
      PROVE  flags.trip = PowerOK /\ Verdict(met) = PowerOK
  <2>1. maximum["crnt"] \in Nat
    BY <1>1, LevelsNat DEF IInv, TypeOK, Channel
  <2>2. maximum' # maximum
    BY <1>1, <2>1
  <2>3. CASE Forget
    BY <1>1, <2>3 DEF Forget, Goto, IInv, HealthyBranch, VerdictKept, Stored, HealthyPass
  <2>4. CASE Compute
    <3>1. maximum'["crnt"] = maximum["crnt"] \/ maximum["crnt"] <= maximum'["crnt"]
      BY <2>4 DEF Compute, Peak
    <3>2. met' \in [Channel -> Levels]
      BY <1>1, <2>4, ComputeIInv DEF IInv, TypeOK
    <3>3. maximum'["crnt"] \in Nat
      BY <1>1, <2>4, ComputeIInv, LevelsNat DEF IInv, TypeOK, Channel
    <3>4. QED
      BY <1>1, <2>1, <3>1, <3>3
  <2>5. Forget \/ Compute
    BY <1>1, <2>2 DEF Next, Main, DAQ_20msTask, Timer0IntHandler, ADC0handler, Delay, Check,
       ClearLoad, ClearStore, Load, Store, MeanCrnt, MeanVolt1, MeanVolt2, Mean, TripLoad,
       TripStore, TestTimeout, AckLoad, AckStore, Decide, SendLoad, SendStore, Latch,
       Transmit, vars, taskVars
  <2>6. QED
    BY <2>3, <2>4, <2>5
<1>2. IInv /\ [Next]_vars =>
        [maximum'["crnt"] < maximum["crnt"] =>
           flags.trip = PowerOK /\ Verdict(met) = PowerOK]_vars
  BY <1>1
<1>3. QED
  BY <1>2, Invariance, PTL DEF Spec, PeakKeptInFault

-----------------------------------------------------------------------------
\* A step that changes neither the peak, nor what is judged and shown, nor the
\* last report is no step of the meter.
LEMMA MeterStutter ==
  ASSUME Judged' = Judged, UNCHANGED <<maximum, tripped, sent>>
  PROVE  UNCHANGED M!vars
BY DEF M!vars

\* The meter counts with the same arithmetic.
LEMMA SameMetering ==
  /\ M!Zero = Zero /\ M!PowerOK = PowerOK
  /\ \A m : M!Verdict(m) = Verdict(m)
  /\ \A p, m : M!Peak(p, m) = Peak(p, m)
  /\ \A trip, m : M!Frame(trip, m) = Frame(trip, m)
<1>1. M!Zero = Zero /\ M!PowerOK = PowerOK
  BY DEF M!Zero, Zero, M!Channel, Channel, M!PowerOK, PowerOK
<1>2. \A m : M!Verdict(m) = Verdict(m)
  BY DEF M!Verdict, Verdict, M!PowerOK, PowerOK, M!Tripped, Tripped, M!NoPower, NoPower
<1>3. \A p, m : M!Peak(p, m) = Peak(p, m)
  BY DEF M!Peak, Peak
<1>4. \A trip, m : M!Frame(trip, m) = Frame(trip, m)
  BY DEF M!Frame, Frame, M!CurrentHigh, CurrentHigh, M!CurrentLow, CurrentLow, M!Newline,
     Newline
<1>5. QED
  BY <1>1, <1>2, <1>3, <1>4

\* The initial state of the controller is the one of the meter.
LEMMA MeterInit == Init => M!Init
<1>1. SUFFICES ASSUME Init PROVE M!Init
  OBVIOUS
<1>2. Judged = PowerOK /\ maximum = Zero /\ tripped = Zero /\ sent = <<>>
  BY <1>1 DEF Init, Judged, NoFlags, PowerOK
<1>3. QED
  BY <1>2, SameMetering DEF M!Init

\* Every step of the controller is a step of the meter or none: a measurement is
\* observed when it is computed, forgotten when the peak hold takes it for the
\* peak, and reported with the last byte of a line.
LEMMA MeterStep == IInv /\ IInv' /\ [Next]_vars => [M!Next]_(M!vars)
<1>1. SUFFICES ASSUME IInv, IInv', [Next]_vars PROVE [M!Next]_(M!vars)
  OBVIOUS
<1>2. CASE Compute
  <2>1. met' \in [Channel -> Levels]
    BY <1>1 DEF IInv, TypeOK
  <2>2. Judged' = Verdict(met')
    BY <1>2 DEF Compute, Goto, Judged
  <2>3. M!Observe(met')
    BY <1>2, <2>2, SameMetering DEF Compute, lineVars, M!Observe
  <2>4. QED
    BY <2>1, <2>3 DEF M!Next
<1>3. CASE Forget
  <2>1. /\ flags.trip = PowerOK /\ Judged = PowerOK /\ Judged' = Judged
        /\ tripped = met
    BY <1>1, <1>3 DEF Forget, Goto, Judged, IInv, HealthyBranch, VerdictKept, ShownKept,
       Stored, HealthyPass
  <2>2. M!Forget
    BY <1>3, <2>1, SameMetering DEF Forget, lineVars, M!Forget
  <2>3. QED
    BY <2>2 DEF M!Next
<1>4. CASE Transmit
  <2>1. Judged' = Judged /\ Judged = flags.trip /\ UNCHANGED <<maximum, tripped>>
    BY <1>4 DEF Transmit, Judged, taskVars
  <2>2. CASE sent' = sent
    BY <2>1, <2>2, MeterStutter
  <2>3. CASE sent' # sent
    <3>1. pc' = "delay" /\ sent' # <<>>
      BY <1>1, <1>4, <2>3 DEF Transmit, IInv, TypeOK
    <3>2. sent' = Frame(flags'.trip, tripped')
      BY <1>1, <3>1 DEF IInv, ReportCoherent
    <3>3. flags' = flags
      BY <1>4 DEF Transmit
    <3>4. M!Send
      BY <2>1, <3>2, <3>3, SameMetering DEF M!Send
    <3>5. QED
      BY <3>4 DEF M!Next
  <2>4. QED
    BY <2>2, <2>3
<1>5. CASE Store("trip store", IF Verdict(met) = PowerOK THEN "test timeout" ELSE "decide",
                 [reg EXCEPT !.trip = Verdict(met)])
  <2>1. UNCHANGED <<maximum, tripped, sent, met>>
    BY <1>5 DEF Store, taskVars, lineVars
  <2>2. Judged = Verdict(met)
    BY <1>5 DEF Store, Goto, Judged
  <2>3. flags'.trip = Verdict(met)
    BY <1>1, <1>5 DEF Store, IInv, TypeOK, Flags
  <2>4. Judged' = Verdict(met)
    BY <1>5, <2>3 DEF Store, Goto, Judged
  <2>5. QED
    BY <2>1, <2>2, <2>4, MeterStutter
<1>6. CASE ClearStore \/ AckStore \/ SendStore
  <2>1. UNCHANGED <<maximum, tripped, sent, met>>
    BY <1>6 DEF ClearStore, AckStore, SendStore, Store, taskVars, lineVars
  <2>2. reg \in Flags /\ reg.trip = flags.trip
    BY <1>1, <1>6 DEF IInv, TypeOK, RegHoldsTrip, Storing, ClearStore, AckStore, SendStore,
       Store, Goto
  <2>3. flags'.trip = flags.trip
    BY <1>6, <2>2, FlagUpdates DEF ClearStore, AckStore, SendStore, Store
  <2>4. Judged' = Judged
    BY <1>6, <2>3 DEF ClearStore, AckStore, SendStore, Store, Goto, Judged
  <2>5. QED
    BY <2>1, <2>4, MeterStutter
<1>7. CASE Timer0IntHandler \/ ADC0handler
  <2>1. UNCHANGED <<maximum, tripped, sent, met, pc>>
    BY <1>7 DEF Timer0IntHandler, ADC0handler, taskVars, lineVars
  <2>2. flags \in Flags
    BY <1>1 DEF IInv, TypeOK
  <2>3. flags'.trip = flags.trip
    BY <1>7, <2>2 DEF Timer0IntHandler, ADC0handler, Flags
  <2>4. QED
    BY <2>1, <2>3, MeterStutter DEF Judged
<1>8. CASE Delay \/ Check \/ TestTimeout \/ Decide \/ Latch
  <2>1. UNCHANGED <<maximum, tripped, sent, met, flags>>
    BY <1>8 DEF Delay, Check, TestTimeout, Decide, Latch, taskVars, lineVars
  <2>2. Judged' = Judged
    BY <1>8, <2>1 DEF Delay, Check, TestTimeout, Decide, Latch, Goto, Judged
  <2>3. QED
    BY <2>1, <2>2, MeterStutter
<1>9. CASE ClearLoad \/ TripLoad \/ AckLoad \/ SendLoad
  <2>1. UNCHANGED <<maximum, tripped, sent, met, flags>>
    BY <1>9 DEF ClearLoad, TripLoad, AckLoad, SendLoad, Load, taskVars, lineVars
  <2>2. Judged' = Judged
    BY <1>9, <2>1 DEF ClearLoad, TripLoad, AckLoad, SendLoad, Load, Goto, Judged
  <2>3. QED
    BY <2>1, <2>2, MeterStutter
<1>10. CASE MeanCrnt \/ MeanVolt1 \/ MeanVolt2
  <2>1. UNCHANGED <<maximum, tripped, sent, met, flags>>
    BY <1>10 DEF MeanCrnt, MeanVolt1, MeanVolt2, Mean, lineVars
  <2>2. Judged' = Judged
    BY <1>10, <2>1 DEF MeanCrnt, MeanVolt1, MeanVolt2, Mean, Goto, Judged
  <2>3. QED
    BY <2>1, <2>2, MeterStutter
<1>11. CASE UNCHANGED vars
  BY <1>11, MeterStutter DEF vars, taskVars, lineVars, Judged
<1>12. QED
  BY <1>1, <1>2, <1>3, <1>4, <1>5, <1>6, <1>7, <1>8, <1>9, <1>10, <1>11
     DEF Next, Main, DAQ_20msTask, TripStore

\* The controller, with its interrupts, its shared flag byte and its serial
\* line, does nothing that the meter of module Meter could not do.
THEOREM Refinement == Spec => ImplementsMeter
<1>1. QED
  BY MeterInit, MeterStep, Invariance, PTL DEF Spec, ImplementsMeter, M!Spec
=============================================================================
