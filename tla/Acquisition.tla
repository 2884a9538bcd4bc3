----------------------------- MODULE Acquisition -----------------------------
(***************************************************************************)
(* The arithmetic of PerSampleActivity (DAQ.c:45-87), which the ADC        *)
(* interrupt runs for every conversion: it sums the squares of the         *)
(* deviations from the average of the cycle BEFORE, because the average of *)
(* its own cycle is known only at the end.                                 *)
(*                                                                         *)
(* The bytes and words are those of the code, no value is cut: TypeOK says *)
(* that none needs to be.  What the interrupt does to bCycleOver, and when *)
(* it comes, is in module Controller, whose Readings are the values that   *)
(* "meas" takes here.                                                      *)
(***************************************************************************)
EXTENDS Metering

CONSTANTS Inputs,             \* what a conversion of the three channels can give
          MaxCount,           \* the largest result of the ADC, 4095
          SamplesPerCycle,    \* SAMPLES_PER_CYCLE, 16
          AverageDivisor      \* 2^4, the shift of DAQ.c:67-69

\* init_MeasurementTask: the middle of the ADC's range
FirstAverage == 2045

ASSUME ConverterAssumption == /\ MaxCount \in Nat /\ FirstAverage <= MaxCount
                              /\ Inputs \subseteq [Channel -> 0..MaxCount]
\* The shift is right only for the number of samples it was written for.
ASSUME CycleAssumption == /\ SamplesPerCycle \in Nat \ {0}
                          /\ AverageDivisor = SamplesPerCycle

\* The energy of a current that swings over the whole range of the converter,
\* scaled, is a word.
ASSUME RangeAssumption ==
  SamplesPerCycle * (MaxCount * MaxCount + 4)
    <= 4 * (MaxUInt32 \div Gain("crnt")) * Divisor("crnt")

VARIABLES
  count,        \* m_uiSampleCount
  average,      \* m_iAverage
  sumSamples,   \* m_lSumSamples
  sumSqr,       \* m_ullSumSqr of g_stDaqVar
  meas,         \* m_ullSumSqr of g_stMeasVar, what the main loop reads
  squares,      \* history: the sum of the squares of the cycle's samples
  last          \* history: the published cycle, its sums and the average before it

vars == <<count, average, sumSamples, sumSqr, meas, squares, last>>

\* No cycle was published yet
NoCycle == [sum |-> Zero, squares |-> Zero, about |-> Zero]

Init == /\ count = 0
        /\ average = [c \in Channel |-> FirstAverage]
        /\ sumSamples = Zero /\ sumSqr = Zero /\ meas = Zero
        /\ squares = Zero /\ last = NoCycle

-----------------------------------------------------------------------------
Plus(f, g) == [c \in Channel |-> f[c] + g[c]]
Square(f) == [c \in Channel |-> f[c] * f[c]]

\* m_iSample
Deviation(x) == [c \in Channel |-> x[c] - average[c]]

\* Bug...: plausible mistakes in the definition after them, used by no other.
\* a shift by 3
BugAverage(sum) == sum \div 8

Average(sum) == sum \div AverageDivisor

TakeSample(x) ==
  /\ count + 1 < SamplesPerCycle
  /\ count' = count + 1
  /\ sumSamples' = Plus(sumSamples, x)
  /\ sumSqr' = Plus(sumSqr, Square(Deviation(x)))
  /\ squares' = Plus(squares, Square(x))
  /\ UNCHANGED <<average, meas, last>>

\* What is remembered of a cycle when its last sample is x
Cycle(x) == [sum     |-> Plus(sumSamples, x),
             squares |-> Plus(squares, Square(x)),
             about   |-> average]

\* without the reset of m_lSumSamples
BugSumsKept(x) ==
  /\ count + 1 = SamplesPerCycle
  /\ count' = 0
  /\ average' = [c \in Channel |-> Average(sumSamples[c] + x[c])]
  /\ meas' = Plus(sumSqr, Square(Deviation(x)))
  /\ sumSamples' = Plus(sumSamples, x) /\ sumSqr' = Zero /\ squares' = Zero
  /\ last' = Cycle(x)

\* the sums are published before the last sample is added
BugPublishEarly(x) ==
  /\ count + 1 = SamplesPerCycle
  /\ count' = 0
  /\ average' = [c \in Channel |-> Average(sumSamples[c] + x[c])]
  /\ meas' = sumSqr
  /\ sumSamples' = Zero /\ sumSqr' = Zero /\ squares' = Zero
  /\ last' = Cycle(x)

\* The last sample of a cycle
EndCycle(x) ==
  /\ count + 1 = SamplesPerCycle
  /\ count' = 0
  /\ average' = [c \in Channel |-> Average(sumSamples[c] + x[c])]
  /\ meas' = Plus(sumSqr, Square(Deviation(x)))
  /\ sumSamples' = Zero /\ sumSqr' = Zero /\ squares' = Zero
  /\ last' = Cycle(x)

PerSampleActivity(x) == TakeSample(x) \/ EndCycle(x)

Next == \E x \in Inputs : PerSampleActivity(x)

Spec == Init /\ [][Next]_vars

-----------------------------------------------------------------------------
(***************************************************************************)
(* Properties.                                                             *)
(***************************************************************************)
\* The sums of n samples
SumsOf(n) == [Channel -> 0..(n * MaxCount)]
SquaresOf(n) == [Channel -> 0..(n * MaxCount * MaxCount)]

\* Every variable has its type and no word overflows: a sum has at most the
\* number of samples times the largest count, and an average is a count.
TypeOK ==
  /\ count \in 0..(SamplesPerCycle - 1)
  /\ average \in [Channel -> 0..MaxCount]
  /\ sumSamples \in SumsOf(count)
  /\ sumSqr \in SquaresOf(count)
  /\ squares \in SquaresOf(count)
  /\ meas \in SquaresOf(SamplesPerCycle)
  /\ last \in [sum : SumsOf(SamplesPerCycle), squares : SquaresOf(SamplesPerCycle),
               about : [Channel -> 0..MaxCount]]

\* The sum of squared deviations from a, from the sums of a cycle
Energy(cycle, c, a) ==
  cycle.squares[c] - 2 * a * cycle.sum[c] + SamplesPerCycle * a * a

\* What is published is never less than the energy of its cycle about the
\* cycle's own mean (but for the truncation of the average): the average of the
\* cycle before can only make the sum larger.  That is true of the sums; one that
\* has become too large for the cast of DAQ.c:101 reads as a small current, which
\* is the matter of SettledFits.
NeverUnderestimates ==
  last # NoCycle =>
    \A c \in Channel :
      meas[c] + SamplesPerCycle > Energy(last, c, Average(last.sum[c]))

\* Once the offset has settled, that is when a cycle has the average of the one
\* before, the scaled sum of the current fits the uint32_t it is cast to
\* (DAQ.c:101), whatever the samples are; it need not before.
SettledFits ==
  last # NoCycle /\ last.about["crnt"] = Average(last.sum["crnt"])
    => meas["crnt"] <= (MaxUInt32 \div Gain("crnt")) * Divisor("crnt")

-----------------------------------------------------------------------------
(***************************************************************************)
(* The inductive invariant of the proofs in AcquisitionProofs: the sums    *)
(* about the average of the cycle before, multiplied out.                  *)
(***************************************************************************)
RunningEnergy ==
  \A c \in Channel :
    sumSqr[c] = squares[c] - 2 * average[c] * sumSamples[c]
                  + count * average[c] * average[c]

PublishedEnergy ==
  last # NoCycle => \A c \in Channel : meas[c] = Energy(last, c, last.about[c])

IInv == TypeOK /\ RunningEnergy /\ PublishedEnergy

\* A square is at most the largest count times the count
SquaresInRange ==
  \A c \in Channel : /\ squares[c] <= MaxCount * sumSamples[c]
                     /\ last.squares[c] <= MaxCount * last.sum[c]
=============================================================================
