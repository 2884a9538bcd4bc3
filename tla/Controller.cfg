CONSTANTS
  MaxUInt32 = 2147483646
  Readings <- MCReadings
  SamplesPerCycle = 2
  TimeoutTicks = 3
  DelayCycles = 1
SPECIFICATION FairSpec
INVARIANTS TypeOK EveryPassMeasures PeakHold ReportCoherent ReportedCurrent
PROPERTIES PeakKeptInFault ImplementsMeter SteadyStateReported
CHECK_DEADLOCK TRUE
