CONSTANTS
  MaxUInt32 = 2147483646
  Readings <- CutReadings
  SamplesPerCycle = 2
  TimeoutTicks = 2
  DelayCycles = 1
SPECIFICATION Spec
INVARIANT NoFalseTrip
CHECK_DEADLOCK TRUE
