CONSTANTS
  MaxUInt32 = 2147483646
  Readings <- OddReadings
  SamplesPerCycle = 2
  TimeoutTicks = 2
  DelayCycles = 1
SPECIFICATION Spec
INVARIANT PowerOKMeansPower
CHECK_DEADLOCK TRUE
