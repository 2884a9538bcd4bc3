CONSTANTS
  MaxUInt32 = 2147483646
  Inputs <- MCInputs
  MaxCount = 4095
  SamplesPerCycle = 16
  AverageDivisor = 16
SPECIFICATION Spec
INVARIANTS TypeOK NeverUnderestimates SettledFits
CHECK_DEADLOCK TRUE
