CONSTANTS
  MaxUInt32 = 2147483646
  Measurements <- MCMeasurements
  Reports <- MCReports
  Switches = {1}
  MaxBuffered = 6
  MaxInFlight = 1
  MaxReboots = 1
SPECIFICATION SystemFairSpec
INVARIANTS SystemTypeOK ShadowTellsMeasurement LastEmailStands
PROPERTIES EmailsOnceOrRepeated SteadyMeasurementShown SteadyReportShown
CHECK_DEADLOCK TRUE
