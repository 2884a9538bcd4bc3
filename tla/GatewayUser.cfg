CONSTANTS
  MaxUInt32 = 2147483646
  Reports <- MCReports
  Switches = {}
  MaxBuffered = 7
  MaxInFlight = 1
SPECIFICATION FairSpec
PROPERTY UserIntimated
CHECK_DEADLOCK TRUE
