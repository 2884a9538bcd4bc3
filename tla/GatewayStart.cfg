CONSTANTS
  MaxUInt32 = 2147483646
  Reports <- MCReports
  Switches = {}
  MaxBuffered = 12
  MaxInFlight = 1
SPECIFICATION Spec
INVARIANT OnlyReportsParsed
CHECK_DEADLOCK TRUE
