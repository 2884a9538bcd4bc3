CONSTANTS
  MaxUInt32 = 2147483646
  Reports <- MCReports
  Switches = {1}
  MaxBuffered = 7
  MaxInFlight = 1
SPECIFICATION Spec
INVARIANTS TypeOK ReadAsSent MailTellsState
PROPERTY StaysInStep
CHECK_DEADLOCK TRUE
