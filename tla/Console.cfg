SPECIFICATION FairSpec
CONSTANTS
  Plain = {"x"}
  TxSize = 3
  RxSize = 3
  RxStart = 2
  FifoSize = 2
  TxLevel = 1
  LineSize = 2
  MaxTyped = 2
  MaxCalls = 2
  Texts <- MCTexts
  Keys <- MCKeys
CHECK_DEADLOCK FALSE
INVARIANTS TypeOK NeverStalls RoomHonoured
PROPERTIES ImplementsPipe Drains LineReturned
CONSTRAINT Unclashed
