SPECIFICATION Spec
CONSTANTS
  WordBits = 8
  BufSize = 16
  Chars <- MCChars
  Items <- MCItems
  Jobs <- MCJobs
  LineSize = 3
  Newlines <- MCNewlines
  Letters = {"a", "b"}
  MaxKeys = 4
CHECK_DEADLOCK FALSE
CONSTRAINT ReadAfterOne
PROPERTY LFEndsLine
