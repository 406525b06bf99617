SPECIFICATION Spec
CONSTANTS
  Streams <- OneWithBody
  PreauthLen = 2
  PrefaceLen = 4
  ParseBufSize = 7
INVARIANTS PositionedAtBody
CHECK_DEADLOCK FALSE
