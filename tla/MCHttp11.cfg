SPECIFICATION FairSpec
CONSTANTS
  Streams <- OneOrTwo
  PreauthLen = 2
  PrefaceLen = 4
  ParseBufSize = 7
INVARIANTS TypeOK NothingLostOrReordered PeekFits RequestsInOrder
PROPERTIES EndsAfterClose
CHECK_DEADLOCK FALSE
