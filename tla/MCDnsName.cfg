SPECIFICATION AnyNameSpec
CONSTANTS
  Size = 24
  HeaderLen = 2
  MaxLabel = 2
  Written <- OneOrTwo
  Compressed <- SharedSuffix
  Crafted <- AnyQuestion
  MaxRead = 16
INVARIANTS TypeOK ReadsWhatWasWritten WholeIsReadable
PROPERTIES EndsUnlessCircular
CHECK_DEADLOCK FALSE
