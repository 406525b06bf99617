SPECIFICATION FairSpec
CONSTANTS
  Bodies <- Agreed
  Decimal = 2
  Hexadecimal = 3
  MaxReadSize = 4
INVARIANTS TypeOK DecodedIsPrefix EndMeansWhole StopsBehindLastChunk
PROPERTIES Decides
CHECK_DEADLOCK FALSE
