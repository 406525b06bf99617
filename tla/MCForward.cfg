SPECIFICATION FairSpec
CONSTANTS
  Exchanges <- AllExchanges
  Window = 2
  HeaderBuf = 2
INVARIANTS TypeOK BytesInOrder EndMeansWhole HeldFitsWindow LimitKept AnswerWaitsForRequest
PROPERTIES StallsOnlyThere Answered
CHECK_DEADLOCK FALSE
