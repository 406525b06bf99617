SPECIFICATION FairSpec
CONSTANTS
  Exchanges <- BeyondWindow
  Window = 2
  HeaderBuf = 2
PROPERTY AnsweredOverHttp11
CHECK_DEADLOCK FALSE
