SPECIFICATION FairSpec
CONSTANTS
  Size = 96
  Name <- MCName
  Lower <- MCLower
  Width <- MCWidth
  Unwritable = {"label"}
  Queries <- MCQueries
  Rules <- MCRules
  Outputs <- MCOutputs
  MaxThreads = 2
  MaxPackets = 3
INVARIANTS TypeOK AnsweredInTurn AnsweredAsAsked ReadsWhatWasAsked
PROPERTIES PacketHandled
CHECK_DEADLOCK FALSE
