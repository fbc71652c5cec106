SPECIFICATION FairSpec
CONSTANTS
  Sender = {s1, s2}
  Chunk = 2
  MaxPieces = 3
  MaxCalls = 2
  MaxAnswers = 2
INVARIANTS
  TypeOK
  WireIsPrefix
  SuccessMeansSent
  QuietMeansSent
PROPERTIES
  SendReturns
CHECK_DEADLOCK FALSE
