SPECIFICATION FairSpec
CONSTANTS
  Reader = {r1, r2}
  Room = 2
  MaxUnits = 3
  MaxOther = 2
  MaxRecords = 3
INVARIANTS
  TypeOK
  NothingLost
PROPERTIES
  NoStall
  ImplementsChannel
  RecvReturns
CHECK_DEADLOCK FALSE
