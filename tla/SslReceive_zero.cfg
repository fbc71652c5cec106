SPECIFICATION Spec
CONSTANTS
  Reader = {r1}
  Room = 2
  MaxUnits = 3
  MaxOther = 2
  MaxRecords = 3
PROPERTIES
  ZeroMeansEof
CHECK_DEADLOCK FALSE
