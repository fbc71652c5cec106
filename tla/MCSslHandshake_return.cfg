SPECIFICATION FairSpec
CONSTANTS
  Script <- Flights
  Size <- Sizes
  Versions <- BothVersions
  Chunk = 2
  MayBreak = TRUE
INVARIANTS
  TypeOK
  ReturnedFlushed
  SuccessIsShared
  AppDataKept
PROPERTIES
  BothReturn
CHECK_DEADLOCK FALSE
