SPECIFICATION Spec
CONSTANTS
  Script <- Flights
  Size <- Sizes
  Versions <- BothVersions
  Chunk = 2
  MayBreak = FALSE
INVARIANTS
  FailureNamesError
CHECK_DEADLOCK FALSE
