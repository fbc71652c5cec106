SPECIFICATION FairSpec
CONSTANTS
  Task = {t1, t2}
  Op = {o1, o2, o3}
  Stop = Stop
  None = None
  Main = Main
  Entries = 2
  SubmitMayFail = FALSE
  SharedAwait = TRUE
  Out = {"value"}
PROPERTIES
  BlockRunReturns
  CompletionDelivered
CHECK_DEADLOCK FALSE
