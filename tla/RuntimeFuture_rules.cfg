SPECIFICATION Spec
CONSTANTS
  Task = {t1, t2, t3}
  Op = {o1, o2}
  Stop = Stop
  None = None
  Main = Main
  Entries = 2
  SubmitMayFail = FALSE
  SharedAwait = TRUE
  Out = {"value", "error"}
SYMMETRY Symmetry
PROPERTIES
  BlockRunWaitsForRoot
  ImplementsFuture
CHECK_DEADLOCK FALSE
