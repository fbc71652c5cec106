SPECIFICATION Spec
CONSTANTS
  Task = {t1, t2, t3}
  Op = {o1, o2}
  Stop = Stop
  None = None
  Main = Main
  Entries = 2
  SubmitMayFail = TRUE
  SharedAwait = TRUE
  Out = {"value"}
SYMMETRY Symmetry
INVARIANTS
  TypeOK
  FaultHasCause
  NoLostWakeup
  LossHasCause
  OneThread
  NoDanglingTask
  StopIsRoots
  SqNeverJams
CHECK_DEADLOCK FALSE
