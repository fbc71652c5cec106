SPECIFICATION Spec
CONSTANTS
  Obj = {o1, o2, o3}
  Conn = {c1, c2}
  Ssl = {e1, e2}
  None = None
INVARIANT NoDoubleFree
CHECK_DEADLOCK FALSE
