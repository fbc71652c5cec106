SPECIFICATION LibrarySpec
CONSTANTS
  None = None
  Obj = {o1, o2, o3}
  Conn = {c1, c2}
  Ssl = {e1, e2}
  Errno = {1, 9, 62, 111}
  MaxCount = 2
  Sock = {s1, s2}
  Host <- SmallHost
  V4 <- SmallV4
  V6 <- SmallV6
  HostIps <- SmallHostIps
  Port <- SmallPort
  dual = dual
  six = six
  a4 = a4
  b4 = b4
  a6 = a6
  Object = {h1, h2}
  Name = {n1, n2}
  Value = {v1, v2}
  MaxEntries = 4
SYMMETRY Symmetry
INVARIANTS
  LibraryTypeOK
  DoubleFreeNeedsAssign
  Paired
  OwnedOnce
  OutcomeIsTold
  ConnectedAsAsked
  GetIsSettled
CHECK_DEADLOCK FALSE
