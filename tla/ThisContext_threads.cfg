SPECIFICATION Spec
CONSTANTS
  Thread = {A, B}
  Coro = {c1, c2, c3}
  None = None
INVARIANT OwnRingOnly
