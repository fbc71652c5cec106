SPECIFICATION Spec
CONSTANTS
  Obj = {o1, o2, o3}
  File = {f1, f2, f3, f4, f5}
  None = None
  MaxFd = 2
  CloseMayFail = TRUE
SYMMETRY Symmetry
INVARIANTS
  TypeOK
  NoForeignClose
  NoDescriptorLost
  HeldIsOwned
