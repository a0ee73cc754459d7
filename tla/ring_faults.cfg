SPECIFICATION Spec
CONSTANTS
  N = 2
  Conns = {c1, c2}
  Parts = 2
  MaxSent = 2
  MaxSends = 1
  Fds <- OneFd
  CqSize = 8
  Stops = FALSE
  Failing <- Faults
  None = None
SYMMETRY Sym
INVARIANTS Delivered RightWhileOpen
PROPERTIES SessionsKept
CHECK_DEADLOCK FALSE
