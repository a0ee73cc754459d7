SPECIFICATION Spec
CONSTANTS
  N = 2
  Conns = {c1}
  Parts = 1
  MaxSent = 1
  MaxSends = 0
  Fds <- OneFd
  CqSize = 8
  Stops = FALSE
  Failing <- Resets
  None = None
SYMMETRY Sym
INVARIANTS LoopsUntilStop
CHECK_DEADLOCK FALSE
