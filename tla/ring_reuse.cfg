SPECIFICATION Spec
CONSTANTS
  N = 2
  Conns = {c1}
  Parts = 2
  MaxSent = 2
  MaxSends = 2
  Fds <- OneFd
  CqSize = 4
  Stops = TRUE
  Failing <- NoFault
  None = None
INVARIANTS KernelHoldsLive
PROPERTIES KeptWhileRoom
CHECK_DEADLOCK FALSE
