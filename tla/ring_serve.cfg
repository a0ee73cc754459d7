SPECIFICATION Spec
CONSTANTS
  N = 2
  Conns = {c1, c2}
  Parts = 2
  MaxSent = 2
  MaxSends = 1
  Fds <- TwoFds
  CqSize = 4
  Stops = FALSE
  Failing <- NoFault
  None = None
SYMMETRY Sym
INVARIANTS TypeOK Registry OneReader WritesConfirmed CarriedOwned
CHECK_DEADLOCK FALSE
