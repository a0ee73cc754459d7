SPECIFICATION FairSpec
CONSTANTS
  N = 2
  Conns = {c1}
  Parts = 3
  MaxSent = 3
  MaxSends = 0
  Fds <- OneFd
  CqSize = 8
  Stops = TRUE
  Failing <- NoFault
  None = None
INVARIANTS Registry
PROPERTIES MessagesDelivered  
CHECK_DEADLOCK FALSE
