SPECIFICATION FairSpec
CONSTANTS
  Asked <- SomeAsked
  Cores <- SomeCores
  MaxStarts = 2
  MaxStops = 2
  Failing <- Faults
INVARIANTS TypeOK Covered  CreateUndone NothingLeft
PROPERTIES StopReturns 
CHECK_DEADLOCK FALSE
