SPECIFICATION Spec
CONSTANTS
  CHUNK = 8
  HDR = 2
  Sizes <- Mixed
  MaxMsgs = 3
  ShortReads = TRUE
  MaxFails = 1
  Zero = Zero
  Raw = Raw
INVARIANTS Intact NothingSkipped 
CHECK_DEADLOCK FALSE
