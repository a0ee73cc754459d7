SPECIFICATION Spec
CONSTANTS
  CHUNK = 8
  HDR = 2
  Sizes <- Three
  MaxMsgs = 3
  ShortReads = FALSE
  MaxFails = 0
  Zero = Zero
  Raw = Raw
INVARIANTS NeverCut
CHECK_DEADLOCK FALSE
