SPECIFICATION Spec
CONSTANTS
  CHUNK = 24
  HDR = 8
  Lengths <- UpToFour
  Raw = Raw
INVARIANTS BodyWhole LongTerminated WithinBuffers
CHECK_DEADLOCK FALSE
