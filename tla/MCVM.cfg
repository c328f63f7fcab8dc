SPECIFICATION FairSpec
CONSTANTS
  MaxInt = 7
  kMaxDepth = 3
  Programs <- MCBytecode
INVARIANTS TypeOK DepthOK
PROPERTIES FrameIsolation Halts
CHECK_DEADLOCK FALSE
