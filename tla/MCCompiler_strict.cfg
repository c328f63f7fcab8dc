SPECIFICATION ESpec
CONSTANTS
  MaxInt = 7
  max_iters = 50
  kMaxDepth = 3
  Fuel = 20
  Modules = {}
  Inputs <- TrapInputs
PROPERTY TrapsAreKept
