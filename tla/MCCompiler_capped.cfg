SPECIFICATION ESpec
CONSTANTS
  MaxInt = 7
  max_iters = 1
  kMaxDepth = 3
  Fuel = 20
  Modules = {}
  Inputs <- FlowInputs
PROPERTY PreservesBehaviour
