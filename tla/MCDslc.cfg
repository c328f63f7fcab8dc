SPECIFICATION DSpec
CONSTANTS
  MaxInt = 7
  max_iters = 50
  kMaxDepth = 3
  Fuel = 20
  Modules = {}
  Inputs = {}
  NoTokens = NoTokens
  NoTree = NoTree
  TreeOf <- TreeIn
  Sessions <- AllSessions
INVARIANT OnlyTheTextIsCompiled
INVARIANT StatusTellsHowFar
PROPERTY TextRunsAsItsTree
PROPERTY Exits
