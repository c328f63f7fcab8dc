SPECIFICATION MCSpec
CONSTANTS
  MaxInt = 7
  max_iters = 50
  Modules <- LongSum
INVARIANT OptimizedToAFixpoint
