SPECIFICATION MCSpec
CONSTANTS
  MaxInt = 7
  max_iters = 50
  Modules <- AllModules
INVARIANT IRStaysWellFormed
INVARIANT LoweredCodeIsSafe
 
PROPERTY ChangesAreReported
PROPERTY LeavesOnlyAtFixpoint
PROPERTY PipelineEnds
PROPERTY EveryChangeIsProgress
PROPERTY DumpShowsEveryChange
