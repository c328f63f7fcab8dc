SPECIFICATION ESpec
CONSTANTS
  MaxInt = 7
  max_iters = 50
  kMaxDepth = 3
  Fuel = 20
  Modules = {}
  Inputs <- AllInputs
INVARIANT CompiledCodeIsSafe
INVARIANT AcceptedProgramsDoNotGoWrong
INVARIANT ExitTellsTheOutcome
INVARIANT OneMistakeOneDiagnostic
INVARIANT SameDumpSameTree
INVARIANT SameDumpSameCode
PROPERTY PreservesBehaviour
PROPERTY Terminates
