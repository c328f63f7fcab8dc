SPECIFICATION Spec
CONSTANT MaxInt = 7
INVARIANTS VMComputesTheMeaning FolderAgreesWithVM SimplifierAgreesWithVM
CHECK_DEADLOCK FALSE
