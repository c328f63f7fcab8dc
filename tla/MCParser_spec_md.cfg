SPECIFICATION Spec
CONSTANT TokenLists <- BareAndNested
INVARIANT FunctionsAreSpecMds
CHECK_DEADLOCK FALSE
