SPECIFICATION Spec
CONSTANT TokenLists <- AllSources
INVARIANT TypeOK
INVARIANT AcceptsExactlyTheGrammar
INVARIANT EachMistakeIsReported
PROPERTY EndsUnlessStuck
CHECK_DEADLOCK FALSE
