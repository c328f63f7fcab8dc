SPECIFICATION Spec
CONSTANT TokenLists <- Unclosed
PROPERTY ParsingEnds
CHECK_DEADLOCK FALSE
