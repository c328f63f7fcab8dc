SPECIFICATION Spec
CONSTANTS
  MaxInt = 127
  Texts <- ShortTexts
INVARIANT TokensTileTheText
INVARIANT TokensAreWhatTheTextSays
INVARIANT ErrorsAreErrorTokens
PROPERTY EndsInOneEof
CHECK_DEADLOCK FALSE
