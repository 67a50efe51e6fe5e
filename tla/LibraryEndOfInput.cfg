SPECIFICATION Spec
CONSTANTS
  Texts <- MCTexts
  MaxLines = 3
INVARIANT EndOfInputIsNoFailure
CHECK_DEADLOCK FALSE
