SPECIFICATION Spec
CONSTANTS
  Texts <- MCTexts
  MaxLines = 3
INVARIANTS LinesStandAlone StatusTellsOutcome
CHECK_DEADLOCK FALSE
