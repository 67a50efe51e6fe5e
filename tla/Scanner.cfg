SPECIFICATION Spec
CONSTANTS
  MaxNumber = 4
  Texts <- MCTexts
  Keyword <- MCKeyword
INVARIANTS TypeOK LinesCounted TokensInOrder WordsWhole AsGrammar
PROPERTIES TokensKept ScannerFinishes
CHECK_DEADLOCK FALSE
