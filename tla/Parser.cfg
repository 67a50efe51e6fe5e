SPECIFICATION Spec
CONSTANTS
  MaxNumber = 4
  Tokens <- MCTokens
  Heights <- MCHeights
  Inputs <- MCInputs
  PARAMS_MAX = 2
  MAX_ARGUMENTS = 2
INVARIANTS TypeOK NullsReported TreesWhole DeclarationsAdvance LimitsReported AcceptsOnlySentences AcceptsSentences
PROPERTIES ParserFinishes
CHECK_DEADLOCK FALSE
