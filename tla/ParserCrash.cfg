SPECIFICATION Spec
CONSTANTS
  MaxNumber = 4
  Tokens <- MCTokens
  Heights <- MCHeights
  Inputs <- AssignmentInputs
  PARAMS_MAX = 2
  MAX_ARGUMENTS = 2
INVARIANT NullsNeverFollowed
CHECK_DEADLOCK FALSE
