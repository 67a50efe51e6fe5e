SPECIFICATION Spec
CONSTANTS
  MaxNumber = 4
  Lines <- MCLines
  MaxLines = 4
  Keyword <- MCKeyword
  PARAMS_MAX = 2
  MAX_ARGUMENTS = 2
  INITIAL_CAPACITY = 5
  ClockReadings = {0, 1}
  MaxStack = 30
INVARIANTS WholeTrees CorrectLinesRun EnvironmentRestored LexicalScoping ErrorsPropagate
PROPERTIES ImplementsSession LinesFinish
CHECK_DEADLOCK FALSE
