SPECIFICATION Spec
CONSTANTS
  NULL <- MCNull
  MaxNumber = 4
  Names = {"clock", "a", "b", "f", "g", "n"}
  INITIAL_CAPACITY = 5
  ClockReadings = {0, 1}
  MaxRuns = 1
  MaxStack = 14
  Programs <- AllScripts
  Expressions <- MCExpressions
  Statements <- MCStatements
INVARIANTS TypeOK EnvironmentRestored LexicalScoping ScopeInv CallsOwnScopes ErrorsPropagate
PROPERTIES RunsFinish
CHECK_DEADLOCK FALSE
