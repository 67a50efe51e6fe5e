SPECIFICATION Spec
CONSTANTS
  NULL <- MCNull
  MaxNumber = 4
  Names = {"clock", "a", "b", "f", "g", "n"}
  INITIAL_CAPACITY = 5
  ClockReadings = {0, 1}
  MaxRuns = 1
  MaxStack = 12
  Programs <- ErrorInLoop
INVARIANT ErrorsReported
CHECK_DEADLOCK FALSE
