SPECIFICATION DialogSpec
CONSTANTS
  Names = {a, b}
  None = None
  SAMPLE_PARAM = exemple
  SAMPLE_NAME = b
  Balance = 2
  MaxGestures = 6
  MaxCalls = 2
INVARIANT ShownIsAddressed
CHECK_DEADLOCK FALSE
