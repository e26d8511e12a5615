SPECIFICATION DialogSpec
CONSTANTS
  Names = {a, b}
  None = None
  SAMPLE_PARAM = exemple
  SAMPLE_NAME = b
  Balance = 2
  MaxGestures = 7
  MaxCalls = 2
INVARIANTS OneNameOnThePage ButtonStaysOnSite PaidOnceUnlessGivenUp
CHECK_DEADLOCK FALSE
