SPECIFICATION Spec
CONSTANTS
  Names = {n1, n2}
  Projects = {p1, p2}
  Existing = {p1}
  None = None
  ANALYSES_PAR_LOT = 1
  RETOURS_MAX = 2
  MaxGestures = 4
INVARIANTS ScreenIsOneProject DisplayedIsRecorded AnalysesAreSpared
PROPERTY ScreenSettles
ACTION_CONSTRAINT FourthTypesAgain
CHECK_DEADLOCK FALSE
