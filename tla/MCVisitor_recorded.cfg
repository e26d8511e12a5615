SPECIFICATION Spec
CONSTANTS
  Visits = {v1, v2}
  Accounts = {a1, a2}
  Steps = {searched}
  None = None
  Tabs = {t1, t2}
  MAX_SESSION = 1
  MAX_DAY = 1
  EVENEMENTS_PAR_LOT = 2
  MaxInFlight = 2
  Budgets <- MCBudgets
INVARIANTS JournalIsTrue CapsBoundedByOverlap RecorderFollowsTheChoice SegmentIsOnePage
CHECK_DEADLOCK FALSE
