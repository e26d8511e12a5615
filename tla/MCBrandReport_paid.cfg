SPECIFICATION Spec
CONSTANTS
  Handlers = {h1, h2}
  NoRow = NoRow
  BRAND_REPORT_COST = 2
  REFRESH_MIN_INTERVAL = 1
  InitialBalance = 7
  SpendingElsewhere <- UnitSpending
  MaxTime = 2
  MaxFailures = 1
INVARIANTS DebitedIsServed PaidOncePerOverlap ReturnedTokenOpens
