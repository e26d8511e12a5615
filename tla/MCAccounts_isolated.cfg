SPECIFICATION Spec
CONSTANTS
  Requests = {r1, r2}
  NoUser = NoUser
  FREE_MONTHLY_QUOTA = 2
  CREDITS_UTILITE = 1
  Costs <- WideCosts
  Packs <- WidePacks
  Deltas <- MCDeltas
  Isolated = TRUE
  MaxMonth = 3
  MaxGranted = 4
  MaxRows = 2
INVARIANT RewardedOnce
PROPERTY ImplementsLedger
