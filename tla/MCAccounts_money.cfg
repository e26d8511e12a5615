SPECIFICATION Spec
CONSTANTS
  Requests = {r1, r2}
  NoUser = NoUser
  FREE_MONTHLY_QUOTA = 1
  CREDITS_UTILITE = 1
  Costs <- MCCosts
  Packs <- MCPacks
  Deltas <- NoAmount
  Isolated = FALSE
  MaxMonth = 2
  MaxGranted = 2
  MaxRows = 2
SYMMETRY Symmetry
INVARIANTS NoMinting OnlyDeletionBreaksARequest
PROPERTY PackIsSpentLast
