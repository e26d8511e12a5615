SPECIFICATION Spec
CONSTANTS
  Owner = o
  Guests = {g}
  None = None
  SearchNames = {s}
  ManualNames = {m}
  MaxCalls = 5
INVARIANTS RightsAreTheOwners RemovedStaysRemoved
PROPERTY WorkIsKept
CHECK_DEADLOCK FALSE
