SPECIFICATION FairSpec
CONSTANTS
  s1 = s1
  s2 = s2
  buyer = buyer
  stranger = stranger
  Sessions <- OneSession
  Users <- MCUsers
  OwnerOf <- MCOwnerOf
  Handlers = {h1, h2}
  MaxFailures = 2
INVARIANTS RegistryIsCashed CreditsBoundedByOverlap
PROPERTIES StrangersProcessNothing CompletedIsCredited
CHECK_DEADLOCK FALSE
