SPECIFICATION MCSpec
CONSTANTS
  n1 = n1
  n2 = n2
  n3 = n3
  quiet = quiet
  telling = telling
  w1 = w1
  w2 = w2
  avoided = avoided
  accented = accented
  Names <- MCNames
  NoName = NoName
  Extensions <- TwoExtensions
  Exclusions <- MCExclusions
  Workers = {w1, w2}
  TARGET = 2
  MAX_TENTATIVES = 2
  Balances = {1, 3}
  SpendingElsewhere <- UnitSpending
  MaxBatch = 3
  NoBound = NoBound
  MIN_NAME_LENGTH_FLOOR = 6
  DEFAULT_MAX_NAME_LENGTH = 10
  MAX_NAME_LENGTH_FLOOR = 12
  Demands <- MCDemands
  Unseen <- MCUnseen
  Length <- MCLength
  Breaches <- MCBreaches
  Texts <- MCTexts
  NoText = NoText
  Says <- MCSays
  Wishes <- MCWishes
  MaxChoices <- MCMaxChoices
  Unwritable <- MCUnseen
  Budgets <- MCBudgets
INVARIANTS SearchIsAsFramed RetainedAsAsked StopReasonIsTrue PaidUnlessSpentElsewhere
PROPERTIES AbortIsHeard AskedIsAnswered
CHECK_DEADLOCK FALSE
