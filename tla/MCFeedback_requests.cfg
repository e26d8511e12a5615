SPECIFICATION FeedbackSpec
CONSTANTS
  Users = {1, 2}
  LOT_MAX = 1
  Feedbacks = {1}
  MaxStops = 1
  MaxClicks = 3
  MaxVisits = 2
INVARIANT PaidAsMarked
PROPERTIES UnsubscribedIsHeard AskedExactlyOnce
ACTION_CONSTRAINT RowsOrFeedbacks
CHECK_DEADLOCK FALSE
