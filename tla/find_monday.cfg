CONSTANTS
  Lag = 24
  Grace = 90
  LoadDays = {1, 2, 3, 4, 5}
  Tick = 180
  Start = 2880
  End = 20160
SPECIFICATION FeedSpec
INVARIANT OnTimeIsNotStale
CHECK_DEADLOCK FALSE
