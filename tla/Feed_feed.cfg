SPECIFICATION FeedSpec
CONSTANTS
  FeedPixels = {p1, p2}
  Watched = {p1}
  All = all
  MaxBuffer = 2
  InitialLimit = 2
  PollLimit = 1
  Lookback = 2
  Buckets = 2
  Minute = 1
  MaxEvents = 3
  MaxNow = 3
  MaxGen = 1
  MaxVisits = 2
  MaxInputs = 4
INVARIANT FilterRespected
INVARIANT NewestFirst
INVARIANT NothingSkipped
INVARIANT RateMatchesChart
CHECK_DEADLOCK FALSE
