SPECIFICATION RetrySpec
CONSTANTS
  Events <- SomeEvents
  Time <- SomeTimes
  Initial <- Stored
  BatchSize = 2
  MaxReplayEvents = 3
  MaxSessions = 3
INVARIANT RangesAreFailures
INVARIANT NoDuplicates
INVARIANT FirstRetryExact
CHECK_DEADLOCK FALSE
