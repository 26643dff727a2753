SPECIFICATION FairSpec
CONSTANTS
  Sessions = {s1, s2}
  Pixels = {p1}
  Credits = {c1}
  Handlers = {h1}
  Cancellers = {k1}
  None = None
  Stored = 1
  MaxBatches = 1
  TotalReplays <- TwoReplays
  MaxEvents <- NoCap
  Limit = 1
  Revalidate = 1
  DbMayFail = FALSE
  MaxStops = 1
PROPERTY EverySessionSettles
PROPERTY ShutdownEnds
