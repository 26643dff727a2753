SPECIFICATION Spec
CONSTANTS
  Sessions = {s1, s2}
  Pixels = {p1}
  Credits = {c1}
  Handlers = {h1, h2}
  Cancellers = {k1}
  None = None
  Stored = 0
  MaxBatches = 1
  TotalReplays <- OneReplay
  MaxEvents <- NoCap
  Limit = 1
  Revalidate = 1
  DbMayFail = TRUE
  MaxStops = 1
SYMMETRY Symmetry
INVARIANT NoOverspend
INVARIANT CreditLedger
INVARIANT NotOverstated
PROPERTY FollowsLifecycle
