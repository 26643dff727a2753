SPECIFICATION Spec
CONSTANTS
  Sessions = {s1, s2}
  Pixels = {p1}
  Credits = {c1}
  Handlers = {h1}
  Cancellers = {k1}
  None = None
  Stored = 2
  MaxBatches = 2
  TotalReplays <- TwoReplays
  MaxEvents <- NoCap
  Limit = 1
  Revalidate = 1
  DbMayFail = FALSE
  MaxStops = 1
SYMMETRY SessionSymmetry
INVARIANT TypeOK
INVARIANT SemaphoreExact
INVARIANT ActiveIsWorked
INVARIANT LateBound
INVARIANT CompletedIsAccounted
PROPERTY SettledIsStable
