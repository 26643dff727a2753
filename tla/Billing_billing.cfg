SPECIFICATION BillingSpec
CONSTANTS
  s1 = s1
  s2 = s2
  m = m
  p = p
  w1 = w1
  w2 = w2
  Slots = {s1, s2}
  Old = {s1}
  Monthlies = {m}
  Purchases = {p}
  Workers = {w1, w2}
  MaxPeriod = 2
  MaxEvents = 2
  MaxTroubles = 1
INVARIANT BillingTypeOK
INVARIANT GrantedOnce
INVARIANT PlanFollowsSlots
INVARIANT RowsFollowStripe
INVARIANT AnsweredIsApplied
CHECK_DEADLOCK FALSE
