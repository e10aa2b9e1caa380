SPECIFICATION Spec
CONSTANTS
  r1 = r1
  r2 = r2
  r3 = r3
  c1 = c1
  c2 = c2
  Requests = {r1, r2, r3}
  Clients = {c1}
  Limit = 2
  Window = 1
  MaxBatch = 2
  HistorySize = 2
  MaxTime = 2
CHECK_DEADLOCK FALSE
INVARIANTS BatchIsWhole HistoryIsNewest
PROPERTIES RateIsExact
