SPECIFICATION Spec
CONSTANTS
  r1 = r1
  r2 = r2
  r3 = r3
  a1 = a1
  a2 = a2
  w1 = w1
  w2 = w2
  NoWorker = NoWorker
  Requests = {r1}
  Admins = {a1, a2}
  Workers = {w1, w2}
  MaxQueue = 2
  MaxTokens = 3
  Weights <- MCWeights
  PairLimits <- MCPairLimit
CHECK_DEADLOCK FALSE
SYMMETRY Symmetry
INVARIANTS BatchingIsServed
