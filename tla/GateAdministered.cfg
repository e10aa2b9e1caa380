SPECIFICATION Spec
CONSTANTS
  c1 = c1
  c2 = c2
  c3 = c3
  g1 = g1
  g2 = g2
  g3 = g3
  g4 = g4
  Callers = {c1, c2, c3}
  Gates = {g1, g2, g3, g4}
  Limits = {1}
  Provider <- MCProvider
  PoolSize = 2
  NoGate = NoGate
INVARIANTS PermitsConserved
PROPERTIES WaiterServed
