SPECIFICATION Spec
CONSTANTS
  b1 = b1
  b2 = b2
  b3 = b3
  d1 = d1
  d2 = d2
  Runs = {b1, b2, b3}
  Deleters = {d1, d2}
  Lifespan = Lifespan
CHECK_DEADLOCK FALSE
INVARIANTS NoOrphanTask AuditTellsTheLife ClosedIsQuiet
PROPERTIES EverythingEnds
