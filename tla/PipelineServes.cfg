SPECIFICATION Spec
CONSTANTS
  r1 = r1
  r2 = r2
  d1 = d1
  d2 = d2
  n1 = n1
  n2 = n2
  l1 = l1
  l2 = l2
  Requests = {r1}
  Docs = {d1, d2}
  Names = {n1, n2}
  Lengths = {l1}
  NoModel = NoModel
  NoScore = NoScore
SYMMETRY DataSymmetry
CHECK_DEADLOCK FALSE
INVARIANTS NamesItsModel ListwiseIsWhole HonestUnlessDisturbed
PROPERTIES ImplementsPlainRerank
