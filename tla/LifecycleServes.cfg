SPECIFICATION Spec
CONSTANTS
  n1 = n1
  n2 = n2
  l1 = l1
  l2 = l2
  o1 = o1
  o2 = o2
  o3 = o3
  o4 = o4
  o5 = o5
  o6 = o6
  a1 = a1
  a2 = a2
  a3 = a3
  p1 = p1
  Names = {n1, n2}
  Lengths = {l1, l2}
  Objects = {o1, o2, o3, o4, o5, o6}
  Admins = {a1}
  Callers = {p1}
  Room = 2
  NoObject = NoObject
  Free = Free
CHECK_DEADLOCK FALSE
SYMMETRY Symmetry
PROPERTIES ImplementsServedModel
