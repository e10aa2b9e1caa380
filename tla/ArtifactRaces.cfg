SPECIFICATION ArtifactSpec
CONSTANTS
  x1 = x1
  x2 = x2
  x3 = x3
  l1 = l1
  l2 = l2
  Exporters = {x1, x2, x3}
  Loaders = {l1}
  Absent = Absent
  Missing = Missing
  Torn = Torn
SYMMETRY Symmetry
CHECK_DEADLOCK FALSE
INVARIANTS LoadedIsOneBuild LoadsAgree PublishedIsComplete
