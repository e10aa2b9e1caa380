SPECIFICATION Spec
CONSTANTS
  MaxDocuments = 3
  MaxQuery = 1
  MaxDocument = 2
  MaxTotal = 6
  DefaultTop = 2
  Lengths = {1, 3}
  Scores = {1, 2}
  MaxSent = 4
  MaxRanked = 3
CHECK_DEADLOCK FALSE
INVARIANTS LimitsKept OwnScore BestFirst ParityMeasuresOrder
