CONSTANTS
  n1 = n1
  n2 = n2
  n3 = n3
  p1 = p1
  p2 = p2
  Procs = {p1, p2}
  Names = {n1, n2, n3}
  NoName = NoName
  TourTokens = {1, 2}
  MaxTours = 2
  ToursAtStart = 2
  Commands = {"Start", "Stop"}
  Numbers = {1, 2}
  MaxRequests = 4
SPECIFICATION Spec
INVARIANTS TypeOK ToursWithinLimit ServedInOrder TokensDistinct NamesDistinct AnswersRight
SYMMETRY MCSymmetry
CHECK_DEADLOCK FALSE
