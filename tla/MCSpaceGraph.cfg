CONSTANTS
  Connections = {c1, c2}
  Spaces = {s1, s2, s3, s4}
  Gridded = {s4}
  CellSize = 2
  Radius = 3
  ExactDistance = TRUE
  Positions <- MCPositions
  MaxEntity = 3
  MaxSubscriptions = 2
  MaxEntities = 2
  Scenarios <- MCScenarios
SYMMETRY Symmetry
SPECIFICATION Spec
CHECK_DEADLOCK FALSE
INVARIANTS GraphCoherent DataIsPresent RoutingExact
PROPERTIES EpochsAdvance
