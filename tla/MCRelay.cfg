CONSTANTS
  Connections = {1, 2}
  Spaces = {"s1", "s2"}
  MaxEntities = 3
  QueueCapacity = 1
  WriteCapacity = 2
  Served = {1}
  Plans <- MCPlans
  MaxSpawns = 4
  MaxPublishes = 2
SPECIFICATION Spec
CHECK_DEADLOCK FALSE
INVARIANTS  OutputKept KnownArePresent
