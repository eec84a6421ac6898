CONSTANTS
  Connections = {1, 2}
  Spaces = {"s1", "s2"}
  MaxEntities = 3
  QueueCapacity = 1
  WriteCapacity = 1
  Served = {1}
  Plans <- MCLivePlans
  MaxSpawns = 4
  MaxPublishes = 2
SPECIFICATION FairSpec
CHECK_DEADLOCK FALSE
PROPERTIES ConnectionsEnd
