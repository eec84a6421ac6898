CONSTANTS
  Scopes = {s1, s2}
  CoalesceKeys = {k1, k2}
  NoKey = NoKey
  TotalCapacity = 3
  CriticalCapacity = 2
  LatestCapacity = 2
  BestEffortCapacity = 1
  Deliveries = {"ReliableOrdered", "LatestValue", "BestEffortEvent"}
  MaxStamp = 4

SPECIFICATION FairSpec
INVARIANTS QueueSound
PROPERTIES KeepsContract ReliableLeaves
