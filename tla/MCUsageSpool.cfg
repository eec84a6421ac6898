CONSTANTS
  h1 = h1
  h2 = h2
  Span = 2
  PendingCapacity = 2
  SpoolCapacity = 2
  Bounds <- MCBounds
SPECIFICATION UsageSpec
INVARIANTS NoneSilentlyDiscarded
CHECK_DEADLOCK FALSE
