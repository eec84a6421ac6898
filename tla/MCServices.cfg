CONSTANTS
  p1 = p1
  p2 = p2
  h1 = h1
  h2 = h2
  q1 = q1
  q2 = q2
  q3 = q3
  Publishers = {p1, p2}
  Entities = {"e1", "e2"}
  Channels = {"talk", "pose", "base", "deed", "rules"}
  Definition <- MCDefinition
  Cases <- MCCases
  Span = 2
  PendingCapacity = 2
  SpoolCapacity = 2
  Bounds <- MCBounds
  LogConnections = {c1, c2}
  LogSessions = {s1}
  LogCapacity = 2
  PageEntries = 2
  ConnectionRate = 1
  NodeRate = 2
  LastSequence = 5
  MaxNow = 1
  MaxBoots = 2
  Requests = {q1, q2, q3}
  Inputs <- MCInputs
  InboundCapacity = 2
  QueueCapacity = 2
  MaxPending = 2
  Uses <- MCUses
  RustUses <- MCRustUses
SPECIFICATION ServicesSpec
CHECK_DEADLOCK FALSE
INVARIANTS StoredIsAccepted LimitsExact  NoSilentGap  OutcomesConsistent NothingLost ExchangesIsolated FramingSound AdmissionFailsClosed ScopeMatchesMembership
PROPERTIES BudgetKept ExpiredIsReclaimed RequestsSettle
