CONSTANTS
  Connections = {c1, c2}
  Principals = {p1, p2}
  Nobody = Nobody
  Keys = {k1}
  QueueEnabled = TRUE
  MaxDepth = 2
  TicketTtl = 2
  OfferTtl = 1
  HeartbeatTimeout = 2
  ReconnectGrace = 1
  Retention = 1
  TerminalCap = 1
  MaxTicket = 3
  MaxLease = 4
  MaxMemberships = 1
  RetainHistory = TRUE
  Allocations = {1, 2}
  MaxRevision = 1
SYMMETRY Symmetry
SPECIFICATION Spec
INVARIANT QueuedAnswerIsCurrent
