CONSTANTS
  Keys = {k1}
  QueueEnabled = TRUE
  MaxDepth = 2
  TicketTtl = 3
  OfferTtl = 1
  HeartbeatTimeout = 2
  ReconnectGrace = 1
  Retention = 1
  TerminalCap = 1
  Principals = {p1, p2}
  MaxTicket = 3
  MaxLease = 3
  Allocations = {0, 1, 2}
  MaxRevision = 1
SPECIFICATION Spec
PROPERTY OffersOnlyValid
