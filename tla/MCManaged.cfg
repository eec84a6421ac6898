SPECIFICATION FairSpec
CONSTANTS
  Sessions <- MCSessions
  Verifiers = {"v1", "v2"}
  AdminVerifier = "admin"
  SpatialIds = {3}
  Shapes = {"cube"}
  Ccus = {1}
  Rates = {1}
  MaxRevision = 3
  MaxCcu = 2
  MaxScopes = 2
  MaxHistory = 2
  MaxSpatial = 1
  Clients = {"c"}
  Sent <- MCSent
  Imports <- MCImports
  MaxFaults = 2
INVARIANTS StoreSound AckedSurvives LiveMatchesScopes RetrySucceeds
PROPERTIES ComesBack ImplementsContract
