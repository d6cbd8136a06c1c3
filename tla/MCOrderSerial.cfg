SPECIFICATION SortedSpec
CONSTANTS
  c1 = c1
  c2 = c2
  c3 = c3
  o1 = o1
  Null = Null
  OrderIds = {o1}
  Couriers = {c1, c2, c3}
  Registered = {c1, c2}
  SupportsCancel = {c1}
  Named <- NamedMany
  Requests = {1, 2, 3}
  MaxAttempts = 2
  Overlap = FALSE
INVARIANTS
  StatusAgreesWithAwb
  ShipsWhereAsked
PROPERTIES
  CancellationUndoneOnlyByTrack
  Responds
CHECK_DEADLOCK FALSE
