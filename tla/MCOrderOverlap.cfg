SPECIFICATION Spec
CONSTANTS
  c1 = c1
  c2 = c2
  c3 = c3
  o1 = o1
  Null = Null
  OrderIds = {o1}
  Couriers = {c1, c2}
  Registered = {c1, c2}
  SupportsCancel = {c1}
  Named <- NamedOne
  Requests = {r1, r2, r3}
  MaxAttempts = 2
  Overlap = TRUE
SYMMETRY Symmetry
INVARIANTS
  TypeOK
  AwbBacked
  InsertBeforeCall
  ReconciliationBacked
  CreatedIsKept
  PendingMeansDied
  CancelledBacked
PROPERTIES
  KeepsOrderContract
CHECK_DEADLOCK FALSE
