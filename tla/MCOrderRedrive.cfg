SPECIFICATION CreatesSpec
CONSTANTS
  c1 = c1
  c2 = c2
  c3 = c3
  o1 = o1
  Null = Null
  OrderIds = {o1}
  Couriers = {c1}
  Registered = {c1}
  SupportsCancel = {c1}
  Named <- NamedOne
  Requests = {r1, r2}
  MaxAttempts = 1
  Overlap = TRUE
SYMMETRY Symmetry
INVARIANTS
  ReconciliationMeansNoAwb
CHECK_DEADLOCK FALSE
