SPECIFICATION Spec
CONSTANTS
  c1 = c1
  c2 = c2
  c3 = c3
  o1 = o1
  Null = Null
  OrderIds = {o1}
  Couriers = {c1, c2}
  Registered = {c1, c2}
  SupportsCancel = {c1}
  Named <- NamedTwo
  Requests = {r1, r2}
  MaxAttempts = 1
  Overlap = FALSE
SYMMETRY Symmetry
INVARIANTS
  OneShipmentPerOrder
CHECK_DEADLOCK FALSE
