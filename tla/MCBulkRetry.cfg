SPECIFICATION Spec
CONSTANTS
  o1 = o1
  o2 = o2
  o3 = o3
  b1 = b1
  b2 = b2
  c1 = c1
  c2 = c2
  stranger = stranger
  Orders = {o1, o2}
  Batches = {b1}
  Submissions <- SubmittedOnce
  Couriers = {c1, c2, stranger}
  Registry = {c1, c2}
  ChunkSize <- BatchSizes
  NativeModes = {{}}
  Workers = {w1}
  JobAttempts = 2
  MaxStalls = 0
  LocksExpire = FALSE
  HttpOrders = {}
INVARIANTS
  RetryTakesUpUnsettled
CHECK_DEADLOCK FALSE
