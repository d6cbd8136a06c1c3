SPECIFICATION FairSpec
CONSTANTS
  o1 = o1
  o2 = o2
  o3 = o3
  b1 = b1
  b2 = b2
  c1 = c1
  c2 = c2
  stranger = stranger
  Orders = {o1}
  Batches = {b1}
  Submissions <- SubmittedJust
  Couriers = {c1, c2, stranger}
  Registry = {c1}
  ChunkSize <- JustSingles
  NativeModes = {{}}
  Workers = {w1, w2}
  JobAttempts = 2
  MaxStalls = 1
  LocksExpire = TRUE
  HttpOrders = {o1}
INVARIANTS
  SucceededIsBacked
PROPERTIES
  ChunksEnd
CHECK_DEADLOCK FALSE
