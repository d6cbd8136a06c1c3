SPECIFICATION Spec
CONSTANTS
  o1 = o1
  o2 = o2
  o3 = o3
  b1 = b1
  b2 = b2
  c1 = c1
  c2 = c2
  stranger = stranger
  Orders = {o1, o2, o3}
  Numbers = {o1, o2, o3}
  Awbs = {"a1", "a2"}
  Texts <- SomeTexts
  MaxEntries = 2
  Batches = {b1, b2}
  Submissions <- SubmittedMany
  Couriers = {c1, c2, stranger}
  Registry = {c1, c2}
  ChunkSize <- BatchSizes
  NativeModes = {{c1}}
  Workers = {w1, w2}
  JobAttempts = 2
  MaxStalls = 0
  LocksExpire = FALSE
  HttpOrders = {}
SYMMETRY Symmetry
INVARIANTS
  TypeOK
  VerdictAgreesWithItems
  LastChunkClosesBatch
  CompletedChunkSettles
  OneBatchClaimsOrder
  AnswerSettlesItsOrder
  AnswersAreTheAdapters
PROPERTIES
  KeepsBatchContract
CHECK_DEADLOCK FALSE
