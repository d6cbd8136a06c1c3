SPECIFICATION Spec
CONSTANTS
  WorkerIds = {w1, w2, w3}
  Checks = {k1, k2}
  MaxJobs = 2
  MaxOutages = 1
INVARIANTS
  StopsConsumingOnceClosed
CHECK_DEADLOCK FALSE
