SPECIFICATION FairSpec
CONSTANTS
  WorkerIds = {w1, w2, w3}
  Checks = {k1, k2}
  MaxJobs = 2
  MaxOutages = 1
INVARIANTS
  TypeOK
  OneWorker
PROPERTIES
  ConsumptionResumes
CHECK_DEADLOCK FALSE
