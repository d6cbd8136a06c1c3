SPECIFICATION FairSpec
CONSTANTS
  Route <- RouteDelivered
  Trackers = {t1, t2}
  Cancellers = {k1}
  Ttl = 2
INVARIANTS
  TypeOK
  HistoryHasNoGaps
  AnswerCoversStatus
PROPERTIES
  StatusCatchesUp
