SPECIFICATION FairSpec
CONSTANTS
  Calls = {k1, k2}
  Attempts = 2
  MaxLogins = 3
INVARIANTS
  TypeOK
  EveryRequestIsLogged
  LoggedInSinceRefusal
PROPERTIES
  CallsEnd
  KeepsContract
CHECK_DEADLOCK FALSE
