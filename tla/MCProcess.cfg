SPECIFICATION ProbedSpec
CONSTANTS
  Roles = {"api", "inline", "worker"}
  Conns = {c1, c2}
  Probers = {c1}
  Slots = {j1}
  Signals = {"SIGTERM", "SIGINT"}
  Deps = {"postgres", "couriers"}
  External = {"postgres"}
  Clients = 1
INVARIANTS
  ProbedTypeOK
  InFlightIsKept
  ReadyMeansAlive
PROPERTIES
  SignalEndsProcess
  ReadinessAnswers
  ReadinessReturns
CHECK_DEADLOCK FALSE
