\* The application ends, so the system stops.
CONSTANTS
  QueueCapacity = 1
  Backends = {}
  NoBackend = none
  Prompt = TRUE
  SpawnMayFail = FALSE
  MaxCalls = 2
  MaxXruns = 1
  MaxDevices = 2
  MaxResets = 1
SPECIFICATION AppSpec
INVARIANT LifeOrder
INVARIANT CountersSinceReset
PROPERTY QuitReturns
CHECK_DEADLOCK FALSE
