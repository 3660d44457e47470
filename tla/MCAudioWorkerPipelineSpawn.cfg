CONSTANTS
  QueueCapacity = 1
  Backends = {}
  NoBackend = none
  Prompt = FALSE
  SpawnMayFail = TRUE
  MaxCalls = 3
SPECIFICATION LiveSpec
PROPERTY RunningMeansProcessing
