\* Index stores seen late.  The thread is always created: MCAudioWorkerPipelineSpawn
\* shows what happens when it is not.
CONSTANTS
  QueueCapacity = 1
  Backends = {}
  NoBackend = none
  Prompt = FALSE
  SpawnMayFail = FALSE
  MaxCalls = 3
SPECIFICATION LiveSpec
INVARIANT IInv
PROPERTY ImplementsDelayLine
PROPERTY StopReturns
PROPERTY RunningMeansProcessing
