\* Index stores seen at once, so that AudioDelayLine is strict about where a block
\* may be lost; the platform may refuse the thread.
CONSTANTS
  QueueCapacity = 2
  Backends = {b}
  NoBackend = none
  Prompt = TRUE
  SpawnMayFail = TRUE
  MaxCalls = 5
SPECIFICATION Spec
INVARIANT BlocksConserved
INVARIANT BacklogIsLateness
INVARIANT AgeIsBounded
INVARIANT WorkerPopSucceeds
INVARIANT StoppedIsQuiescent
INVARIANT OutputIsFresh
PROPERTY BackendStable
PROPERTY ImplementsDelayLine
