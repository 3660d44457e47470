\* The benchmark ends, so the system stops.
CONSTANTS
  QueueCapacity = 1
  Backends = {dummy}
  NoBackend = none
  Dummy = dummy
  Prompt = FALSE
  SpawnMayFail = FALSE
  MaxCalls = 3
  MaxAttempts = 2
  MovingWindowSize = 2
  Durations = {1, 4}
  ChunkMs = {1}
SPECIFICATION BenchSpec
INVARIANT WaitIsHonest
INVARIANT SnapshotIsCausal
INVARIANT BackendCountsAll
INVARIANT StatsAreOfSamples
PROPERTY BenchmarkReturns
CHECK_DEADLOCK FALSE
