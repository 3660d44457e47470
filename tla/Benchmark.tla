----------------------------- MODULE Benchmark -----------------------------
(***************************************************************************)
(* benchmarks/bench_audio_pipeline.cpp, its pipeline stage: the main       *)
(* thread loads and attaches a dummy backend, starts the pipeline, calls   *)
(* it as a device would, waits a bounded time for the worker, reads the    *)
(* statistics while the worker may still run, stops, and reports.  It is   *)
(* control thread and audio thread in one.  The stages for the ring alone, *)
(* the ONNX backend and the pitch are loops of one thread, left out.       *)
(*                                                                         *)
(* The pipeline is AudioWorkerPipeline, with MaxCalls for iterations.      *)
(* What main reads of the worker may be old: its counters are relaxed      *)
(* atomics, and an index store is seen late unless Prompt.  Main must see  *)
(* only what it has seen before, and what the worker had done before a     *)
(* push that main has seen: a release store, read by an acquire load.      *)
(* This is view, and published says it of the pushes in the output queue.  *)
(***************************************************************************)
EXTENDS AudioWorkerPipeline, DummyBackend, LatencyProfiler

CONSTANTS
  Dummy,         \* dummyBackend
  Durations,     \* what a callback may take
  ChunkMs,       \* what a chunk may take
  MaxAttempts    \* 200

ASSUME DummyAssumption == Dummy \in Backends
ASSUME TimesAssumption == Durations \subseteq Int /\ ChunkMs \subseteq Nat

VARIABLES
  mainStep,
  attempt, waited,    \* of waitForWorker, and what it returned
  workerStats,        \* the snapshot of pipeline.stats()
  stages,             \* of the profiler
  backendStats,       \* the snapshot of dummyBackend.stats()
  published,          \* history: what the worker had done at each push in outputQueue
  view                \* history: what main must see of the worker's work, at least

mainVars == <<mainStep, attempt, waited, workerStats, stages, backendStats>>
memoryVars == <<published, view>>
benchVars == <<vars, dummyVars, mainVars, memoryVars>>

NoSnapshot == [processed |-> 0, droppedOutput |-> 0, inputSize |-> 0, outputSize |-> 0]
MainSteps == {"load", "warmUp", "attach", "start", "submit", "wait", "processed",
              "droppedOutput", "inputSize", "outputSize", "stop", "observed", "backend",
              "report", "done"}

BenchInit ==
  /\ Init /\ DummyInit
  /\ mainStep = "load"
  /\ attempt = 0 /\ waited = FALSE
  /\ workerStats = NoSnapshot
  /\ stages = NoStages
  /\ backendStats = [processedChunks |-> 0, warmupRuns |-> 0, average |-> <<0, 1>>]
  /\ published = <<>>
  /\ view = [processed |-> 0, droppedOutput |-> 0, taken |-> 0]

-----------------------------------------------------------------------------
\* Before the worker runs.

LoadDummy ==
  /\ mainStep = "load"
  /\ LoadModel(TRUE)
  /\ mainStep' = "warmUp"
  /\ UNCHANGED <<vars, attempt, waited, workerStats, stages, backendStats, memoryVars>>

WarmUpDummy(ms) ==
  /\ mainStep = "warmUp"
  /\ WarmUp(2, ms)
  /\ mainStep' = "attach"
  /\ UNCHANGED <<vars, attempt, waited, workerStats, stages, backendStats, memoryVars>>

AttachDummy ==
  /\ mainStep = "attach"
  /\ SetInferenceBackend(Dummy)
  /\ mainStep' = "start"
  /\ UNCHANGED <<dummyVars, attempt, waited, workerStats, stages, backendStats, memoryVars>>

StartPipeline ==
  /\ mainStep = "start"
  /\ \/ Start /\ UNCHANGED mainStep
     \/ Spawn /\ mainStep' = "submit"
  /\ UNCHANGED <<dummyVars, attempt, waited, workerStats, stages, backendStats, memoryVars>>

-----------------------------------------------------------------------------
\* iterations calls of processShadowFromAudioThread, each timed to its end.

Callback ==
  /\ mainStep = "submit"
  /\ SubmitSupported \/ PushInput
  /\ UNCHANGED <<dummyVars, mainVars, memoryVars>>

\* Mutant: tryPop loads the index of the pushes relaxed.
AcquiredRelaxed == view
\* What main must see once tryPop has loaded the index: what was done before the last
\* of the pushes it sees.
Acquired == IF Out!Empty THEN view ELSE published[Len(outputQueue) - outUnseenPushes]

CallbackEnds(ms) ==
  /\ mainStep = "submit"
  /\ ConsumeOutput(TRUE)
  /\ view' = Acquired
  /\ published' = IF Out!Empty THEN published ELSE Tail(published)
  /\ stages' = Record(stages, "worker_shadow_callback", ms)
  /\ UNCHANGED <<dummyVars, mainStep, attempt, waited, workerStats, backendStats>>

LoopEnds ==
  /\ mainStep = "submit"
  /\ audioStep = "idle" /\ nextSequence > MaxCalls
  /\ mainStep' = "wait"
  /\ UNCHANGED <<vars, dummyVars, attempt, waited, workerStats, stages, backendStats, memoryVars>>

\* The values a load of the worker's count may give.
ProcessedSeen == view.processed .. workerProcessedBlocks

\* Mutant: dropped blocks are taken for processed ones.
WaitForWorkerOrDrops ==
  /\ mainStep = "wait"
  /\ attempt < MaxAttempts
  /\ \E n \in ProcessedSeen :
       /\ view' = [view EXCEPT !.processed = n]
       /\ IF n + droppedInputBlocks >= MaxCalls
          THEN mainStep' = "processed" /\ waited' = TRUE /\ UNCHANGED attempt
          ELSE attempt' = attempt + 1 /\ UNCHANGED <<mainStep, waited>>
  /\ UNCHANGED <<vars, dummyVars, workerStats, stages, backendStats, published>>

\* One turn of waitForWorker: a call of stats(), whose other loads nothing is made of.
WaitForWorker ==
  /\ mainStep = "wait"
  /\ attempt < MaxAttempts
  /\ \E n \in ProcessedSeen :
       /\ view' = [view EXCEPT !.processed = n]
       /\ IF n >= MaxCalls
          THEN mainStep' = "processed" /\ waited' = TRUE /\ UNCHANGED attempt
          ELSE attempt' = attempt + 1 /\ UNCHANGED <<mainStep, waited>>
  /\ UNCHANGED <<vars, dummyVars, workerStats, stages, backendStats, published>>

\* Mutant: no bound to the attempts.
WaitNeverFails ==
  /\ mainStep = "wait"
  /\ attempt < 0
  /\ mainStep' = "processed"
  /\ UNCHANGED <<vars, dummyVars, attempt, waited, workerStats, stages, backendStats, memoryVars>>

WaitFails ==
  /\ mainStep = "wait"
  /\ attempt = MaxAttempts
  /\ mainStep' = "processed"
  /\ UNCHANGED <<vars, dummyVars, attempt, waited, workerStats, stages, backendStats, memoryVars>>

-----------------------------------------------------------------------------
\* pipeline.stats(): one load after the other.  What only this thread changes is
\* read where it is used.

Load(step, next, field, value) ==
  /\ mainStep = step
  /\ workerStats' = [workerStats EXCEPT ![field] = value]
  /\ mainStep' = next
  /\ UNCHANGED <<vars, dummyVars, attempt, waited, stages, backendStats, memoryVars>>

\* inputQueue_.size(), by the producer, who may still count blocks that were popped.
InputSizeSeen ==
  LET counted == Len(inputQueue) + inUnseenPops
      accepted == submittedBlocks - droppedInputBlocks
  IN IF counted <= accepted - view.taken THEN counted ELSE accepted - view.taken
\* outputQueue_.size(), by the consumer, who may miss blocks that were pushed.
OutputSizeSeen == IF Out!Empty THEN 0 ELSE Len(outputQueue) - outUnseenPushes

LoadStats ==
  \/ \E n \in ProcessedSeen : Load("processed", "droppedOutput", "processed", n)
  \/ \E n \in view.droppedOutput .. droppedOutputBlocks :
       Load("droppedOutput", "inputSize", "droppedOutput", n)
  \/ Load("inputSize", "outputSize", "inputSize", InputSizeSeen)
  \/ Load("outputSize", "stop", "outputSize", OutputSizeSeen)

\* Mutant: the worker is told to stop and not joined.
StopPipelineNoJoin ==
  /\ mainStep = "stop"
  /\ Stop
  /\ mainStep' = "observed"
  /\ UNCHANGED <<dummyVars, attempt, waited, workerStats, stages, backendStats, memoryVars>>

StopPipeline ==
  /\ mainStep = "stop"
  /\ \/ Stop /\ UNCHANGED mainStep
     \/ Join /\ mainStep' = "observed"
  /\ UNCHANGED <<dummyVars, attempt, waited, workerStats, stages, backendStats, memoryVars>>

\* ms: the snapshot's averageWorkerProcessUs, which WorkerTiming is about.
RecordObserved(ms) ==
  /\ mainStep = "observed"
  /\ stages' = IF workerStats.processed > 0
               THEN Record(stages, "worker_process_observed", ms) ELSE stages
  /\ mainStep' = "backend"
  /\ UNCHANGED <<vars, dummyVars, attempt, waited, workerStats, backendStats, memoryVars>>

\* The average is recorded in whole units.
RecordBackend ==
  /\ mainStep = "backend"
  /\ backendStats' = DummyStats
  /\ stages' = IF backendStats'.processedChunks > 0
               THEN Record(stages, "dummy_backend_process",
                           backendStats'.average[1] \div backendStats'.average[2])
               ELSE stages
  /\ mainStep' = "done"
  /\ UNCHANGED <<vars, dummyVars, attempt, waited, workerStats, memoryVars>>

-----------------------------------------------------------------------------
\* The worker.  A loaded dummy converts every block.

WorkerConverts(ms) ==
  /\ Process(TRUE)
  /\ ProcessChunk(ms)
  /\ UNCHANGED <<mainVars, memoryVars>>

\* The store of the index publishes all the worker has done so far.
WorkerPushes ==
  /\ PushOutput
  /\ published' = IF Out!Full THEN published
                  ELSE Append(published, [processed |-> workerProcessedBlocks,
                                          droppedOutput |-> droppedOutputBlocks,
                                          taken |-> workerProcessedBlocks + 1])
  /\ UNCHANGED <<dummyVars, mainVars, view>>

WorkerMoves ==
  /\ CheckRunning \/ LookForInput \/ PopInput \/ CountProcessed
  /\ UNCHANGED <<dummyVars, mainVars, memoryVars>>

Main ==
  \/ LoadDummy \/ AttachDummy \/ StartPipeline
  \/ \E ms \in ChunkMs : WarmUpDummy(ms)
  \/ Callback \/ LoopEnds
  \/ \E ms \in Durations : CallbackEnds(ms)
  \/ WaitForWorker \/ WaitFails
  \/ LoadStats \/ StopPipeline
  \/ \E ms \in ChunkMs : RecordObserved(ms)
  \/ RecordBackend

Worker == WorkerMoves \/ WorkerPushes \/ \E ms \in ChunkMs : WorkerConverts(ms)

\* An index store becomes visible.
Memory == Notice /\ UNCHANGED <<dummyVars, mainVars, memoryVars>>

BenchNext == Main \/ Worker \/ Memory

\* Both threads run when they can.
BenchSpec ==
  BenchInit /\ [][BenchNext]_benchVars /\ WF_benchVars(Main) /\ WF_benchVars(Worker)

-----------------------------------------------------------------------------
\* Properties.

\* When waitForWorker says so, every block was processed: none was dropped at a full
\* input queue, whose block would never be counted, and none is left in it.
WaitIsHonest ==
  waited =>
    /\ workerProcessedBlocks = MaxCalls
    /\ droppedInputBlocks = 0 /\ inputQueue = <<>>

\* The snapshot is of no one moment, and each load may be old.  Yet what the worker did
\* before the last block main got back is in it: all blocks before that one are
\* processed, those of them that were dropped are counted as dropped, and it is not
\* waiting.  A block that still waits is in the size of the input queue, and no block
\* is twice among what came back, was dropped on the way out and waits there.
\* (processed and the two sizes need not add up: a block may be in two of them.)
SnapshotIsCausal ==
  mainStep = "stop" =>
    LET s == workerStats
        accepted == submittedBlocks - droppedInputBlocks
    IN /\ consumedOutputBlocks <= s.processed + 1 /\ s.processed <= accepted
       /\ outputScratch.sequence <= consumedOutputBlocks + s.droppedOutput + droppedInputBlocks
       /\ Len(inputQueue) <= s.inputSize
       /\ consumedOutputBlocks + s.inputSize <= accepted
       /\ consumedOutputBlocks + s.droppedOutput + s.outputSize <= accepted
       /\ waited => s.processed = submittedBlocks

\* The count reported for the backend is every block the worker took and the two of
\* the warm-up, also when waiting was given up and blocks were converted later, and
\* the average is over the same.
BackendCountsAll ==
  mainStep = "done" =>
    /\ backendStats.warmupRuns = 2
    /\ backendStats.processedChunks =
         backendStats.warmupRuns + submittedBlocks - droppedInputBlocks - Len(inputQueue)
    /\ backendStats = DummyStats

\* What the statistics of a sequence of samples must be.  Of no more than 21 sorted
\* samples the 95th percentile lies between the last two, five hundredths of a place
\* below the last for every sample before it.
OfItsSamples(entry) ==
  LET n == Len(entry.samples)
      taken == {entry.samples[i] : i \in 1 .. n}
      top == CHOOSE i \in 1 .. n : \A j \in 1 .. n : entry.samples[j] <= entry.samples[i]
      second == CHOOSE i \in 1 .. n \ {top} :
                  \A j \in 1 .. n \ {top} : entry.samples[j] <= entry.samples[i]
      below == IF n = 1 THEN 0 ELSE entry.samples[top] - entry.samples[second]
      size == IF MovingWindowSize = 0 THEN 1 ELSE MovingWindowSize
      window == IF n < size THEN n ELSE size
  IN /\ n <= 21 => entry.stats.p95 = 100 * entry.samples[top] - 5 * (n - 1) * below
     /\ \A d \in taken : entry.stats.min <= d /\ d <= entry.stats.max
     /\ entry.stats.min \in taken /\ entry.stats.max \in taken
     /\ entry.stats.average = <<SumOf(entry.samples, 1, n), n>>
     /\ entry.stats.movingAverage = <<SumOf(entry.samples, n - window + 1, n), window>>

\* The statistics of a stage, which are updated one record at a time, are those of
\* all its records, and every callback was recorded.
StatsAreOfSamples ==
  \A stage \in DOMAIN stages :
    /\ OfItsSamples(stages[stage])
    /\ stage = "worker_shadow_callback" =>
         Len(stages[stage].samples) = consumedOutputBlocks + lateOutputBlocks

\* The benchmark ends, whatever was dropped: it waits for a count that may never be
\* reached, but a bounded number of times.
BenchmarkReturns == <>(mainStep = "done")
=============================================================================
