------------------------ MODULE AudioWorkerPipeline ------------------------
(***************************************************************************)
(* src/audio/AudioWorkerPipeline.{h,cpp}: the device callback hands blocks *)
(* of input to a worker thread through one queue and takes processed       *)
(* blocks from it through another.                                         *)
(*                                                                         *)
(* Three threads share it: the audio thread (processShadow... and          *)
(* processReplacingFromAudioThread), the worker (workerLoop) and one       *)
(* control thread that starts, stops and configures it (the GUI thread of  *)
(* the application, the main thread of the tests and the benchmark).       *)
(* Every access to a queue or to running_ is a step.  The queues are those *)
(* of module BoundedFifo, which module SpscRingBuffer implements.          *)
(*                                                                         *)
(* A block is its sequence number and the backend that converted it; the   *)
(* samples are left to the caller's buffers.  Counters are read by nothing *)
(* that decides, so a step that updates two of them is one step here.      *)
(***************************************************************************)
EXTENDS Naturals, Sequences

CONSTANTS
  QueueCapacity,  \* queueCapacity
  Backends,       \* the backends that may be attached
  NoBackend,      \* backend_ is null
  Prompt,         \* TRUE: index stores are visible at once (see BoundedFifo)
  SpawnMayFail,   \* TRUE: the platform may refuse to create the thread
  MaxCalls        \* bound: callbacks of the audio thread

ASSUME QueueCapacityAssumption == QueueCapacity \in Nat \ {0}
ASSUME NoBackendAssumption == NoBackend \notin Backends
ASSUME FlagAssumption == Prompt \in BOOLEAN /\ SpawnMayFail \in BOOLEAN
ASSUME MaxCallsAssumption == MaxCalls \in Nat

VARIABLES
  \* inputQueue_ and the worker's local AudioBlock input
  inputQueue, inUnseenPops, inUnseenPushes, inputOverflows, inputUnderflows, input,
  \* outputQueue_ and audioThreadOutputScratch_
  outputQueue, outUnseenPops, outUnseenPushes, outputOverflows, outputUnderflows, outputScratch,
  inputScratch,     \* audioThreadInputScratch_
  output,           \* the worker's local AudioBlock output
  running,          \* running_
  backend,          \* backend_
  audioStep, workerStep, controlStep,   \* where each thread stands
  usedWorker,       \* what the last callback returned
  nextSequence,
  submittedBlocks, workerProcessedBlocks, consumedOutputBlocks, lateOutputBlocks,
  droppedInputBlocks, droppedOutputBlocks, unsupportedInputBlocks, backendErrorBlocks,
  clearedInput, clearedOutput   \* history: blocks removed by clearQueuesWhenStopped

inputQueueVars == <<inputQueue, inUnseenPops, inUnseenPushes, inputOverflows, inputUnderflows>>
outputQueueVars == <<outputQueue, outUnseenPops, outUnseenPushes, outputOverflows, outputUnderflows>>
inVars == <<inputQueueVars, input>>
outVars == <<outputQueueVars, outputScratch>>
audioCounters == <<nextSequence, submittedBlocks, consumedOutputBlocks, lateOutputBlocks,
                   droppedInputBlocks, unsupportedInputBlocks>>
workerCounters == <<workerProcessedBlocks, droppedOutputBlocks, backendErrorBlocks>>
audioVars == <<audioStep, inputScratch, usedWorker, audioCounters>>
workerVars == <<workerStep, output, workerCounters>>
controlVars == <<controlStep, running, backend, clearedInput, clearedOutput>>
vars == <<inVars, outVars, audioVars, workerVars, controlVars>>

Blocks == [sequence : Nat, by : Backends \cup {NoBackend}]
DryBlocks == [sequence : Nat, by : {NoBackend}]
EmptyBlock == [sequence |-> 0, by |-> NoBackend]

In == INSTANCE BoundedFifo WITH
        Capacity <- QueueCapacity, Items <- Blocks, items <- inputQueue, returned <- input,
        unseenPops <- inUnseenPops, unseenPushes <- inUnseenPushes,
        refusedPushes <- inputOverflows, refusedPops <- inputUnderflows
Out == INSTANCE BoundedFifo WITH
        Capacity <- QueueCapacity, Items <- Blocks, items <- outputQueue, returned <- outputScratch,
        unseenPops <- outUnseenPops, unseenPushes <- outUnseenPushes,
        refusedPushes <- outputOverflows, refusedPops <- outputUnderflows

AudioSteps == {"idle", "push", "consume"}
WorkerSteps == {"none", "check", "look", "pop", "process", "push", "count", "done"}
ControlSteps == {"idle", "spawn", "join"}

\* workerThread_.joinable()
Joinable == workerStep # "none"

Init ==
  /\ In!Init /\ input = EmptyBlock
  /\ Out!Init /\ outputScratch = EmptyBlock
  /\ inputScratch = EmptyBlock /\ output = EmptyBlock
  /\ running = FALSE /\ backend = NoBackend
  /\ audioStep = "idle" /\ workerStep = "none" /\ controlStep = "idle"
  /\ usedWorker = FALSE
  /\ nextSequence = 1
  /\ submittedBlocks = 0 /\ workerProcessedBlocks = 0
  /\ consumedOutputBlocks = 0 /\ lateOutputBlocks = 0
  /\ droppedInputBlocks = 0 /\ droppedOutputBlocks = 0
  /\ unsupportedInputBlocks = 0 /\ backendErrorBlocks = 0
  /\ clearedInput = 0 /\ clearedOutput = 0

-----------------------------------------------------------------------------
\* The audio thread: submitInputFromAudioThread, then
\* tryConsumeOutputFromAudioThread and the return.  It never looks at running_.

\* Mutant: copyFrom leaves the sequence of the block as it was.
SubmitUnstamped ==
  /\ audioStep = "idle"
  /\ nextSequence <= MaxCalls
  /\ nextSequence' = nextSequence + 1
  /\ submittedBlocks' = submittedBlocks + 1
  /\ audioStep' = "push"
  /\ UNCHANGED <<inputScratch, consumedOutputBlocks, lateOutputBlocks, droppedInputBlocks,
                 unsupportedInputBlocks, usedWorker, inVars, outVars, workerVars, controlVars>>

\* copyFrom accepts the input: it becomes the next block.
SubmitSupported ==
  /\ audioStep = "idle"
  /\ nextSequence <= MaxCalls
  /\ nextSequence' = nextSequence + 1
  /\ inputScratch' = [sequence |-> nextSequence, by |-> NoBackend]
  /\ submittedBlocks' = submittedBlocks + 1
  /\ audioStep' = "push"
  /\ UNCHANGED <<consumedOutputBlocks, lateOutputBlocks, droppedInputBlocks,
                 unsupportedInputBlocks, usedWorker, inVars, outVars, workerVars, controlVars>>

\* Mutant: an unsupported block is not counted as dropped.
SubmitUnsupportedUncounted ==
  /\ audioStep = "idle"
  /\ nextSequence <= MaxCalls
  /\ nextSequence' = nextSequence + 1
  /\ unsupportedInputBlocks' = unsupportedInputBlocks + 1
  /\ audioStep' = "consume"
  /\ UNCHANGED <<inputScratch, submittedBlocks, consumedOutputBlocks, lateOutputBlocks,
                 droppedInputBlocks, usedWorker, inVars, outVars, workerVars, controlVars>>

\* No input, or too many channels or frames: the sequence number is spent.
SubmitUnsupported ==
  /\ audioStep = "idle"
  /\ nextSequence <= MaxCalls
  /\ nextSequence' = nextSequence + 1
  /\ unsupportedInputBlocks' = unsupportedInputBlocks + 1
  /\ droppedInputBlocks' = droppedInputBlocks + 1
  /\ audioStep' = "consume"
  /\ UNCHANGED <<inputScratch, submittedBlocks, consumedOutputBlocks, lateOutputBlocks,
                 usedWorker, inVars, outVars, workerVars, controlVars>>

PushInput ==
  /\ audioStep = "push"
  /\ In!TryPush(inputScratch)
  /\ droppedInputBlocks' = IF In!Full THEN droppedInputBlocks + 1 ELSE droppedInputBlocks
  /\ audioStep' = "consume"
  /\ UNCHANGED <<inputScratch, nextSequence, submittedBlocks, consumedOutputBlocks,
                 lateOutputBlocks, unsupportedInputBlocks, usedWorker, outVars, workerVars,
                 controlVars>>

\* Mutant: a late callback is not counted.
ConsumeLateUncounted(copied) ==
  /\ audioStep = "consume"
  /\ Out!TryPop
  /\ consumedOutputBlocks' = IF Out!Empty THEN consumedOutputBlocks ELSE consumedOutputBlocks + 1
  /\ usedWorker' = (copied /\ ~Out!Empty)
  /\ audioStep' = "idle"
  /\ UNCHANGED <<inputScratch, nextSequence, submittedBlocks, lateOutputBlocks,
                 droppedInputBlocks, unsupportedInputBlocks, inVars, workerVars, controlVars>>

\* copied: processShadow..., or copyTo succeeds; otherwise copyTo finds no
\* usable output, and the block popped is gone.
ConsumeOutput(copied) ==
  /\ audioStep = "consume"
  /\ Out!TryPop
  /\ IF Out!Empty
     THEN /\ lateOutputBlocks' = lateOutputBlocks + 1
          /\ usedWorker' = FALSE
          /\ UNCHANGED consumedOutputBlocks
     ELSE /\ consumedOutputBlocks' = consumedOutputBlocks + 1
          /\ usedWorker' = copied
          /\ UNCHANGED lateOutputBlocks
  /\ audioStep' = "idle"
  /\ UNCHANGED <<inputScratch, nextSequence, submittedBlocks, droppedInputBlocks,
                 unsupportedInputBlocks, inVars, workerVars, controlVars>>

AudioStep == PushInput \/ \E copied \in BOOLEAN : ConsumeOutput(copied)

-----------------------------------------------------------------------------
\* The worker thread: workerLoop.

\* Mutant: the worker loop has no end.
CheckRunningNever ==
  /\ workerStep = "check"
  /\ workerStep' = "look"
  /\ UNCHANGED <<output, workerCounters, inVars, outVars, audioVars, controlVars>>

CheckRunning ==
  /\ workerStep = "check"
  /\ workerStep' = IF running THEN "look" ELSE "done"
  /\ UNCHANGED <<output, workerCounters, inVars, outVars, audioVars, controlVars>>

\* Mutant: the worker pops without looking.
LookForInputSkipped ==
  /\ workerStep = "look"
  /\ workerStep' = "pop"
  /\ UNCHANGED <<output, workerCounters, inVars, outVars, audioVars, controlVars>>

\* Mutant: an empty queue ends the loop.
LookForInputOnce ==
  /\ workerStep = "look"
  /\ workerStep' = IF In!Empty THEN "done" ELSE "pop"
  /\ UNCHANGED <<output, workerCounters, inVars, outVars, audioVars, controlVars>>

\* inputQueue_.empty(): sleep and start over, or go on to pop.
LookForInput ==
  /\ workerStep = "look"
  /\ workerStep' = IF In!Empty THEN "check" ELSE "pop"
  /\ UNCHANGED <<output, workerCounters, inVars, outVars, audioVars, controlVars>>

\* Mutant: the worker obeys a stop with a block in its hands.
PopInputThenLeave ==
  /\ workerStep = "pop"
  /\ In!TryPop
  /\ workerStep' = IF In!Empty THEN "check" ELSE IF running THEN "process" ELSE "done"
  /\ UNCHANGED <<output, workerCounters, outVars, audioVars, controlVars>>

PopInput ==
  /\ workerStep = "pop"
  /\ In!TryPop
  /\ workerStep' = IF In!Empty THEN "check" ELSE "process"
  /\ UNCHANGED <<output, workerCounters, outVars, audioVars, controlVars>>

\* Mutant: no fallback to the input after an error of the backend.
ProcessNoFallback(converted) ==
  /\ workerStep = "process"
  /\ converted => backend # NoBackend
  /\ output' = IF converted THEN [input EXCEPT !.by = backend]
               ELSE IF backend = NoBackend THEN input ELSE output
  /\ backendErrorBlocks' = IF backend # NoBackend /\ ~converted
                           THEN backendErrorBlocks + 1 ELSE backendErrorBlocks
  /\ workerStep' = "push"
  /\ UNCHANGED <<workerProcessedBlocks, droppedOutputBlocks, inVars, outVars, audioVars,
                 controlVars>>

\* processWithBackend: converted, or an error of the backend or of the chunk
\* it returned, which leaves output alone and is answered by output = input.
Process(converted) ==
  /\ workerStep = "process"
  /\ converted => backend # NoBackend
  /\ output' = IF converted THEN [input EXCEPT !.by = backend] ELSE input
  /\ backendErrorBlocks' = IF backend # NoBackend /\ ~converted
                           THEN backendErrorBlocks + 1 ELSE backendErrorBlocks
  /\ workerStep' = "push"
  /\ UNCHANGED <<workerProcessedBlocks, droppedOutputBlocks, inVars, outVars, audioVars,
                 controlVars>>

PushOutput ==
  /\ workerStep = "push"
  /\ Out!TryPush(output)
  /\ droppedOutputBlocks' = IF Out!Full THEN droppedOutputBlocks + 1 ELSE droppedOutputBlocks
  /\ workerStep' = "count"
  /\ UNCHANGED <<output, workerProcessedBlocks, backendErrorBlocks, inVars, audioVars,
                 controlVars>>

CountProcessed ==
  /\ workerStep = "count"
  /\ workerProcessedBlocks' = workerProcessedBlocks + 1
  /\ workerStep' = "check"
  /\ UNCHANGED <<output, droppedOutputBlocks, backendErrorBlocks, inVars, outVars, audioVars,
                 controlVars>>

WorkerStep ==
  \/ CheckRunning \/ LookForInput \/ PopInput
  \/ \E converted \in BOOLEAN : Process(converted)
  \/ PushOutput \/ CountProcessed

-----------------------------------------------------------------------------
\* The control thread.

\* start(): a pipeline that is running already is left alone.
Start ==
  /\ controlStep = "idle"
  /\ ~running
  /\ running' = TRUE
  /\ controlStep' = "spawn"
  /\ UNCHANGED <<backend, clearedInput, clearedOutput, inVars, outVars, audioVars, workerVars>>

\* workerThread_.start: a new thread, with new local blocks.
Spawn ==
  /\ controlStep = "spawn"
  /\ workerStep' = "check"
  /\ input' = EmptyBlock /\ output' = EmptyBlock
  /\ controlStep' = "idle"
  /\ UNCHANGED <<running, backend, clearedInput, clearedOutput, workerCounters, inputQueueVars,
                 outVars, audioVars>>

\* The platform creates no thread: the exception leaves start() as it is.
SpawnFails ==
  /\ SpawnMayFail
  /\ controlStep = "spawn"
  /\ controlStep' = "idle"
  /\ UNCHANGED <<running, backend, clearedInput, clearedOutput, inVars, outVars, audioVars,
                 workerVars>>

\* Mutant: stop() does not wait for the worker.
StopWithoutJoin ==
  /\ controlStep = "idle"
  /\ running \/ Joinable
  /\ running' = FALSE
  /\ UNCHANGED <<controlStep, backend, clearedInput, clearedOutput, inVars, outVars, audioVars,
                 workerVars>>

\* stop() and the destructor.
Stop ==
  /\ controlStep = "idle"
  /\ running \/ Joinable
  /\ running' = FALSE
  /\ controlStep' = IF Joinable THEN "join" ELSE "idle"
  /\ UNCHANGED <<backend, clearedInput, clearedOutput, inVars, outVars, audioVars, workerVars>>

Join ==
  /\ controlStep = "join"
  /\ workerStep = "done"
  /\ workerStep' = "none"
  /\ controlStep' = "idle"
  /\ UNCHANGED <<running, backend, clearedInput, clearedOutput, output, workerCounters, inVars,
                 outVars, audioVars>>

\* Mutant: the backend may be replaced at any time.
SetBackendAnytime(b) ==
  /\ controlStep = "idle"
  /\ backend' = b
  /\ UNCHANGED <<controlStep, running, clearedInput, clearedOutput, inVars, outVars, audioVars,
                 workerVars>>

SetInferenceBackend(b) ==
  /\ controlStep = "idle"
  /\ ~running
  /\ backend' = b
  /\ UNCHANGED <<controlStep, running, clearedInput, clearedOutput, inVars, outVars, audioVars,
                 workerVars>>

\* The caller's obligation, which the code does not check: no callback runs.
ClearQueuesWhenStopped ==
  /\ controlStep = "idle"
  /\ ~running
  /\ audioStep = "idle"
  /\ In!Reset /\ Out!Reset
  /\ inputScratch' = EmptyBlock /\ outputScratch' = EmptyBlock
  /\ clearedInput' = clearedInput + Len(inputQueue)
  /\ clearedOutput' = clearedOutput + Len(outputQueue)
  /\ UNCHANGED <<controlStep, running, backend, input, audioStep, usedWorker, audioCounters,
                 workerVars>>

ControlStep == Spawn \/ SpawnFails \/ Join

-----------------------------------------------------------------------------
\* The memory: an index store of one thread becomes visible to the other.

Notice ==
  \/ (In!NoticePops \/ In!NoticePushes) /\ UNCHANGED <<outVars, audioVars, workerVars, controlVars>>
  \/ (Out!NoticePops \/ Out!NoticePushes) /\ UNCHANGED <<inVars, audioVars, workerVars, controlVars>>

Next ==
  \/ SubmitSupported \/ SubmitUnsupported
  \/ AudioStep
  \/ WorkerStep
  \/ Start \/ Stop
  \/ ControlStep
  \/ \E b \in Backends \cup {NoBackend} : SetInferenceBackend(b)
  \/ ClearQueuesWhenStopped
  \/ Notice

Spec == Init /\ [][Next]_vars

\* The scheduler runs every thread that can run, and memory becomes coherent.
LiveSpec ==
  /\ Spec
  /\ WF_vars(AudioStep) /\ WF_vars(WorkerStep) /\ WF_vars(ControlStep)
  /\ WF_vars(Notice)

-----------------------------------------------------------------------------
\* Properties.

QueueTypeOK ==
  /\ inputQueue \in Seq(DryBlocks) /\ input \in DryBlocks /\ inputScratch \in DryBlocks
  /\ outputQueue \in Seq(Blocks) /\ output \in Blocks /\ outputScratch \in Blocks
ThreadTypeOK ==
  /\ running \in BOOLEAN /\ usedWorker \in BOOLEAN
  /\ backend \in Backends \cup {NoBackend}
  /\ audioStep \in AudioSteps /\ workerStep \in WorkerSteps /\ controlStep \in ControlSteps
CounterTypeOK ==
  /\ inUnseenPops \in Nat /\ inUnseenPushes \in Nat
  /\ outUnseenPops \in Nat /\ outUnseenPushes \in Nat
  /\ inputOverflows \in Nat /\ inputUnderflows \in Nat
  /\ outputOverflows \in Nat /\ outputUnderflows \in Nat
  /\ nextSequence \in Nat
  /\ submittedBlocks \in Nat /\ workerProcessedBlocks \in Nat
  /\ consumedOutputBlocks \in Nat /\ lateOutputBlocks \in Nat
  /\ droppedInputBlocks \in Nat /\ droppedOutputBlocks \in Nat
  /\ unsupportedInputBlocks \in Nat /\ backendErrorBlocks \in Nat
  /\ clearedInput \in Nat /\ clearedOutput \in Nat

\* Every variable has its type.
TypeOK == QueueTypeOK /\ ThreadTypeOK /\ CounterTypeOK

\* The worker holds a block it popped and has not pushed.
Holding == workerStep \in {"process", "push"}
OneIf(p) == IF p THEN 1 ELSE 0
Backlog == Len(inputQueue) + OneIf(Holding) + Len(outputQueue)

\* Every block accepted by copyFrom is dropped at a full queue, cleared, waiting,
\* with the worker, or processed, and so on to the callback: a stop, a restart
\* or a backend error loses none and counts none twice.
BlocksConserved ==
  /\ submittedBlocks + unsupportedInputBlocks =
       OneIf(audioStep = "push") + droppedInputBlocks + clearedInput + Len(inputQueue)
       + OneIf(Holding \/ workerStep = "count") + workerProcessedBlocks
  /\ workerProcessedBlocks + OneIf(workerStep = "count") =
       droppedOutputBlocks + clearedOutput + Len(outputQueue) + consumedOutputBlocks

\* A callback that finds no output adds a block to the backlog for good: between
\* callbacks the backlog is the number of late callbacks less the blocks dropped
\* or cleared.  Nothing else ever brings the latency down again.
BacklogIsLateness ==
  audioStep = "idle" =>
    lateOutputBlocks =
      Backlog + droppedInputBlocks + droppedOutputBlocks + clearedInput + clearedOutput

\* The block a callback returns is as many blocks old as are waiting behind it,
\* at least, and never older than the number of callbacks that were late.
AgeIsBounded ==
  audioStep = "idle" /\ usedWorker /\ outputScratch # EmptyBlock =>
    /\ outputScratch.sequence + Backlog < nextSequence
    /\ nextSequence - 1 - outputScratch.sequence <= lateOutputBlocks

\* empty() answering FALSE binds the tryPop that follows it: workerLoop never
\* counts an underflow, and its "continue" after tryPop is never taken.
WorkerPopSucceeds == inputUnderflows = 0

\* While running_ is FALSE and no start or stop is in progress there is no
\* thread: stop has waited for it, and what is done to a stopped pipeline
\* (clearQueuesWhenStopped, setInferenceBackend, the destructor) meets no worker.
\* A thread is never assigned over one that is still joinable, which would
\* terminate the program.
StoppedIsQuiescent ==
  /\ ~running /\ controlStep = "idle" => ~Joinable
  /\ controlStep = "spawn" => ~Joinable

\* workerLoop reads backend_ without synchronisation, twice a block: it is never
\* written while a worker thread exists.
BackendStable == [][backend' # backend => ~Joinable]_vars

\* The block the worker is about to push is made from the block it popped, dry
\* or converted by the attached backend: nothing is left over in output from
\* the block before, whatever way the backend failed.
OutputIsFresh ==
  workerStep = "push" =>
    /\ output.sequence = input.sequence
    /\ output.by \in {NoBackend, backend}

\* What the properties above rest on.  The control thread knows whether there is a
\* worker; the worker at its tryPop has seen an input; every callback takes one
\* number and ends with one output or one late output.
ControlKnowsWorker ==
  /\ controlStep = "spawn" => running /\ ~Joinable
  /\ controlStep = "join" => ~running /\ Joinable
  /\ ~running /\ controlStep = "idle" => ~Joinable
WorkerHasInput == workerStep = "pop" => ~In!Empty
CallsAreAnswered ==
  /\ nextSequence = submittedBlocks + unsupportedInputBlocks + 1
  /\ submittedBlocks + unsupportedInputBlocks =
       consumedOutputBlocks + lateOutputBlocks + OneIf(audioStep # "idle")
IInv ==
  TypeOK /\ ControlKnowsWorker /\ WorkerHasInput /\ WorkerPopSucceeds /\ OutputIsFresh
  /\ BlocksConserved /\ CallsAreAnswered

\* The pipeline is a delay line: in order, no block twice, none lost unless a
\* queue of older blocks is full.
Line == [i \in 1 .. Len(outputQueue) |-> outputQueue[i].sequence]
        \o (IF Holding THEN <<input.sequence>> ELSE <<>>)
        \o [i \in 1 .. Len(inputQueue) |-> inputQueue[i].sequence]

DelayLine == INSTANCE AudioDelayLine WITH
               line <- Line, consumed <- outputScratch.sequence, newest <- nextSequence - 1

ImplementsDelayLine == DelayLine!Spec

\* stop() returns: the worker sees running_ and leaves its loop, whatever is queued.
StopReturns == controlStep = "join" ~> controlStep = "idle"

\* A block in the input queue of a running pipeline leaves it, unless the
\* pipeline is stopped: test_audio_worker_pipeline.cpp waits for this.
RunningMeansProcessing ==
  \A n \in 1 .. MaxCalls :
    (running /\ \E i \in DOMAIN inputQueue : inputQueue[i].sequence = n)
      ~> (~running \/ \A i \in DOMAIN inputQueue : inputQueue[i].sequence # n)
=============================================================================
