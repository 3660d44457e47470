# Verification of low_latency_voice

This directory holds a TLA+ model of the realtime voice changer: modules
translated from the C++ source, TLC configurations that check them on small
instances, and proofs, checked by TLAPS, that what matters most holds for every
queue capacity, set of backends and number of calls. Paths in this file are
relative to the repository.

## The system

A device callback on the audio thread hands fixed blocks of input to a worker
thread through a lock-free queue, takes processed blocks from it through another,
and falls back to dry input when none is ready. The worker may call an inference
backend. A control thread (the GUI thread of the application, the main thread of
the tests and of the benchmark) starts, stops, configures and watches.

| component | state | operations | who calls it |
|---|---|---|---|
| SPSC ring buffer, `src/audio/SpscRingBuffer.h` | slots, read and write index, two refusal counters | `tryPush`, `tryPop`, `full`, `empty`, `reset`, `size` | one producer and one consumer thread; `reset` its owner |
| Worker pipeline, `src/audio/AudioWorkerPipeline.{h,cpp}` | two rings, two scratch blocks, `running_`, `backend_`, the thread, 13 atomics of statistics | `processShadow...` and `processReplacingFromAudioThread`; `workerLoop`; `start`, `stop`, `setInferenceBackend`, `clearQueuesWhenStopped`, `resetCounters`, `stats`, two setters | audio thread; worker; control thread |
| Audio blocks and chunks, `AudioBlock.h`, `common/AudioChunk.h` | rows of samples in use, sequence number | `copyFrom`, `copyTo`, and the copies of the pipeline between blocks, chunks and device buffers | audio thread and worker, each on its own blocks |
| Joinable thread, `common/Threading.h` | the handle | `start`, `joinable`, `join` | pipeline |
| Audio engine, `AudioEngine.{h,cpp}` | settings, bypass flag, two counters, all atomic | `processPassThrough`, `configure`, `setBypass`, `resetCounters` | audio thread, GUI thread |
| Application, `apps/realtime_app/Main.cpp` | an engine and a pipeline | construction, `prepareToPlay`, `getNextAudioBlock`, buttons, timer, destruction | JUCE |
| Backends, `src/inference` | model loaded or not, statistics, fixed tensor shapes | `loadModel`, `warmUp`, `process`, `stats` | control thread before `start`, then the worker |
| Pitch estimator, `src/dsp/PitchYIN.cpp` | settings | `estimate` | benchmark |
| Latency profiler, `src/profiler` | samples and statistics per stage | `record`, `stats`, reports | benchmark |
| Benchmark, `benchmarks`, `apps/benchmark_cli` | none of its own | runs the pipeline and waits for it, bounded | command line |

What is hard in it: two lock-free queues whose users see each other's indices
late; a worker that looks and pops in two steps; a plain `backend_` pointer
guarded only by the protocol of `start` and `stop`; statistics reset by one thread
while another counts; buffers that are used again and never cleared; a thread
that may not start; and a latency that nothing but the accounts below bounds.
`PROJECT.json` lists these hazards at their lines, with the properties that cover
them.

What makes each part correct:

- ring: items come out whole, in order, once; no slot is used by both threads at
  a time; no call waits; a call is refused only for what its thread can see.
- pipeline: every block is accounted for; blocks are played in order and dropped
  only behind a full queue; the age of what is played is known; a stopped pipeline
  has no thread; `stop` returns; a running one works.
- blocks: what is played is one block, each sample in its frame and channel.
- statistics: the three durations agree with each other and with the count.
- engine: a block is audible or mute as a whole, a toggled bypass stays toggled,
  the counters count what the documentation says.
- application: a callback always finds a running pipeline, nothing is left when it
  is destroyed, and a Reset leaves counters that are an account of what came since.
- ONNX backend: a model is loaded whole or not at all, in every failure path; the
  counts are those of the loaded model; what is returned is made from this call's
  chunk. The dummy backend counts every chunk it was given.
- estimator: it returns the period YIN defines, within the limits it was set.
- profiler: the statistics of a stage are those of all its records.
- benchmark: its bounded wait tells the truth, a snapshot taken while the worker runs
  has all that came before the last block that came back, and it ends.

## Modules

| module | models | status |
|---|---|---|
| `BoundedFifo` | abstract: what a ring promises, including how late an index may be seen | done |
| `SpscRingBuffer` | `SpscRingBuffer.h`, one shared access per step; implements `BoundedFifo` | done |
| `SpscRingBufferProofs` | proofs of its invariants and of the implementation | done |
| `AudioDelayLine` | abstract: what the pipeline promises a listener | done |
| `AudioWorkerPipeline` | the three threads over two instances of `BoundedFifo`; implements `AudioDelayLine` | done; `resetCounters` and `stats` in the modules that use it |
| `AudioWorkerPipelineProofs` | proofs of its invariants, of the age of blocks, and that it implements `AudioDelayLine` | done |
| `RealtimeApp` | the application: devices that come and go, Reset, closing, over `AudioWorkerPipeline` | done |
| `DummyBackend` | the dummy's loading, warm-up and counters | done but for gain and polarity |
| `LatencyProfiler` | `record` and its statistics, as operators | done but for reset and reports |
| `Benchmark` | the pipeline stage of the benchmark over `AudioWorkerPipeline`, `DummyBackend` and `LatencyProfiler` | done |
| `ProgramProofs` | proofs about the two programs on the pipeline, `RealtimeApp` and `Benchmark`, and about the profiler's operators | done |
| `PitchYIN`, `PitchYINProofs` | the setters and the estimate, in exact arithmetic; proofs that the settings are usable and that the estimate is YIN's | done |
| `WorkerTiming`, `WorkerTimingProofs` | the timing atomics and their reset, one atomic per step; proofs of its invariants | done |
| `AudioBlocks`, `CallbackSamples`, `CallbackSamplesProofs` | the copies of samples, and the pipeline with samples in its blocks; proofs of its invariants | done |
| `AudioEngine`, `AudioEngineProofs` | the audible path, the buttons and `prepareToPlay`, one shared access or one channel per step; proofs of its invariants | done |
| `OnnxBackend`, `OnnxBackendProofs` | load, warm up and process with every early return and exception, and the tensor adapter; proofs of its invariants | done |
| `MC*` | model values for TLC | |

`AudioWorkerPipeline` is built from `BoundedFifo` and not from the ring itself:
the ring run and the theorem `Refinement` show that a ring is such a queue, and
the pipeline sees no more of it. `CallbackSamples` is the pipeline again, with
blocks that hold samples and without its interleavings, which touch no sample:
a block is copied as a whole into and out of a queue that both threads see as a
sequence.

### How the modules correspond to the code

*SpscRingBuffer.* `head` and `tail` count the stores made to `readIndex_` and
`writeIndex_`; `Index(n)` is what the n-th store wrote, and the code compares only
such values. An acquire load may return an older store, never one older than
that thread saw before: `headSeen` and `tailSeen` are what the other thread's
next load returns, and `ObserveHead` and `ObserveTail` let them catch up. A copy
of an item is two steps, with `Torn` in the slot between them, so a race on a slot
would be seen. `tryPush` is `CallPush`, `LoadForPush`, `CopyIn`, `PublishPush`;
`tryPop` is `CallPop`, `LoadForPop`, `CopyOut`, `PublishPop`. `full` and `empty`,
as the producer and the consumer call them, are `LookForRoom` and `LookForItem`.
`size` changes nothing and is no step here; what it may return is in `Benchmark`.

*AudioWorkerPipeline.* A step is an access to a queue or to `running_`. The
callback is `SubmitSupported` or `SubmitUnsupported`, `PushInput`,
`ConsumeOutput`; `workerLoop` is `CheckRunning`, `LookForInput`, `PopInput`,
`Process`, `PushOutput`, `CountProcessed`; `start` is `Start`, `Spawn` or
`SpawnFails`; `stop` is `Stop`, `Join`. `PopInput` keeps the branch for a refused
pop, which `WorkerPopSucceeds` shows to be dead. Updates of statistics are merged
with the step they follow: nothing decides on them. `CheckRunning` reads the
newest `running_`; reading an older value is the same as a later `Stop`. Creating
and joining a thread synchronises, so `Reset` finds both views up to date.
`ClearQueuesWhenStopped` is guarded by `audioStep = "idle"`, which is the
obligation of the caller and not checked by the code. There is one control
thread: the repository never starts and stops a pipeline from two threads.

*WorkerTiming.* Five atomics, relaxed, each store a step, for the worker
(`StoreLast` to `ExchangeMax`) and for `resetCounters` (`ResetProcessed` to
`ResetMax`). `ExchangeMaxFails` includes the spurious failures that
`compare_exchange_weak` is allowed.

*AudioBlocks, CallbackSamples.* A sample is named by the callback, channel and
frame that delivered it. A block keeps what a copy does not overwrite; a chunk
is a flat sequence, so the change of layout is modelled. A backend converts in
place (`WorkerConverts`, what the dummy does) or answers with any chunk out of
`Replies`, including chunks with an unsupported shape or too few samples.

*AudioEngine.* A callback is `Call`, `LoadBypass`, one `CopyChannel` a channel,
`CountBlock`; `Call` alone when there are no output pointers. A row stands for
the samples of a channel. In place, writing an output row changes the input row.
`resetCounters` is `ClickReset`, `ResetXruns`; `prepareToPlay` is `ReadSettings`,
then the stores of `configure`. `settings()` reads five atomics in one step: it
alone decides nothing, and no other thread writes them unless `OwnThread` is set,
where only the bypass flag could differ. The channel counts in the settings are
read by nothing and left out.

*OnnxBackend.* A call is cut where it may return early or throw. `loadModel` is
`LoadEmptyPath`, or `Load`, `CreateSession`, `InspectNames`, `InspectInput`,
`InspectOutput`, `FinishLoad`, with `LoadFails` at every point: a refusal by
`inspectModel` and the two handlers do the same. `process` is `Process`,
`FillTensor`, `Run`, `TakeReply`, `Finish`, with `ProcessFails`, and `OutputThrows`
for an output chunk that has its new shape and not its samples. `warmUp` is the
same loop with `NextRun`. ONNX Runtime is external: a session answers with any of
`ReplyDims` or throws, and any step may throw. Samples are named by the chunk they
come from. One thread at a time uses a backend, which for the pipeline is
`BackendStable`. The build without ONNX Runtime refuses everything and is left out.

*RealtimeApp.* The GUI thread is `StartWorker`, `OpenDevice`, then `ClickReset` and
a `ResetNext` for every atomic that the two `resetCounters` store, or `CloseDevice`
and `DeviceClosed`, and last `StopWorker`. The callback is `NullBuffer`, or
`GetNextAudioBlock`, `Shadow` (the calls of the pipeline) and `PassThrough`. JUCE is
external: closing a device starts no more callbacks and waits for the one that runs.
The counters of `AudioWorkerPipeline` are kept as totals, so that its theorems hold
unchanged (`PipelineOfApp`); what an atomic holds is the total less what it was at
the last reset (`base`). That includes `nextSequence_`: the same number is given to
two blocks, but nothing in the code compares sequence numbers, and here they differ.
`clean` and `backlogAtReset` are history: whether the last reset met a callback or a
worker that counted, and what was in the line then.

*Benchmark, DummyBackend, LatencyProfiler.* The main thread is control and audio thread in
one: `LoadDummy`, `WarmUpDummy`, `AttachDummy`, `StartPipeline`, the callbacks,
`WaitForWorker` or `WaitFails`, then the loads of `stats()` in the order of the code
(`LoadStats`), of which only those the worker changes are steps, `StopPipeline` and the
two records. The counters are relaxed atomics and order nothing; `size()` loads an index
that may be old. So a load of the worker's counts may give any value from the least that
main must see to the newest (`ProcessedSeen`), the input queue may still seem to hold
blocks that were popped (`InputSizeSeen`), and the output queue not to hold blocks that
were pushed (`OutputSizeSeen`). What main must see is `view`: what it has read before of
the same atomic, and what the worker had done before the last push that main has acquired
with `tryPop` (`Acquired`); `published` records that with every block in the output queue.
C++ orders more than that (an acquire load of `size()` or `tryPush` also counts), so the
model has more executions than the code, and none less. `Memory` lets an index store be
seen. The dummy's counters and the records of the profiler are updated in one step: the
first are read once the worker is joined, the second belong to one thread. Averages are
fractions, the percentile is in hundredths of a unit; `Sorted` is any reordering that is
in order, which is all that `std::sort` promises. The worker converts every block, as a
loaded dummy does.

*PitchYIN.* The setters, in any order and number, then one `estimate`. Samples, rates and
frequencies are integers, thresholds are in thousandths, and every quotient is a fraction,
so that comparisons are exact. The settings are clamped as `setSettings` does. `Vertex`
refines only where the parabola bends by more than 0.0000001, as the code does. `Turn` is
one turn of the loop over the lags, `Stops` its condition to leave it, and `Search` the
loop as a fold over the lags.

## Runs

| run | question | instance |
|---|---|---|
| `ring` | is the ring a queue, race free and wait free? | capacity 2, two items, 4 pushes and 4 pops between resets |
| `pipeline` | order, accounts, latency, thread protocol | capacity 2, one backend or none, 5 callbacks, index stores visible at once, a platform that may refuse the thread |
| `pipeline_live` | what of it holds when index stores are seen late, does `stop` return, and does a running pipeline work? | capacity 1, no backend, 3 callbacks |
| `pipeline_spawn` | does a running pipeline work when the thread may not start: **violated** | as above |
| `timing` | do the durations agree unless a reset raced, and what still holds when it did? | durations 0, 1, 3; 4 blocks, 2 resets |
| `samples` | is what is played one block, whole and in place? | blocks of 2 by 2, 5 kinds of input and output buffers, 0 to 3 frames, 5 replies, 3 callbacks, queues of one |
| `engine` | does a callback return one whole block, and is the bypass kept? | mono, stereo or nothing on each side, every set of missing pointers, in place or not; 2 callbacks, 3 clicks or devices |
| `onnx` | is a model loaded whole or not at all, and is the output made from the input? | two models of different shapes, four that inspection refuses; 5 chunks, 2 replies, warm-ups of 0 and 2; 5 calls |
| `app` | is the worker there for every callback, do counters add up after a Reset, does closing the window end it? | queues of one, 2 callbacks and one without a buffer, 2 devices, 1 Reset |
| `bench` | is the wait honest, what is sure of a snapshot of a running pipeline, are all chunks and callbacks in the reports, does it end? | queues of one, index stores seen late, 3 callbacks, 2 attempts, 2 durations of a callback and 1 of a chunk, a window of 2 |
| `pitch` | does the estimate agree with YIN's definition, and is its frequency within the limits? | rates 0 and 12, 6 settings of which 3 must be corrected, all frames of 0, 3, 5, 6 and 7 samples of -1, 0, 1 |
| `engine_xruns` | is every missing pointer counted? **violated** | the same with 1 click |

Bounds. Calls, blocks and resets are bounded by guards (`MaxPushes`, `MaxPops`,
`MaxCalls`, `MaxClicks`, `MaxBlocks`, `MaxResets`, `MaxXruns`, `MaxDevices`; `MaxAttempts`
is the benchmark's own, 200 there); nothing else is cut off. A ring of capacity 2 has 3
slots, so four pushes wrap both indices, with the queue full on the way. Five callbacks
over two queues of two fill the line of 2 + 1 + 2 blocks; with every index seen at once,
which the first run assumes, no queue looks full that is not, and `AudioDelayLine` is
strict about where a block may be lost. With late indices a queue of one already refuses
for pops it has not seen. Two resets and four blocks let one reset overlap two blocks and
two resets one block. Three callbacks and queues of one take a block through every buffer
after another of different shape. Two channels are enough for an output row that is the
input of a later turn of the loop, and three clicks for a toggle before, during and after
a device is prepared. Five calls load a model, use it, replace it and use the other; a
warm-up of two runs may fail in its second. `OwnThread` is `FALSE`: JUCE prepares a device
on the message thread, where the buttons are handled; `BypassIsKept` depends on it. In
`app` two callbacks and queues of one leave one block in every place when a Reset comes,
and two devices let a callback of the first be under way when the second is asked for. In
`bench` a queue of one drops some of three blocks, on the way in or out, so that the wait
is given up, and two attempts let it succeed late; three callbacks get one block back
while another is under way, so that main has acquired a push and not the next. At a rate
of 12 the lags run from 2 or 3 up to what the frame allows, and frames of 7 have periods
of 2, 3 and 4 with dips at their multiples; at the default rate all frames here are too
short, which is the early return. The theorems remove these bounds where there are proofs.

Deadlock is checked in `pipeline` and `pipeline_live`; the other
systems may stop because their callers may, and the application and the benchmark end.

Fairness. `LiveSpec` of the pipeline assumes that each thread runs when it can
(weak fairness of the steps inside calls and of the worker; none of the callbacks
or of `start` and `stop`, which nobody has to call) and that an index store is
seen in the end, as C++ asks of atomics. `WaitFree` assumes fairness of the
calling thread only. `LiveSpec` of `WorkerTiming` assumes weak fairness of both
threads and that `compare_exchange_weak` does not fail for ever. `BenchSpec` assumes
that both threads run. `AppSpec` assumes that a callback goes on once it is in, that the
worker runs, and that the GUI thread does what nobody has to ask for (`GuiGoesOn`): no
click and no new callback.

### What two runs refute

`pipeline_spawn`: `start()` sets `running_` and then creates the thread. When that
throws, `running()` stays true without a worker, a second `start()` does nothing,
and what is submitted is queued for good; `stop()` repairs it. Every safety
property survives (`pipeline` includes this case).

`engine_xruns`: `docs/audio_callback_flow.md` says that a missing channel pointer
counts as an xrun. With bypass off the input pointers are not looked at, and a
missing one is not counted.

### What the runs taught

- After a Reset that races with the worker's recording, the maximum may be below the
  last duration and the average above both, until longer blocks come. What is left of
  the statistics then is `TotalIsCovered`, and `TimesAgree` again from the next reset that
  meets no block on.
- Before a Reset lateness is latency (`BacklogIsLateness`); after one it is not: the
  backlog at the time of the Reset stays in the line and is in no counter.
- The least lag is rounded down, so a reported frequency may be above
  `maxFrequencyHz`; `FrequencyInRange` states the bound that holds.
- When waiting was given up, `stats()` was read before `stop()`, and blocks converted
  in between make the dummy's count larger than the worker's in the report.
- A snapshot of `stats()` taken while the worker runs does not add up: the sizes may be
  older than the counters, so a block may be reported as processed and as waiting in the
  input queue, and processed blocks may be in none of the output numbers. As a block is
  pushed before it is counted, one more may have come back than is processed.
  `SnapshotIsCausal` is what is sure. The GUI thread, which acquires nothing, can rely on
  less; it decides nothing by it.

## Proofs

`SpscRingBufferProofs` proves, for every capacity and without the bounds mattering,
`[]IInv`, from it the absence of races and the stability of looks, and that every
step of the ring is a step of `BoundedFifo` or a stutter. The inductive invariant
orders the two counts and the two views of them,

    headSeen <= head <= tailSeen <= tail <= headSeen + Capacity

and says that a thread past its load is entitled to its slot by its own view
(`CopiersAreEntitled`) and that every slot between `head` and `tail` is whole
(`ContentIsWhole`). `NoSlotRace` alone is not inductive: it needs the order, to
know that a stale view errs on the safe side. The arithmetic behind it is in the
lemmas: two counts less than `Capacity + 1` apart have different slots
(`EqualRemainders`, `SameSlot`, `OwnSlot`), and full means a whole turn
(`FullMeans`).

`AudioWorkerPipelineProofs` proves the parts of `IInv` one on top of another:
types; that the control thread knows whether there is a worker
(`ControlKnowsWorker`, from which `StoppedIsQuiescent` and `BackendStable`
follow); that a worker at its pop has seen an input (`WorkerHasInput`), which is
why the pop succeeds; that the output is fresh; and the accounts,
`CallsAreAnswered` and `BlocksConserved`, which together give
`BacklogIsLateness`. Assumptions are those named in the modules: a capacity of at
least one, `NoBackend` is no backend, the flags are Boolean, the bounds numbers.
As `MaxCalls` is any number, the theorems do not depend on it.

The same module proves the latency of the pipeline and that it is a delay line.
`StepMoves` first reduces the steps of the three threads to nine moves of a block (and the
step that moves none); everything after it speaks of moves. `AgeIsBounded` needs two
invariants about every place in the line: a block is older than there are blocks behind it
(`BehindInv`), and has at least the number of blocks consumed or before it (`BeforeInv`).
Both hold through a push or a drop only because the number a callback stamps is the last
one given out (`NumberInv`). For `DelayLineImplemented` the line is a sequence built of
the queues and the worker's block (`LineOf`); a lemma for each move says what it does to
that sequence (`LineAccepts` to `LineDrops`). A drop is a loss from behind the whole
output queue because the queue is never longer than its capacity (`CapacityInv`), and
prompt stores leave no pop unseen (`PromptInv`).

`ProgramProofs` proves that the application and the benchmark are each a pipeline in the
sense of `AudioWorkerPipeline` (`PipelineOfApp`, `PipelineOfBench`), so that the theorems
above hold in both, and with them their own. In the application `LifeInv` ties every step
of the GUI thread to what the pipeline and the device are doing then, and `ResetInv` says
what every counter already zeroed amounts to while nothing was counted. In the benchmark
`LoopInv` says which callbacks have been made when the main thread goes on; with
`BlocksConserved` a wait that succeeded has all blocks (`WaitIsHonest`). `DummyInv` counts
the block between its conversion and its count (`Converted`), which gives
`BackendCountsAll`. `SnapshotIsCausal` needs three invariants one on top of another.
`PublishedInv`: with the k-th block to come back the worker published that it had taken k
or more, had counted all of them but one, and had counted as dropped whatever is missing
before it in the numbers; each push published no less than the one before. `ViewInv`: main
must see what was published with the last block it got, since popping a block acquires its
push. `SnapshotInv`: what each load of `stats()` returned lies between that and what there
is now, and stays there while the worker counts up and takes blocks.

`StatsAreOfSamples` has a part about the program (`StatsInv`: every answer to a callback
is recorded, and what is divided are numbers) and a part about the profiler.
`RecordKeeps` shows that one record, which starts from the average and not from the
samples, leaves the statistics of all of them: the sum can be had back from the average
without a remainder (`EntryBefore`), a sum of one sample more is the old sum and the
sample (`SumOfMore`), and the extremes move only for the new one (`OneMore`). That the
percentile lies between the two largest needs that every sequence can be put in order
(`CanBeOrdered`) and what is last then (`LastTwo`).

`WorkerTimingProofs` proves `TotalIsCovered` and `TimesAgree`. At rest they are not
inductive; `CoverInv` and `AgreeInv` say what is owed at every step of the worker and of
the reset, together: which of the atomics are ahead of the count, and that one the
reset has passed is. `AudioEngineProofs` proves `BypassIsKept` (`KeptInv`: the copy of the
settings has the flag the button shows, as long as one thread does both) and
`BlockIsWhole` (`RowInv`: the rows written so far, and that in place, too, the input rows
are still the input, because a channel that both sides have is its own source).
`TypeCorrect` gives the types of all its variables, the indices of rows and channels
included.

`CallbackSamplesProofs` proves `PlayedIsOneBlock` and `PoppedIsPlayed` for blocks and
buffers of any size and any replies. Its invariant `SampleInv` says of every block on
its way that, in the rows and frames it uses, it holds the samples that were made of one
callback's input (`Carries`), whatever an earlier block of another shape left beyond
them, and that the worker only remakes blocks younger than those it has put out. The
lemmas are about the flat layout of a chunk: a place in it is that of one channel and
frame (`Cell`), and a block copied to a chunk and back carries the same
(`RoundTripCarries`).

`PitchYINProofs` proves that the settings are usable whatever was given to the setters
(`SettingsInv`), and that the estimate is what YIN defines, for every rate, all settings
and every frame (`IsYin`, `FrequencyInRange`). The sums and the search are folds, so the
argument is a loop invariant: after every lag the loop is still looking, with no dip so
far and the normalised differences computed up to here, or it has found the first dip
and is on its way down (`Looking`, `Found`; `SearchFinds`). The lag it ends at is the
bottom of the first dip or the least of all lags (`SearchIsYin`), and the vertex of the
parabola through it is at most half a lag away (`VertexIsNear`), so that what is reported
stays in range.

Induction. The library's induction theorems take an operator, which the provers here
cannot instantiate. `PitchYINProofs` and `ProgramProofs` start with a lemma `Induction`
about sets of numbers instead, proved from the well-foundedness of the naturals
(`WFMin`); folds, sums and orders are then treated by it. Both state it because neither
module reaches the other.

`OnnxBackendProofs` proves the four invariants of the backend for every set of
models, chunks and replies. `MetadataAreOfSession` is inductive because it also
says how far inspection has come: with what was read so far being the session's,
the last step of a load makes a whole model, and a failure takes all of it back.
`CountsAreOfModel` and `OutputIsOfInput` rest on it: a process under way has a
session, and the shapes it uses are that session's.

Assumptions. Besides those above the proofs use only what the modules name: the dummy is a
backend, durations are integers and a chunk's time is not negative (`TimesAssumption`; a
callback's may be, `record` clamps it), the window is a number, what the estimator is
given are integers, of any sign (`GivenAssumption`), channels and frames of buffers and
replies are numbers (`BuffersAssumption`, `RepliesAssumption`), bounds are numbers. TLC
evaluates them in the runs.

Every invariant and every action property of the passing runs is proved, and so is
the refinement of both abstract specifications. Only model-checked are the liveness
properties (`WaitFree`, `StopReturns`, `RunningMeansProcessing`, `RecordingEnds`,
`QuitReturns`, `BenchmarkReturns`), which need fairness and `ENABLED`.

## Not modelled

- Memory orders below what `BoundedFifo` has (late index stores) and `Benchmark` adds for
  what its main thread reads of the worker: the other relaxed statistics are read by
  nothing that decides.
- A Reset that meets a callback or the worker: fifteen relaxed stores order nothing, and
  a count may be lost in one counter and kept in another. `app` lets it happen and
  promises nothing of the counters then (`clean`).
- A backend that throws through `workerLoop`: the interface returns a `Result`,
  and the ONNX backend catches what its library throws. What the ONNX backend
  throws outside its handlers (an allocation in `copyAudioChunkToTensor`, which
  asks for no more than `loadModel` did) is left out too.
- Two control threads, and `clearQueuesWhenStopped` during a callback.
- Overflow of the 64-bit counters, floating-point values, time itself.
- What changes nothing a property here looks at: the dummy's gain and polarity (two
  atomics loaded apart, which scale samples), `setSampleRate` and
  `setDummyProcessingDelay` of the pipeline (the rate is stamped on a chunk when it is
  converted), and the reads the timer makes for its labels.
- `LatencyProfiler::reset`, which only tests call, its totals over all stages and the two
  report formats; the benchmark's stages for the ring alone, the ONNX backend and the
  estimator, loops of one thread over parts modelled elsewhere.
- Painting, layout, logging, argument parsing, the build, `Result`.

## Plan

All modules of the plan are written, and all safety properties of their runs proved. What
is left would widen the model: `LatencyProfiler`'s reset and totals, the dummy's gain and
polarity, and the pipeline's two setters, should something come to depend on them.
