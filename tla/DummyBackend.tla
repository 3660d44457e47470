---------------------------- MODULE DummyBackend ----------------------------
(***************************************************************************)
(* src/inference/DummyVoiceConversionBackend.{h,cpp}: the backend of the   *)
(* tests and the benchmark, which scales a block and counts it.  Its       *)
(* counters are atomics of their own; here a call is one step, and whoever *)
(* reads them while a worker counts is told so in the module that does it. *)
(* The samples are those of CallbackSamples (a conversion in place); gain  *)
(* and polarity are left out.                                              *)
(***************************************************************************)
EXTENDS Naturals

VARIABLES modelLoaded, lastProcessMs, totalProcessMs, processedChunks, warmupRuns

dummyVars == <<modelLoaded, lastProcessMs, totalProcessMs, processedChunks, warmupRuns>>

DummyInit ==
  /\ modelLoaded = FALSE
  /\ lastProcessMs = 0 /\ totalProcessMs = 0 /\ processedChunks = 0 /\ warmupRuns = 0

\* The path is empty or one of the dummy's, or it is refused.
LoadModel(accepted) ==
  /\ modelLoaded' = (modelLoaded \/ accepted)
  /\ UNCHANGED <<lastProcessMs, totalProcessMs, processedChunks, warmupRuns>>

\* recordProcessTime, once or for every run of a warm-up.
RecordProcessTime(runs, ms) ==
  /\ lastProcessMs' = ms
  /\ totalProcessMs' = totalProcessMs + runs * ms
  /\ processedChunks' = processedChunks + runs

\* A warm-up on a valid chunk processes it like any other, at least once.
WarmUp(iterations, ms) ==
  LET runCount == IF iterations = 0 THEN 1 ELSE iterations
  IN /\ IF modelLoaded
        THEN RecordProcessTime(runCount, ms) /\ warmupRuns' = warmupRuns + runCount
        ELSE UNCHANGED <<lastProcessMs, totalProcessMs, processedChunks, warmupRuns>>
     /\ UNCHANGED modelLoaded

\* A valid chunk; it fails only without a model, and then counts nothing.
ProcessChunk(ms) ==
  /\ IF modelLoaded
     THEN RecordProcessTime(1, ms)
     ELSE UNCHANGED <<lastProcessMs, totalProcessMs, processedChunks>>
  /\ UNCHANGED <<modelLoaded, warmupRuns>>

\* stats()
DummyStats ==
  [processedChunks |-> processedChunks, warmupRuns |-> warmupRuns,
   average |-> IF processedChunks > 0 THEN <<totalProcessMs, processedChunks>> ELSE <<0, 1>>]
=============================================================================
