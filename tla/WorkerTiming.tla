---------------------------- MODULE WorkerTiming ----------------------------
(***************************************************************************)
(* The timing statistics of src/audio/AudioWorkerPipeline.cpp: after every *)
(* block the worker updates five atomics one after the other, all relaxed, *)
(* the maximum in a compare-and-exchange loop.  resetCounters, on the GUI  *)
(* thread, zeroes the same five one after the other, whenever the user     *)
(* presses Reset: the worker is not stopped for it.                        *)
(*                                                                         *)
(* Durations are whole microseconds, as in the code.                       *)
(***************************************************************************)
EXTENDS Integers

CONSTANTS
  Durations,     \* what one block may take, in microseconds
  MaxBlocks,     \* bound: blocks recorded
  MaxResets      \* bound: calls of resetCounters

ASSUME DurationsAssumption == Durations \subseteq Nat /\ Durations # {}

VARIABLES
  lastWorkerProcessUs, totalWorkerProcessUs, workerProcessedBlocks,
  averageWorkerProcessUs, maxWorkerProcessUs,
  recordStep,                     \* where the worker stands after a block
  elapsedUs, totalUs, processedBlocks, previousMax,   \* its local variables
  resetStep,                      \* the atomic resetCounters zeroes next
  blocks, resets,                 \* calls made so far
  raced                           \* history: the last reset met a block being recorded

shared == <<lastWorkerProcessUs, totalWorkerProcessUs, workerProcessedBlocks,
            averageWorkerProcessUs, maxWorkerProcessUs>>
locals == <<elapsedUs, totalUs, processedBlocks, previousMax>>
calls == <<blocks, resets, raced>>
vars == <<shared, recordStep, locals, resetStep, calls>>

RecordSteps == {"idle", "last", "total", "processed", "average", "loadMax", "max"}
ResetSteps == {"idle", "processed", "last", "total", "average", "max"}

Init ==
  /\ lastWorkerProcessUs = 0 /\ totalWorkerProcessUs = 0 /\ workerProcessedBlocks = 0
  /\ averageWorkerProcessUs = 0 /\ maxWorkerProcessUs = 0
  /\ recordStep = "idle" /\ resetStep = "idle"
  /\ elapsedUs = 0 /\ totalUs = 0 /\ processedBlocks = 0 /\ previousMax = 0
  /\ blocks = 0 /\ resets = 0 /\ raced = FALSE

-----------------------------------------------------------------------------
\* The worker, after a block that took d.

FinishBlock(d) ==
  /\ recordStep = "idle"
  /\ blocks < MaxBlocks
  /\ elapsedUs' = d
  /\ recordStep' = "last"
  /\ blocks' = blocks + 1
  /\ raced' = (raced \/ resetStep # "idle")
  /\ UNCHANGED <<shared, totalUs, processedBlocks, previousMax, resetStep, resets>>

StoreLast ==
  /\ recordStep = "last"
  /\ lastWorkerProcessUs' = elapsedUs
  /\ recordStep' = "total"
  /\ UNCHANGED <<totalWorkerProcessUs, workerProcessedBlocks, averageWorkerProcessUs,
                 maxWorkerProcessUs, locals, resetStep, calls>>

AddTotal ==
  /\ recordStep = "total"
  /\ totalWorkerProcessUs' = totalWorkerProcessUs + elapsedUs
  /\ totalUs' = totalWorkerProcessUs + elapsedUs
  /\ recordStep' = "processed"
  /\ UNCHANGED <<lastWorkerProcessUs, workerProcessedBlocks, averageWorkerProcessUs,
                 maxWorkerProcessUs, elapsedUs, processedBlocks, previousMax, resetStep, calls>>

AddProcessed ==
  /\ recordStep = "processed"
  /\ workerProcessedBlocks' = workerProcessedBlocks + 1
  /\ processedBlocks' = workerProcessedBlocks + 1
  /\ recordStep' = "average"
  /\ UNCHANGED <<lastWorkerProcessUs, totalWorkerProcessUs, averageWorkerProcessUs,
                 maxWorkerProcessUs, elapsedUs, totalUs, previousMax, resetStep, calls>>

StoreAverage ==
  /\ recordStep = "average"
  /\ averageWorkerProcessUs' = totalUs \div processedBlocks
  /\ recordStep' = "loadMax"
  /\ UNCHANGED <<lastWorkerProcessUs, totalWorkerProcessUs, workerProcessedBlocks,
                 maxWorkerProcessUs, locals, resetStep, calls>>

\* Mutant: the comparison is the wrong way round.
LoopOnSmaller(m) == IF elapsedUs < m THEN "max" ELSE "idle"

\* The loop is over as soon as the maximum read is not smaller.
LoopOn(m) == IF elapsedUs > m THEN "max" ELSE "idle"

LoadMax ==
  /\ recordStep = "loadMax"
  /\ previousMax' = maxWorkerProcessUs
  /\ recordStep' = LoopOn(maxWorkerProcessUs)
  /\ UNCHANGED <<shared, elapsedUs, totalUs, processedBlocks, resetStep, calls>>

\* compare_exchange_weak: it stores, or it reads the maximum again, and it may
\* do the latter although nothing changed.
ExchangeMax ==
  /\ recordStep = "max"
  /\ maxWorkerProcessUs = previousMax
  /\ maxWorkerProcessUs' = elapsedUs
  /\ recordStep' = "idle"
  /\ UNCHANGED <<lastWorkerProcessUs, totalWorkerProcessUs, workerProcessedBlocks,
                 averageWorkerProcessUs, locals, resetStep, calls>>

\* Mutant: the expected maximum is not read again.
ExchangeMaxNoReload ==
  /\ recordStep = "max"
  /\ maxWorkerProcessUs # previousMax
  /\ UNCHANGED vars

ExchangeMaxFails ==
  /\ recordStep = "max"
  /\ previousMax' = maxWorkerProcessUs
  /\ recordStep' = LoopOn(maxWorkerProcessUs)
  /\ UNCHANGED <<shared, elapsedUs, totalUs, processedBlocks, resetStep, calls>>

-----------------------------------------------------------------------------
\* resetCounters, the stores this module has, in their order.

BeginReset ==
  /\ resetStep = "idle"
  /\ resets < MaxResets
  /\ resetStep' = "processed"
  /\ resets' = resets + 1
  /\ raced' = (recordStep # "idle")
  /\ UNCHANGED <<shared, recordStep, locals, blocks>>

ResetProcessed ==
  /\ resetStep = "processed"
  /\ workerProcessedBlocks' = 0
  /\ resetStep' = "last"
  /\ UNCHANGED <<lastWorkerProcessUs, totalWorkerProcessUs, averageWorkerProcessUs,
                 maxWorkerProcessUs, recordStep, locals, calls>>

ResetLast ==
  /\ resetStep = "last"
  /\ lastWorkerProcessUs' = 0
  /\ resetStep' = "total"
  /\ UNCHANGED <<totalWorkerProcessUs, workerProcessedBlocks, averageWorkerProcessUs,
                 maxWorkerProcessUs, recordStep, locals, calls>>

\* Mutant: the total is forgotten.
ResetTotalForgotten ==
  /\ resetStep = "total"
  /\ resetStep' = "average"
  /\ UNCHANGED <<shared, recordStep, locals, calls>>

ResetTotal ==
  /\ resetStep = "total"
  /\ totalWorkerProcessUs' = 0
  /\ resetStep' = "average"
  /\ UNCHANGED <<lastWorkerProcessUs, workerProcessedBlocks, averageWorkerProcessUs,
                 maxWorkerProcessUs, recordStep, locals, calls>>

ResetAverage ==
  /\ resetStep = "average"
  /\ averageWorkerProcessUs' = 0
  /\ resetStep' = "max"
  /\ UNCHANGED <<lastWorkerProcessUs, totalWorkerProcessUs, workerProcessedBlocks,
                 maxWorkerProcessUs, recordStep, locals, calls>>

ResetMax ==
  /\ resetStep = "max"
  /\ maxWorkerProcessUs' = 0
  /\ resetStep' = "idle"
  /\ UNCHANGED <<lastWorkerProcessUs, totalWorkerProcessUs, workerProcessedBlocks,
                 averageWorkerProcessUs, recordStep, locals, calls>>

RecordStep ==
  \/ StoreLast \/ AddTotal \/ AddProcessed \/ StoreAverage
  \/ LoadMax \/ ExchangeMax \/ ExchangeMaxFails
ResetStep == ResetProcessed \/ ResetLast \/ ResetTotal \/ ResetAverage \/ ResetMax

Next ==
  \/ \E d \in Durations : FinishBlock(d)
  \/ RecordStep
  \/ BeginReset
  \/ ResetStep

Spec == Init /\ [][Next]_vars

\* Both threads run, and compare_exchange_weak does not fail for ever.
LiveSpec == Spec /\ WF_vars(RecordStep) /\ SF_vars(ExchangeMax) /\ WF_vars(ResetStep)

-----------------------------------------------------------------------------
\* Properties.

\* Every variable has its type.
TypeOK ==
  /\ lastWorkerProcessUs \in Nat /\ totalWorkerProcessUs \in Nat
  /\ workerProcessedBlocks \in Nat
  /\ averageWorkerProcessUs \in Nat /\ maxWorkerProcessUs \in Nat
  /\ elapsedUs \in Nat /\ totalUs \in Nat /\ processedBlocks \in Nat /\ previousMax \in Nat
  /\ recordStep \in RecordSteps /\ resetStep \in ResetSteps
  /\ blocks \in Nat /\ resets \in Nat /\ raced \in BOOLEAN

AtRest == recordStep = "idle" /\ resetStep = "idle"

\* As long as no reset met a block, and again after the next reset that meets
\* none, the durations at rest agree: the maximum covers the last and the average,
\* and the average is that of the blocks counted.
TimesAgree ==
  AtRest /\ ~raced =>
    /\ lastWorkerProcessUs <= maxWorkerProcessUs
    /\ averageWorkerProcessUs <= maxWorkerProcessUs
    /\ IF workerProcessedBlocks = 0 THEN totalWorkerProcessUs = 0
       ELSE averageWorkerProcessUs = totalWorkerProcessUs \div workerProcessedBlocks

\* Even when a reset races with the worker, no duration stays in the total
\* whose block is not counted: resetCounters zeroes the count before the total
\* and the worker adds to the total before the count.  So once both are at rest
\* the averages to come never exceed the longest duration.
TotalIsCovered ==
  AtRest => \E d \in Durations : totalWorkerProcessUs <= d * workerProcessedBlocks

\* The worker leaves its compare-and-exchange loop although resets keep changing
\* the maximum under it.
RecordingEnds == recordStep # "idle" ~> recordStep = "idle"
=============================================================================
