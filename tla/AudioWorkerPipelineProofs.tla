--------------------- MODULE AudioWorkerPipelineProofs ---------------------
(***************************************************************************)
(* Proofs about AudioWorkerPipeline, for every queue capacity, any set of  *)
(* backends, prompt or lagging index stores and any number of callbacks.   *)
(*                                                                         *)
(* Each part of the inductive invariant is proved in a theorem of its own, *)
(* on top of the parts before it.                                          *)
(***************************************************************************)
EXTENDS AudioWorkerPipeline, SequenceTheorems, TLAPS

-----------------------------------------------------------------------------
\* Types.

\* The block of a fresh or cleared scratch buffer is one the queues may hold.
LEMMA EmptyBlockIsBlock == EmptyBlock \in DryBlocks /\ DryBlocks \subseteq Blocks
BY DEF EmptyBlock, Blocks, DryBlocks

\* A lag stays a number when one more store is not yet visible.
LEMMA LagType == ASSUME NEW n \in Nat PROVE In!Lag(n) \in Nat /\ Out!Lag(n) \in Nat
BY DEF In!Lag, Out!Lag

\* Every variable keeps its type: one step per action.
THEOREM TypeCorrect == Spec => []TypeOK
<1> USE EmptyBlockIsBlock DEF AudioSteps, WorkerSteps, ControlSteps
<1>1. Init => TypeOK
  <2> SUFFICES ASSUME Init PROVE TypeOK
    OBVIOUS
  <2>1. QueueTypeOK
    BY DEF Init, In!Init, Out!Init, QueueTypeOK
  <2>2. ThreadTypeOK
    BY DEF Init, ThreadTypeOK
  <2>3. CounterTypeOK
    BY DEF Init, In!Init, Out!Init, CounterTypeOK
  <2> QED BY <2>1, <2>2, <2>3 DEF TypeOK
<1>2. TypeOK /\ [Next]_vars => TypeOK'
  <2> SUFFICES ASSUME TypeOK, [Next]_vars PROVE TypeOK'
    OBVIOUS
  <2> USE DEF TypeOK, inVars, outVars, inputQueueVars, outputQueueVars, audioVars, audioCounters,
              workerVars, workerCounters, controlVars
  <2>1. CASE SubmitSupported
    <3> USE <2>1 DEF SubmitSupported
    <3>0. [sequence |-> nextSequence, by |-> NoBackend] \in DryBlocks
      BY DEF DryBlocks, CounterTypeOK
    <3>1. QueueTypeOK'
      BY <3>0 DEF QueueTypeOK
    <3>2. ThreadTypeOK'
      BY DEF ThreadTypeOK
    <3>3. CounterTypeOK'
      BY DEF CounterTypeOK
    <3> QED BY <3>1, <3>2, <3>3
  <2>2. CASE SubmitUnsupported
    <3> USE <2>2 DEF SubmitUnsupported
    <3>1. QueueTypeOK'
      BY DEF QueueTypeOK
    <3>2. ThreadTypeOK'
      BY DEF ThreadTypeOK
    <3>3. CounterTypeOK'
      BY DEF CounterTypeOK
    <3> QED BY <3>1, <3>2, <3>3
  <2>3. CASE PushInput
    <3> USE <2>3 DEF PushInput, In!TryPush
    <3>0. Append(inputQueue, inputScratch) \in Seq(DryBlocks)
      BY AppendProperties DEF QueueTypeOK
    <3>1. QueueTypeOK'
      BY <3>0 DEF QueueTypeOK
    <3>2. ThreadTypeOK'
      BY DEF ThreadTypeOK
    <3>3. CounterTypeOK'
      <4>1. CASE In!Full
        BY <4>1 DEF CounterTypeOK
      <4>2. CASE ~In!Full
        <5>1. In!Lag(inUnseenPushes) \in Nat
          BY LagType DEF CounterTypeOK
        <5> QED BY <4>2, <5>1 DEF CounterTypeOK
      <4> QED BY <4>1, <4>2
    <3> QED BY <3>1, <3>2, <3>3
  <2>4. ASSUME NEW copied \in BOOLEAN, ConsumeOutput(copied) PROVE TypeOK'
    <3> USE <2>4 DEF ConsumeOutput, Out!TryPop
    <3>0. ~Out!Empty => Head(outputQueue) \in Blocks /\ Tail(outputQueue) \in Seq(Blocks)
      <4>1. ~Out!Empty => outputQueue # <<>>
        BY DEF Out!Empty, CounterTypeOK
      <4> QED BY <4>1, HeadTailProperties DEF QueueTypeOK
    <3>1. QueueTypeOK'
      BY <3>0 DEF QueueTypeOK
    <3>2. ThreadTypeOK'
      BY DEF ThreadTypeOK
    <3>3. CounterTypeOK'
      <4>1. CASE Out!Empty
        BY <4>1 DEF CounterTypeOK
      <4>2. CASE ~Out!Empty
        <5>1. Out!Lag(outUnseenPops) \in Nat
          BY LagType DEF CounterTypeOK
        <5> QED BY <4>2, <5>1 DEF CounterTypeOK
      <4> QED BY <4>1, <4>2
    <3> QED BY <3>1, <3>2, <3>3
  <2>5. CASE CheckRunning
    <3> USE <2>5 DEF CheckRunning
    <3>1. QueueTypeOK'
      BY DEF QueueTypeOK
    <3>2. ThreadTypeOK'
      BY DEF ThreadTypeOK
    <3>3. CounterTypeOK'
      BY DEF CounterTypeOK
    <3> QED BY <3>1, <3>2, <3>3
  <2>6. CASE LookForInput
    <3> USE <2>6 DEF LookForInput
    <3>1. QueueTypeOK'
      BY DEF QueueTypeOK
    <3>2. ThreadTypeOK'
      BY DEF ThreadTypeOK
    <3>3. CounterTypeOK'
      BY DEF CounterTypeOK
    <3> QED BY <3>1, <3>2, <3>3
  <2>7. CASE PopInput
    <3> USE <2>7 DEF PopInput, In!TryPop
    <3>0. ~In!Empty => Head(inputQueue) \in DryBlocks /\ Tail(inputQueue) \in Seq(DryBlocks)
      <4>1. ~In!Empty => inputQueue # <<>>
        BY DEF In!Empty, CounterTypeOK
      <4> QED BY <4>1, HeadTailProperties DEF QueueTypeOK
    <3>1. QueueTypeOK'
      BY <3>0 DEF QueueTypeOK
    <3>2. ThreadTypeOK'
      BY DEF ThreadTypeOK
    <3>3. CounterTypeOK'
      <4>1. CASE In!Empty
        BY <4>1 DEF CounterTypeOK
      <4>2. CASE ~In!Empty
        <5>1. In!Lag(inUnseenPops) \in Nat
          BY LagType DEF CounterTypeOK
        <5> QED BY <4>2, <5>1 DEF CounterTypeOK
      <4> QED BY <4>1, <4>2
    <3> QED BY <3>1, <3>2, <3>3
  <2>8. ASSUME NEW converted \in BOOLEAN, Process(converted) PROVE TypeOK'
    <3> USE <2>8 DEF Process
    <3>0. [input EXCEPT !.by = backend] \in Blocks
      BY DEF Blocks, DryBlocks, QueueTypeOK, ThreadTypeOK
    <3>1. QueueTypeOK'
      BY <3>0 DEF QueueTypeOK
    <3>2. ThreadTypeOK'
      BY DEF ThreadTypeOK
    <3>3. CounterTypeOK'
      BY DEF CounterTypeOK
    <3> QED BY <3>1, <3>2, <3>3
  <2>9. CASE PushOutput
    <3> USE <2>9 DEF PushOutput, Out!TryPush
    <3>0. Append(outputQueue, output) \in Seq(Blocks)
      BY AppendProperties DEF QueueTypeOK
    <3>1. QueueTypeOK'
      BY <3>0 DEF QueueTypeOK
    <3>2. ThreadTypeOK'
      BY DEF ThreadTypeOK
    <3>3. CounterTypeOK'
      <4>1. CASE Out!Full
        BY <4>1 DEF CounterTypeOK
      <4>2. CASE ~Out!Full
        <5>1. Out!Lag(outUnseenPushes) \in Nat
          BY LagType DEF CounterTypeOK
        <5> QED BY <4>2, <5>1 DEF CounterTypeOK
      <4> QED BY <4>1, <4>2
    <3> QED BY <3>1, <3>2, <3>3
  <2>10. CASE CountProcessed
    <3> USE <2>10 DEF CountProcessed
    <3>1. QueueTypeOK'
      BY DEF QueueTypeOK
    <3>2. ThreadTypeOK'
      BY DEF ThreadTypeOK
    <3>3. CounterTypeOK'
      BY DEF CounterTypeOK
    <3> QED BY <3>1, <3>2, <3>3
  <2>11. CASE Start
    <3> USE <2>11 DEF Start
    <3>1. QueueTypeOK'
      BY DEF QueueTypeOK
    <3>2. ThreadTypeOK'
      BY DEF ThreadTypeOK
    <3>3. CounterTypeOK'
      BY DEF CounterTypeOK
    <3> QED BY <3>1, <3>2, <3>3
  <2>12. CASE Spawn
    <3> USE <2>12 DEF Spawn
    <3>1. QueueTypeOK'
      BY DEF QueueTypeOK
    <3>2. ThreadTypeOK'
      BY DEF ThreadTypeOK
    <3>3. CounterTypeOK'
      BY DEF CounterTypeOK
    <3> QED BY <3>1, <3>2, <3>3
  <2>13. CASE SpawnFails
    <3> USE <2>13 DEF SpawnFails
    <3>1. QueueTypeOK'
      BY DEF QueueTypeOK
    <3>2. ThreadTypeOK'
      BY DEF ThreadTypeOK
    <3>3. CounterTypeOK'
      BY DEF CounterTypeOK
    <3> QED BY <3>1, <3>2, <3>3
  <2>14. CASE Stop
    <3> USE <2>14 DEF Stop
    <3>1. QueueTypeOK'
      BY DEF QueueTypeOK
    <3>2. ThreadTypeOK'
      BY DEF ThreadTypeOK
    <3>3. CounterTypeOK'
      BY DEF CounterTypeOK
    <3> QED BY <3>1, <3>2, <3>3
  <2>15. CASE Join
    <3> USE <2>15 DEF Join
    <3>1. QueueTypeOK'
      BY DEF QueueTypeOK
    <3>2. ThreadTypeOK'
      BY DEF ThreadTypeOK
    <3>3. CounterTypeOK'
      BY DEF CounterTypeOK
    <3> QED BY <3>1, <3>2, <3>3
  <2>16. ASSUME NEW b \in Backends \cup {NoBackend}, SetInferenceBackend(b) PROVE TypeOK'
    <3> USE <2>16 DEF SetInferenceBackend
    <3>1. QueueTypeOK'
      BY DEF QueueTypeOK
    <3>2. ThreadTypeOK'
      BY DEF ThreadTypeOK
    <3>3. CounterTypeOK'
      BY DEF CounterTypeOK
    <3> QED BY <3>1, <3>2, <3>3
  <2>17. CASE ClearQueuesWhenStopped
    <3> USE <2>17 DEF ClearQueuesWhenStopped, In!Reset, Out!Reset
    <3>1. QueueTypeOK'
      BY DEF QueueTypeOK
    <3>2. ThreadTypeOK'
      BY DEF ThreadTypeOK
    <3>3. CounterTypeOK'
      <4>1. Len(inputQueue) \in Nat /\ Len(outputQueue) \in Nat
        BY LenProperties DEF QueueTypeOK
      <4> QED BY <4>1 DEF CounterTypeOK
    <3> QED BY <3>1, <3>2, <3>3
  <2>18. CASE Notice
    <3> USE <2>18 DEF Notice, In!NoticePops, In!NoticePushes, Out!NoticePops, Out!NoticePushes
    <3>1. QueueTypeOK'
      BY DEF QueueTypeOK
    <3>2. ThreadTypeOK'
      BY DEF ThreadTypeOK
    <3>3. CounterTypeOK'
      <4>1. CASE In!NoticePops
        BY <4>1 DEF CounterTypeOK
      <4>2. CASE In!NoticePushes
        BY <4>2 DEF CounterTypeOK
      <4>3. CASE Out!NoticePops
        BY <4>3 DEF CounterTypeOK
      <4>4. CASE Out!NoticePushes
        BY <4>4 DEF CounterTypeOK
      <4> QED BY <4>1, <4>2, <4>3, <4>4
    <3> QED BY <3>1, <3>2, <3>3
  <2>19. CASE UNCHANGED vars
    <3> USE <2>19 DEF vars
    <3>1. QueueTypeOK'
      BY DEF QueueTypeOK
    <3>2. ThreadTypeOK'
      BY DEF ThreadTypeOK
    <3>3. CounterTypeOK'
      BY DEF CounterTypeOK
    <3> QED BY <3>1, <3>2, <3>3
  <2> QED BY <2>1, <2>2, <2>3, <2>4, <2>5, <2>6, <2>7, <2>8, <2>9, <2>10, <2>11, <2>12, <2>13,
             <2>14, <2>15, <2>16, <2>17, <2>18, <2>19
          DEF Next, AudioStep, WorkerStep, ControlStep
<1> QED BY <1>1, <1>2, PTL DEF Spec

-----------------------------------------------------------------------------
\* The control thread and the worker.

\* The control thread always knows whether there is a worker.
THEOREM ControlInvariance == Spec => []ControlKnowsWorker
<1> USE DEF ControlKnowsWorker, Joinable
<1>1. Init => ControlKnowsWorker
  BY DEF Init
<1>2. ControlKnowsWorker /\ [Next]_vars => ControlKnowsWorker'
  <2> SUFFICES ASSUME ControlKnowsWorker, [Next]_vars PROVE ControlKnowsWorker'
    OBVIOUS
  <2> USE DEF controlVars, workerVars
  <2>1. CASE SubmitSupported \/ SubmitUnsupported
    BY <2>1 DEF SubmitSupported, SubmitUnsupported
  <2>2. CASE AudioStep
    BY <2>2 DEF AudioStep, PushInput, ConsumeOutput
  <2>3. CASE WorkerStep
    BY <2>3 DEF WorkerStep, CheckRunning, LookForInput, PopInput, Process, PushOutput,
                CountProcessed
  <2>4. CASE Start \/ Stop
    BY <2>4 DEF Start, Stop
  <2>5. CASE ControlStep
    BY <2>5 DEF ControlStep, Spawn, SpawnFails, Join
  <2>6. ASSUME NEW b \in Backends \cup {NoBackend}, SetInferenceBackend(b)
        PROVE ControlKnowsWorker'
    BY <2>6 DEF SetInferenceBackend
  <2>7. CASE ClearQueuesWhenStopped
    BY <2>7 DEF ClearQueuesWhenStopped
  <2>8. CASE Notice
    BY <2>8 DEF Notice
  <2>9. CASE UNCHANGED vars
    BY <2>9 DEF vars
  <2> QED BY <2>1, <2>2, <2>3, <2>4, <2>5, <2>6, <2>7, <2>8, <2>9 DEF Next
<1> QED BY <1>1, <1>2, PTL DEF Spec

\* A stopped pipeline has no worker thread, and no thread is created over another.
THEOREM Quiescence == Spec => []StoppedIsQuiescent
<1>1. ControlKnowsWorker => StoppedIsQuiescent
  BY DEF ControlKnowsWorker, StoppedIsQuiescent
<1> QED BY <1>1, ControlInvariance, PTL

\* The backend is never replaced under a worker.
THEOREM BackendStability == Spec => BackendStable
<1>1. ControlKnowsWorker /\ [Next]_vars => [backend' # backend => ~Joinable]_vars
  <2> SUFFICES ASSUME ControlKnowsWorker, Next, backend' # backend PROVE ~Joinable
    OBVIOUS
  <2>1. PICK b \in Backends \cup {NoBackend} : SetInferenceBackend(b)
    <3> USE DEF controlVars
    <3>1. ~SubmitSupported /\ ~SubmitUnsupported
      BY DEF SubmitSupported, SubmitUnsupported
    <3>2. ~AudioStep
      BY DEF AudioStep, PushInput, ConsumeOutput
    <3>3. ~WorkerStep
      BY DEF WorkerStep, CheckRunning, LookForInput, PopInput, Process, PushOutput, CountProcessed
    <3>4. ~Start /\ ~Stop /\ ~ControlStep
      BY DEF Start, Stop, ControlStep, Spawn, SpawnFails, Join
    <3>5. ~ClearQueuesWhenStopped /\ ~Notice
      BY DEF ClearQueuesWhenStopped, Notice
    <3> QED BY <3>1, <3>2, <3>3, <3>4, <3>5 DEF Next
  <2> QED BY <2>1 DEF SetInferenceBackend, ControlKnowsWorker
<1> QED BY <1>1, ControlInvariance, PTL DEF Spec, BackendStable

-----------------------------------------------------------------------------
\* The worker.

\* What the worker saw in the queue stays there until it pops it: the callback
\* only adds, the view only gets better, and nobody clears under a worker.
THEOREM WorkerPops == Spec => [](WorkerHasInput /\ WorkerPopSucceeds)
<1> DEFINE WInv == WorkerHasInput /\ WorkerPopSucceeds
<1>1. Init => WInv
  BY DEF Init, In!Init, WorkerHasInput, WorkerPopSucceeds
<1>2. TypeOK /\ ControlKnowsWorker /\ WInv /\ [Next]_vars => WInv'
  <2> SUFFICES ASSUME TypeOK, ControlKnowsWorker, WInv, [Next]_vars PROVE WInv'
    OBVIOUS
  <2> USE DEF WorkerHasInput, WorkerPopSucceeds, inVars, inputQueueVars, workerVars
  <2>0. /\ Len(inputQueue) \in Nat /\ inUnseenPushes \in Nat
        /\ inputQueue \in Seq(DryBlocks) /\ inputScratch \in DryBlocks
    BY LenProperties DEF TypeOK, QueueTypeOK, CounterTypeOK
  <2>1. CASE SubmitSupported \/ SubmitUnsupported
    BY <2>1 DEF SubmitSupported, SubmitUnsupported, In!Empty
  <2>2. CASE PushInput
    <3> USE <2>2 DEF PushInput, In!TryPush
    <3>1. CASE In!Full
      BY <3>1 DEF In!Empty
    <3>2. CASE ~In!Full
      <4>1. Len(inputQueue') = Len(inputQueue) + 1
        BY <2>0, <3>2, AppendProperties
      <4>2. inUnseenPushes' \in Nat /\ inUnseenPushes' <= inUnseenPushes + 1
        BY <2>0, <3>2 DEF In!Lag
      <4>3. ~In!Empty => ~In!Empty'
        BY <2>0, <4>1, <4>2 DEF In!Empty, In!Lag
      <4> QED BY <4>3
    <3> QED BY <3>1, <3>2
  <2>3. ASSUME NEW copied \in BOOLEAN, ConsumeOutput(copied) PROVE WInv'
    BY <2>3 DEF ConsumeOutput, In!Empty
  <2>4. CASE PopInput
    BY <2>4 DEF PopInput, In!TryPop
  <2>5. CASE LookForInput
    BY <2>5 DEF LookForInput, In!Empty
  <2>6. CASE CheckRunning \/ PushOutput \/ CountProcessed
    BY <2>6 DEF CheckRunning, PushOutput, CountProcessed
  <2>7. ASSUME NEW converted \in BOOLEAN, Process(converted) PROVE WInv'
    BY <2>7 DEF Process
  <2>8. CASE Start \/ Stop \/ SpawnFails
    BY <2>8 DEF Start, Stop, SpawnFails, In!Empty
  <2>9. CASE Spawn
    BY <2>9 DEF Spawn
  <2>10. CASE Join
    BY <2>10 DEF Join
  <2>11. ASSUME NEW b \in Backends \cup {NoBackend}, SetInferenceBackend(b) PROVE WInv'
    BY <2>11 DEF SetInferenceBackend, In!Empty
  <2>12. CASE ClearQueuesWhenStopped
    BY <2>12 DEF ClearQueuesWhenStopped, In!Reset, ControlKnowsWorker, Joinable
  <2>13. CASE Notice
    <3> USE <2>13 DEF Notice
    <3>1. CASE In!NoticePops
      BY <3>1 DEF In!NoticePops, In!Empty
    <3>2. CASE In!NoticePushes
      <4>1. inUnseenPushes' \in Nat /\ inUnseenPushes' < inUnseenPushes /\ inputQueue' = inputQueue
        BY <2>0, <3>2 DEF In!NoticePushes
      <4>2. ~In!Empty => ~In!Empty'
        BY <2>0, <4>1 DEF In!Empty
      <4> QED BY <3>2, <4>2 DEF In!NoticePushes
    <3>3. CASE UNCHANGED inVars
      BY <3>3 DEF In!Empty
    <3> QED BY <3>1, <3>2, <3>3
  <2>14. CASE UNCHANGED vars
    BY <2>14 DEF vars, In!Empty
  <2> QED BY <2>1, <2>2, <2>3, <2>4, <2>5, <2>6, <2>7, <2>8, <2>9, <2>10, <2>11, <2>12, <2>13,
             <2>14 DEF Next, AudioStep, WorkerStep, ControlStep
<1> QED BY <1>1, <1>2, TypeCorrect, ControlInvariance, PTL DEF Spec

\* What the worker pushes is made from the block it popped.
THEOREM OutputFreshness == Spec => []OutputIsFresh
<1>1. Init => OutputIsFresh
  BY DEF Init, OutputIsFresh
<1>2. TypeOK /\ ControlKnowsWorker /\ OutputIsFresh /\ [Next]_vars => OutputIsFresh'
  <2> SUFFICES ASSUME TypeOK, ControlKnowsWorker, OutputIsFresh, [Next]_vars PROVE OutputIsFresh'
    OBVIOUS
  <2> USE DEF OutputIsFresh, inVars, workerVars, controlVars
  <2>1. CASE SubmitSupported \/ SubmitUnsupported
    BY <2>1 DEF SubmitSupported, SubmitUnsupported
  <2>2. CASE PushInput
    BY <2>2 DEF PushInput, In!TryPush
  <2>3. ASSUME NEW copied \in BOOLEAN, ConsumeOutput(copied) PROVE OutputIsFresh'
    BY <2>3 DEF ConsumeOutput
  <2>4. CASE CheckRunning \/ LookForInput \/ PopInput \/ PushOutput \/ CountProcessed
    BY <2>4 DEF CheckRunning, LookForInput, PopInput, PushOutput, CountProcessed
  <2>5. ASSUME NEW converted \in BOOLEAN, Process(converted) PROVE OutputIsFresh'
    <3>1. /\ [input EXCEPT !.by = backend].sequence = input.sequence
          /\ [input EXCEPT !.by = backend].by = backend
      BY DEF TypeOK, QueueTypeOK, DryBlocks
    <3>2. input.by = NoBackend
      BY DEF TypeOK, QueueTypeOK, DryBlocks
    <3> QED BY <2>5, <3>1, <3>2 DEF Process
  <2>6. CASE Start \/ Stop \/ SpawnFails
    BY <2>6 DEF Start, Stop, SpawnFails
  <2>7. CASE Spawn \/ Join
    BY <2>7 DEF Spawn, Join
  <2>8. ASSUME NEW b \in Backends \cup {NoBackend}, SetInferenceBackend(b) PROVE OutputIsFresh'
    BY <2>8 DEF SetInferenceBackend, ControlKnowsWorker, Joinable
  <2>9. CASE ClearQueuesWhenStopped
    BY <2>9 DEF ClearQueuesWhenStopped
  <2>10. CASE Notice
    BY <2>10 DEF Notice, In!NoticePops, In!NoticePushes
  <2>11. CASE UNCHANGED vars
    BY <2>11 DEF vars
  <2> QED BY <2>1, <2>2, <2>3, <2>4, <2>5, <2>6, <2>7, <2>8, <2>9, <2>10, <2>11
          DEF Next, AudioStep, WorkerStep, ControlStep
<1> QED BY <1>1, <1>2, TypeCorrect, ControlInvariance, PTL DEF Spec

-----------------------------------------------------------------------------
\* The accounts.

\* Every callback takes one number, and ends with one output or one late output.
THEOREM CallsAnswered == Spec => []CallsAreAnswered
<1>1. Init => CallsAreAnswered
  BY DEF Init, CallsAreAnswered, OneIf
<1>2. TypeOK /\ CallsAreAnswered /\ [Next]_vars => CallsAreAnswered'
  <2> SUFFICES ASSUME TypeOK, CallsAreAnswered, [Next]_vars PROVE CallsAreAnswered'
    OBVIOUS
  <2>0. CounterTypeOK
    BY DEF TypeOK
  <2> USE <2>0 DEF CounterTypeOK, CallsAreAnswered, OneIf, audioVars, audioCounters
  <2>1. CASE SubmitSupported
    BY <2>1 DEF SubmitSupported
  <2>2. CASE SubmitUnsupported
    BY <2>2 DEF SubmitUnsupported
  <2>3. CASE PushInput
    BY <2>3 DEF PushInput
  <2>4. ASSUME NEW copied \in BOOLEAN, ConsumeOutput(copied) PROVE CallsAreAnswered'
    BY <2>4 DEF ConsumeOutput
  <2>5. CASE WorkerStep
    BY <2>5 DEF WorkerStep, CheckRunning, LookForInput, PopInput, Process, PushOutput,
                CountProcessed
  <2>6. CASE Start \/ Stop \/ ControlStep
    BY <2>6 DEF Start, Stop, ControlStep, Spawn, SpawnFails, Join
  <2>7. ASSUME NEW b \in Backends \cup {NoBackend}, SetInferenceBackend(b)
        PROVE CallsAreAnswered'
    BY <2>7 DEF SetInferenceBackend
  <2>8. CASE ClearQueuesWhenStopped
    BY <2>8 DEF ClearQueuesWhenStopped
  <2>9. CASE Notice
    BY <2>9 DEF Notice
  <2>10. CASE UNCHANGED vars
    BY <2>10 DEF vars
  <2> QED BY <2>1, <2>2, <2>3, <2>4, <2>5, <2>6, <2>7, <2>8, <2>9, <2>10 DEF Next, AudioStep
<1> QED BY <1>1, <1>2, TypeCorrect, PTL DEF Spec

\* Every block is somewhere, once.
THEOREM Conservation == Spec => []BlocksConserved
<1> USE DEF BlocksConserved, OneIf, Holding
<1>1. Init => BlocksConserved
  BY DEF Init, In!Init, Out!Init
<1>2. TypeOK /\ ControlKnowsWorker /\ WorkerHasInput /\ BlocksConserved /\ [Next]_vars
        => BlocksConserved'
  <2> SUFFICES ASSUME TypeOK, ControlKnowsWorker, WorkerHasInput, BlocksConserved, [Next]_vars
               PROVE  BlocksConserved'
    OBVIOUS
  <2>0. CounterTypeOK /\ Len(inputQueue) \in Nat /\ Len(outputQueue) \in Nat
    BY LenProperties DEF TypeOK, QueueTypeOK
  <2>a. \A x \in DryBlocks : Len(Append(inputQueue, x)) = Len(inputQueue) + 1
    BY AppendProperties DEF TypeOK, QueueTypeOK
  <2>b. \A x \in Blocks : Len(Append(outputQueue, x)) = Len(outputQueue) + 1
    BY AppendProperties DEF TypeOK, QueueTypeOK
  <2>c. ~In!Empty => Len(Tail(inputQueue)) = Len(inputQueue) - 1
    <3>1. ~In!Empty => inputQueue # <<>>
      BY <2>0 DEF In!Empty, CounterTypeOK
    <3> QED BY <3>1, HeadTailProperties DEF TypeOK, QueueTypeOK
  <2>d. ~Out!Empty => Len(Tail(outputQueue)) = Len(outputQueue) - 1
    <3>1. ~Out!Empty => outputQueue # <<>>
      BY <2>0 DEF Out!Empty, CounterTypeOK
    <3> QED BY <3>1, HeadTailProperties DEF TypeOK, QueueTypeOK
  <2>e. inputScratch \in DryBlocks /\ output \in Blocks
    BY DEF TypeOK, QueueTypeOK
  <2> USE <2>0 DEF CounterTypeOK, inVars, outVars, inputQueueVars, outputQueueVars, audioVars,
                   audioCounters, workerVars, workerCounters, controlVars
  <2>1. CASE SubmitSupported
    BY <2>1 DEF SubmitSupported
  <2>2. CASE SubmitUnsupported
    BY <2>2 DEF SubmitUnsupported
  <2>3. CASE PushInput
    <3> USE <2>3 DEF PushInput, In!TryPush
    <3>1. CASE In!Full
      BY <3>1
    <3>2. CASE ~In!Full
      <4>1. Len(inputQueue') = Len(inputQueue) + 1 /\ droppedInputBlocks' = droppedInputBlocks
        BY <3>2, <2>a, <2>e
      <4> QED BY <4>1
    <3> QED BY <3>1, <3>2
  <2>4. ASSUME NEW copied \in BOOLEAN, ConsumeOutput(copied) PROVE BlocksConserved'
    <3> USE <2>4 DEF ConsumeOutput, Out!TryPop
    <3>1. CASE Out!Empty
      BY <3>1
    <3>2. CASE ~Out!Empty
      <4>1. /\ Len(outputQueue') = Len(outputQueue) - 1
            /\ consumedOutputBlocks' = consumedOutputBlocks + 1
        BY <3>2, <2>d
      <4> QED BY <4>1
    <3> QED BY <3>1, <3>2
  <2>5. CASE CheckRunning \/ LookForInput
    BY <2>5 DEF CheckRunning, LookForInput
  <2>6. CASE PopInput
    BY <2>6, <2>c DEF PopInput, In!TryPop, WorkerHasInput
  <2>7. ASSUME NEW converted \in BOOLEAN, Process(converted) PROVE BlocksConserved'
    BY <2>7 DEF Process
  <2>8. CASE PushOutput
    BY <2>8, <2>b, <2>e DEF PushOutput, Out!TryPush
  <2>9. CASE CountProcessed
    <3>1. /\ workerStep = "count" /\ workerStep' = "check"
          /\ workerProcessedBlocks' = workerProcessedBlocks + 1
      BY <2>9 DEF CountProcessed
    <3>2. UNCHANGED <<submittedBlocks, unsupportedInputBlocks, audioStep, droppedInputBlocks,
                      clearedInput, inputQueue, droppedOutputBlocks, clearedOutput, outputQueue,
                      consumedOutputBlocks>>
      BY <2>9 DEF CountProcessed
    <3>3. /\ (Holding \/ workerStep = "count") /\ workerStep = "count"
          /\ ~ (Holding' \/ workerStep' = "count") /\ ~ (workerStep' = "count")
      BY <3>1
    <3>4. /\ submittedBlocks + unsupportedInputBlocks =
               OneIf(audioStep = "push") + droppedInputBlocks + clearedInput + Len(inputQueue)
               + 1 + workerProcessedBlocks
      BY <3>3
    <3>5. workerProcessedBlocks + 1 =
            droppedOutputBlocks + clearedOutput + Len(outputQueue) + consumedOutputBlocks
      BY <3>3
    <3>6. /\ submittedBlocks' + unsupportedInputBlocks' =
               OneIf(audioStep' = "push") + droppedInputBlocks' + clearedInput' + Len(inputQueue')
               + 0 + workerProcessedBlocks'
      <4> DEFINE rest == OneIf(audioStep = "push") + droppedInputBlocks + clearedInput
                         + Len(inputQueue)
      <4>1. rest \in Nat
        OBVIOUS
      <4>2. rest' = rest
        BY <3>2
      <4> HIDE DEF rest
      <4>3. rest + 1 + workerProcessedBlocks = rest + 0 + (workerProcessedBlocks + 1)
        BY <4>1
      <4>4. submittedBlocks + unsupportedInputBlocks = rest + 1 + workerProcessedBlocks
        BY <3>4 DEF rest
      <4>5. submittedBlocks' + unsupportedInputBlocks' = rest' + 0 + workerProcessedBlocks'
        BY <3>1, <3>2, <4>2, <4>3, <4>4
      <4> QED BY <4>5 DEF rest
    <3>7. workerProcessedBlocks' + 0 =
            droppedOutputBlocks' + clearedOutput' + Len(outputQueue') + consumedOutputBlocks'
      BY <3>1, <3>2, <3>5
    <3> QED BY <3>3, <3>6, <3>7
  <2>10. CASE Start \/ Stop \/ SpawnFails
    BY <2>10 DEF Start, Stop, SpawnFails
  <2>11. CASE Spawn
    BY <2>11 DEF Spawn, ControlKnowsWorker, Joinable
  <2>12. CASE Join
    BY <2>12 DEF Join
  <2>13. ASSUME NEW b \in Backends \cup {NoBackend}, SetInferenceBackend(b)
         PROVE BlocksConserved'
    BY <2>13 DEF SetInferenceBackend
  <2>14. CASE ClearQueuesWhenStopped
    BY <2>14 DEF ClearQueuesWhenStopped, In!Reset, Out!Reset
  <2>15. CASE Notice
    BY <2>15 DEF Notice, In!NoticePops, In!NoticePushes, Out!NoticePops, Out!NoticePushes
  <2>16. CASE UNCHANGED vars
    BY <2>16 DEF vars
  <2> QED BY <2>1, <2>2, <2>3, <2>4, <2>5, <2>6, <2>7, <2>8, <2>9, <2>10, <2>11, <2>12, <2>13,
             <2>14, <2>15, <2>16 DEF Next, AudioStep, WorkerStep, ControlStep
<1> QED BY <1>1, <1>2, TypeCorrect, ControlInvariance, WorkerPops, PTL DEF Spec

\* Between callbacks the backlog is the lateness less what was dropped or cleared.
THEOREM Lateness == Spec => []BacklogIsLateness
<1>1. TypeOK /\ BlocksConserved /\ CallsAreAnswered => BacklogIsLateness
  <2> SUFFICES ASSUME TypeOK, BlocksConserved, CallsAreAnswered, audioStep = "idle"
               PROVE  lateOutputBlocks = Backlog + droppedInputBlocks + droppedOutputBlocks
                                         + clearedInput + clearedOutput
    BY DEF BacklogIsLateness
  <2>1. CounterTypeOK /\ Len(inputQueue) \in Nat /\ Len(outputQueue) \in Nat
    BY LenProperties DEF TypeOK, QueueTypeOK
  <2> QED BY <2>1 DEF CounterTypeOK, BlocksConserved, CallsAreAnswered, Backlog, Holding, OneIf
<1> QED BY <1>1, TypeCorrect, Conservation, CallsAnswered, PTL

\* The conjunction of all parts.
THEOREM Invariance == Spec => []IInv
BY TypeCorrect, ControlInvariance, WorkerPops, OutputFreshness, Conservation, CallsAnswered, PTL
   DEF IInv

-----------------------------------------------------------------------------
(***************************************************************************)
(* The pipeline is a delay line: how old the block is that a callback      *)
(* returns, and that every step of AudioWorkerPipeline is a step of        *)
(* AudioDelayLine or changes nothing of it.  First every step is reduced   *)
(* to what it moves; what follows speaks of moves only.                    *)
(***************************************************************************)

-----------------------------------------------------------------------------
\* Moves.

\* Nothing leaves its place, or the audio thread stands still.
LineStays ==
  /\ UNCHANGED <<inputQueue, outputQueue, outputScratch>>
  /\ Holding' = Holding /\ (Holding => input' = input)
AudioStays == UNCHANGED <<audioStep, inputScratch, nextSequence, consumedOutputBlocks>>

TakesNumber ==
  /\ LineStays /\ UNCHANGED consumedOutputBlocks
  /\ audioStep = "idle" /\ nextSequence' = nextSequence + 1
  /\ \/ audioStep' = "push" /\ inputScratch'.sequence = nextSequence
     \/ audioStep' = "consume"

Refused ==
  /\ LineStays /\ UNCHANGED <<nextSequence, consumedOutputBlocks>>
  /\ audioStep = "push" /\ audioStep' = "consume"

Accepted ==
  /\ audioStep = "push" /\ audioStep' = "consume"
  /\ Len(inputQueue) < QueueCapacity
  /\ inputQueue' = Append(inputQueue, inputScratch)
  /\ UNCHANGED <<outputQueue, outputScratch, nextSequence, consumedOutputBlocks>>
  /\ Holding' = Holding /\ (Holding => input' = input)

Late ==
  /\ LineStays /\ UNCHANGED <<nextSequence, consumedOutputBlocks>>
  /\ audioStep = "consume" /\ audioStep' = "idle"

Consumed ==
  /\ audioStep = "consume" /\ audioStep' = "idle"
  /\ outputQueue # <<>>
  /\ outputScratch' = Head(outputQueue) /\ outputQueue' = Tail(outputQueue)
  /\ consumedOutputBlocks' = consumedOutputBlocks + 1
  /\ UNCHANGED <<inputQueue, nextSequence>>
  /\ Holding' = Holding /\ (Holding => input' = input)

Popped ==
  /\ AudioStays
  /\ ~Holding /\ Holding'
  /\ inputQueue # <<>>
  /\ input' = Head(inputQueue) /\ inputQueue' = Tail(inputQueue)
  /\ UNCHANGED <<outputQueue, outputScratch>>

Pushed ==
  /\ AudioStays
  /\ Holding /\ ~Holding'
  /\ Len(outputQueue) < QueueCapacity
  /\ output.sequence = input.sequence
  /\ outputQueue' = Append(outputQueue, output)
  /\ UNCHANGED <<inputQueue, outputScratch>>

Dropped ==
  /\ AudioStays
  /\ Holding /\ ~Holding'
  /\ Len(outputQueue) + outUnseenPops >= QueueCapacity
  /\ UNCHANGED <<inputQueue, outputQueue, outputScratch>>

Cleared ==
  /\ UNCHANGED <<audioStep, nextSequence, consumedOutputBlocks>>
  /\ audioStep = "idle" /\ ~Holding /\ ~Holding'
  /\ inputQueue' = <<>> /\ outputQueue' = <<>> /\ outputScratch' = EmptyBlock

Move ==
  \/ TakesNumber \/ Refused \/ Accepted \/ Late \/ Consumed
  \/ Popped \/ Pushed \/ Dropped \/ Cleared
  \/ LineStays /\ AudioStays

\* Every step is a move.
LEMMA StepMoves ==
  ASSUME TypeOK, ControlKnowsWorker, WorkerHasInput, OutputIsFresh, [Next]_vars
  PROVE  Move
<1> USE DEF inVars, outVars, inputQueueVars, outputQueueVars, audioVars, audioCounters,
            workerVars, workerCounters, controlVars, Holding, LineStays, AudioStays
<1>0. CounterTypeOK /\ Len(inputQueue) \in Nat /\ Len(outputQueue) \in Nat
      /\ QueueCapacity \in Nat
  BY LenProperties, QueueCapacityAssumption DEF TypeOK, QueueTypeOK
<1>1. CASE SubmitSupported
  BY <1>1 DEF SubmitSupported, Move, TakesNumber
<1>2. CASE SubmitUnsupported
  BY <1>2 DEF SubmitUnsupported, Move, TakesNumber
<1>3. CASE PushInput
  <2>1. CASE In!Full
    <3>1. Refused
      BY <1>3, <2>1 DEF PushInput, In!TryPush, Refused
    <3> QED BY <3>1 DEF Move
  <2>2. CASE ~In!Full
    <3>1. Len(inputQueue) < QueueCapacity
      BY <1>0, <2>2 DEF In!Full, CounterTypeOK
    <3>2. Accepted
      BY <1>3, <2>2, <3>1 DEF PushInput, In!TryPush, Accepted
    <3> QED BY <3>2 DEF Move
  <2> QED BY <2>1, <2>2
<1>4. ASSUME NEW copied \in BOOLEAN, ConsumeOutput(copied) PROVE Move
  <2>1. CASE Out!Empty
    <3>1. Late
      BY <1>4, <2>1 DEF ConsumeOutput, Out!TryPop, Late
    <3> QED BY <3>1 DEF Move
  <2>2. CASE ~Out!Empty
    <3>1. outputQueue # <<>>
      BY <1>0, <2>2 DEF Out!Empty, CounterTypeOK
    <3>2. Consumed
      BY <1>4, <2>2, <3>1 DEF ConsumeOutput, Out!TryPop, Consumed
    <3> QED BY <3>2 DEF Move
  <2> QED BY <2>1, <2>2
<1>5. CASE CheckRunning
  BY <1>5 DEF CheckRunning, Move
<1>6. CASE LookForInput
  BY <1>6 DEF LookForInput, Move
<1>7. CASE PopInput
  <2>1. ~In!Empty
    BY <1>7 DEF PopInput, WorkerHasInput
  <2>2. inputQueue # <<>>
    BY <1>0, <2>1 DEF In!Empty, CounterTypeOK
  <2>3. Popped
    BY <1>7, <2>1, <2>2 DEF PopInput, In!TryPop, Popped
  <2> QED BY <2>3 DEF Move
<1>8. ASSUME NEW converted \in BOOLEAN, Process(converted) PROVE Move
  BY <1>8 DEF Process, Move
<1>9. CASE PushOutput
  <2>0. output.sequence = input.sequence
    BY <1>9 DEF PushOutput, OutputIsFresh
  <2>1. CASE Out!Full
    <3>1. Len(outputQueue) + outUnseenPops >= QueueCapacity
      BY <2>1 DEF Out!Full
    <3>2. Dropped
      BY <1>9, <2>1, <3>1 DEF PushOutput, Out!TryPush, Dropped
    <3> QED BY <3>2 DEF Move
  <2>2. CASE ~Out!Full
    <3>1. Len(outputQueue) < QueueCapacity
      BY <1>0, <2>2 DEF Out!Full, CounterTypeOK
    <3>2. Pushed
      BY <1>9, <2>0, <2>2, <3>1 DEF PushOutput, Out!TryPush, Pushed
    <3> QED BY <3>2 DEF Move
  <2> QED BY <2>1, <2>2
<1>10. CASE CountProcessed
  BY <1>10 DEF CountProcessed, Move
<1>11. CASE Start \/ Stop \/ SpawnFails
  BY <1>11 DEF Start, Stop, SpawnFails, Move
<1>12. CASE Spawn
  <2>1. workerStep = "none"
    BY <1>12 DEF Spawn, ControlKnowsWorker, Joinable
  <2> QED BY <1>12, <2>1 DEF Spawn, Move
<1>13. CASE Join
  BY <1>13 DEF Join, Move
<1>14. ASSUME NEW b \in Backends \cup {NoBackend}, SetInferenceBackend(b) PROVE Move
  BY <1>14 DEF SetInferenceBackend, Move
<1>15. CASE ClearQueuesWhenStopped
  <2>1. workerStep = "none"
    BY <1>15 DEF ClearQueuesWhenStopped, ControlKnowsWorker, Joinable
  <2>2. Cleared
    BY <1>15, <2>1 DEF ClearQueuesWhenStopped, In!Reset, Out!Reset, Cleared
  <2> QED BY <2>2 DEF Move
<1>16. CASE Notice
  BY <1>16 DEF Notice, In!NoticePops, In!NoticePushes, Out!NoticePops, Out!NoticePushes, Move
<1>17. CASE UNCHANGED vars
  BY <1>17 DEF vars, Move
<1> QED BY <1>1, <1>2, <1>3, <1>4, <1>5, <1>6, <1>7, <1>8, <1>9, <1>10, <1>11, <1>12, <1>13,
           <1>14, <1>15, <1>16, <1>17 DEF Next, AudioStep, WorkerStep, ControlStep

-----------------------------------------------------------------------------
\* The age of blocks.

\* The number the next block to enter the line will have, or more.
Limit == IF audioStep = "push" THEN inputScratch.sequence ELSE nextSequence
Held == OneIf(Holding)

\* A callback pushes the number it took.
NumberInv == audioStep = "push" => inputScratch.sequence + 1 = nextSequence

\* Every block in the line is older than as many numbers as there are blocks behind it.
BehindInv ==
  /\ \A i \in 1 .. Len(inputQueue) :
       inputQueue[i].sequence + (Len(inputQueue) - i) < Limit
  /\ Held = 1 => input.sequence + Len(inputQueue) < Limit
  /\ \A i \in 1 .. Len(outputQueue) :
       outputQueue[i].sequence + (Len(outputQueue) - i) + Held + Len(inputQueue) < Limit
  /\ outputScratch.sequence + Len(outputQueue) + Held + Len(inputQueue) < Limit

\* A block has at least the number of blocks that were consumed or are before it.
BeforeInv ==
  /\ Limit > consumedOutputBlocks + Len(outputQueue) + Held + Len(inputQueue)
  /\ \A i \in 1 .. Len(inputQueue) :
       inputQueue[i].sequence >= consumedOutputBlocks + Len(outputQueue) + Held + i
  /\ Held = 1 => input.sequence > consumedOutputBlocks + Len(outputQueue)
  /\ \A i \in 1 .. Len(outputQueue) : outputQueue[i].sequence >= consumedOutputBlocks + i

\* The same of the block consumed last.
ScratchInv == outputScratch # EmptyBlock => outputScratch.sequence >= consumedOutputBlocks

\* What is where, in numbers.
LEMMA LineTypes ==
  ASSUME TypeOK
  PROVE  /\ Len(inputQueue) \in Nat /\ Len(outputQueue) \in Nat /\ Held \in {0, 1}
         /\ nextSequence \in Nat /\ consumedOutputBlocks \in Nat
         /\ inputScratch.sequence \in Nat /\ input.sequence \in Nat
         /\ output.sequence \in Nat /\ outputScratch.sequence \in Nat
         /\ Limit \in Nat
         /\ \A i \in 1 .. Len(inputQueue) : inputQueue[i].sequence \in Nat
         /\ \A i \in 1 .. Len(outputQueue) : outputQueue[i].sequence \in Nat
<1>1. /\ Len(inputQueue) \in Nat /\ Len(outputQueue) \in Nat
      /\ \A i \in 1 .. Len(inputQueue) : inputQueue[i] \in DryBlocks
      /\ \A i \in 1 .. Len(outputQueue) : outputQueue[i] \in Blocks
  BY LenProperties, ElementOfSeq DEF TypeOK, QueueTypeOK
<1>2. \A b \in Blocks \cup DryBlocks : b.sequence \in Nat
  BY DEF Blocks, DryBlocks
<1>3. nextSequence \in Nat /\ consumedOutputBlocks \in Nat
  BY DEF TypeOK, CounterTypeOK
<1>4. /\ inputScratch.sequence \in Nat /\ input.sequence \in Nat
      /\ output.sequence \in Nat /\ outputScratch.sequence \in Nat
  BY <1>2 DEF TypeOK, QueueTypeOK
<1>5. Held \in {0, 1}
  BY DEF Held, OneIf
<1> QED BY <1>1, <1>2, <1>3, <1>4, <1>5 DEF Limit

\* How the queues change.
LEMMA AcceptedQueue ==
  ASSUME TypeOK, inputQueue' = Append(inputQueue, inputScratch)
  PROVE  /\ Len(inputQueue') = Len(inputQueue) + 1
         /\ \A i \in 1 .. Len(inputQueue) : inputQueue'[i] = inputQueue[i]
         /\ inputQueue'[Len(inputQueue) + 1] = inputScratch
BY AppendProperties DEF TypeOK, QueueTypeOK

\* The same of a push to the output queue.
LEMMA PushedQueue ==
  ASSUME TypeOK, outputQueue' = Append(outputQueue, output)
  PROVE  /\ Len(outputQueue') = Len(outputQueue) + 1
         /\ \A i \in 1 .. Len(outputQueue) : outputQueue'[i] = outputQueue[i]
         /\ outputQueue'[Len(outputQueue) + 1] = output
BY AppendProperties DEF TypeOK, QueueTypeOK

\* What the queues are after a pop.
LEMMA PoppedQueue ==
  ASSUME TypeOK, inputQueue # <<>>, inputQueue' = Tail(inputQueue)
  PROVE  /\ Len(inputQueue) > 0 /\ Len(inputQueue') = Len(inputQueue) - 1
         /\ Head(inputQueue) = inputQueue[1]
         /\ \A i \in 1 .. Len(inputQueue) - 1 : inputQueue'[i] = inputQueue[i + 1]
BY HeadTailProperties, EmptySeq DEF TypeOK, QueueTypeOK

\* The same of the output queue.
LEMMA ConsumedQueue ==
  ASSUME TypeOK, outputQueue # <<>>, outputQueue' = Tail(outputQueue)
  PROVE  /\ Len(outputQueue) > 0 /\ Len(outputQueue') = Len(outputQueue) - 1
         /\ Head(outputQueue) = outputQueue[1]
         /\ \A i \in 1 .. Len(outputQueue) - 1 : outputQueue'[i] = outputQueue[i + 1]
BY HeadTailProperties, EmptySeq DEF TypeOK, QueueTypeOK

\* A move that shifts nothing keeps both.
LEMMA StayingKeepsAge ==
  ASSUME TypeOK, BehindInv, BeforeInv, Limit' \in Nat, Limit' >= Limit, Held' = Held,
         UNCHANGED <<inputQueue, outputQueue, consumedOutputBlocks, outputScratch>>,
         Held = 1 => input' = input
  PROVE  BehindInv' /\ BeforeInv'
<1>0. /\ Len(inputQueue) \in Nat /\ Len(outputQueue) \in Nat /\ Held \in {0, 1}
      /\ consumedOutputBlocks \in Nat /\ Limit \in Nat
      /\ input.sequence \in Nat /\ outputScratch.sequence \in Nat
  BY LineTypes
<1>1. BehindInv'
  <2>1. ASSUME NEW i \in 1 .. Len(inputQueue)
        PROVE inputQueue[i].sequence + (Len(inputQueue) - i) < Limit'
    <3>1. inputQueue[i].sequence + (Len(inputQueue) - i) < Limit
      BY DEF BehindInv
    <3>2. inputQueue[i].sequence \in Nat /\ i \in Nat
      BY LineTypes, <1>0
    <3> HIDE DEF Limit
    <3> QED BY <3>1, <3>2, <1>0
  <2>2. Held = 1 => input'.sequence + Len(inputQueue) < Limit'
    BY <1>0 DEF BehindInv
  <2>3. ASSUME NEW i \in 1 .. Len(outputQueue)
        PROVE outputQueue[i].sequence + (Len(outputQueue) - i) + Held + Len(inputQueue) < Limit'
    <3>1. outputQueue[i].sequence + (Len(outputQueue) - i) + Held + Len(inputQueue) < Limit
      BY DEF BehindInv
    <3>2. outputQueue[i].sequence \in Nat /\ i \in Nat
      BY LineTypes, <1>0
    <3> QED BY <3>1, <3>2, <1>0
  <2>4. outputScratch.sequence + Len(outputQueue) + Held + Len(inputQueue) < Limit'
    BY <1>0 DEF BehindInv
  <2> QED BY <2>1, <2>2, <2>3, <2>4 DEF BehindInv
<1>2. BeforeInv'
  <2>1. Limit' > consumedOutputBlocks + Len(outputQueue) + Held + Len(inputQueue)
    BY <1>0 DEF BeforeInv
  <2>2. Held = 1 => input'.sequence > consumedOutputBlocks + Len(outputQueue)
    BY <1>0 DEF BeforeInv
  <2> QED BY <2>1, <2>2 DEF BeforeInv
<1> QED BY <1>1, <1>2

\* A block that enters the line is younger than all in it.
LEMMA AcceptedKeepsAge ==
  ASSUME TypeOK, NumberInv, BehindInv, BeforeInv, Accepted
  PROVE  BehindInv' /\ BeforeInv'
<1>0. /\ Len(inputQueue) \in Nat /\ Len(outputQueue) \in Nat /\ Held \in {0, 1}
      /\ consumedOutputBlocks \in Nat /\ Limit \in Nat
      /\ input.sequence \in Nat /\ outputScratch.sequence \in Nat
  BY LineTypes
<1>1. inputScratch.sequence = Limit /\ Limit' = Limit + 1
  BY DEF Accepted, Limit, NumberInv
<1>2. Held' = Held
  BY DEF Accepted, Held, OneIf
<1>3. Held = 1 => input' = input
  BY DEF Accepted, Held, OneIf
<1>4. /\ UNCHANGED <<outputQueue, outputScratch, consumedOutputBlocks>>
      /\ inputQueue' = Append(inputQueue, inputScratch)
  BY DEF Accepted
<1>5. /\ Len(inputQueue') = Len(inputQueue) + 1
      /\ \A i \in 1 .. Len(inputQueue) : inputQueue'[i] = inputQueue[i]
      /\ inputQueue'[Len(inputQueue) + 1] = inputScratch
  BY <1>4, AcceptedQueue
<1>6. ASSUME NEW i \in 1 .. Len(inputQueue')
      PROVE  /\ inputQueue'[i].sequence + (Len(inputQueue') - i) < Limit'
             /\ inputQueue'[i].sequence >= consumedOutputBlocks + Len(outputQueue) + Held + i
  <2>1. CASE i = Len(inputQueue) + 1
    <3>1. inputQueue'[i].sequence = Limit /\ Len(inputQueue') - i = 0
      BY <2>1, <1>0, <1>1, <1>5
    <3>2. Limit > consumedOutputBlocks + Len(outputQueue) + Held + Len(inputQueue)
      BY DEF BeforeInv
    <3> QED BY <2>1, <3>1, <3>2, <1>0, <1>1
  <2>2. CASE i # Len(inputQueue) + 1
    <3>1. i \in 1 .. Len(inputQueue) /\ i \in Nat
      BY <2>2, <1>0, <1>5
    <3>2. inputQueue[i].sequence \in Nat /\ inputQueue'[i] = inputQueue[i]
      BY <3>1, <1>5, LineTypes
    <3>3. /\ inputQueue[i].sequence + (Len(inputQueue) - i) < Limit
          /\ inputQueue[i].sequence >= consumedOutputBlocks + Len(outputQueue) + Held + i
      BY <3>1 DEF BehindInv, BeforeInv
    <3> QED BY <3>1, <3>2, <3>3, <1>0, <1>1, <1>5
  <2> QED BY <2>1, <2>2
<1>7. Held = 1 => input'.sequence + Len(inputQueue') < Limit'
  BY <1>0, <1>1, <1>3, <1>5 DEF BehindInv
<1>8. ASSUME NEW i \in 1 .. Len(outputQueue)
      PROVE outputQueue[i].sequence + (Len(outputQueue) - i) + Held + Len(inputQueue') < Limit'
  <2>1. outputQueue[i].sequence + (Len(outputQueue) - i) + Held + Len(inputQueue) < Limit
    BY DEF BehindInv
  <2>2. outputQueue[i].sequence \in Nat /\ i \in Nat
    BY LineTypes, <1>0
  <2> DEFINE k == outputQueue[i].sequence + (Len(outputQueue) - i) + Held
  <2>3. k \in Int /\ k + Len(inputQueue) < Limit
    BY <2>1, <2>2, <1>0
  <2>4. Len(inputQueue') = Len(inputQueue) + 1 /\ Limit' = Limit + 1
    BY <1>1, <1>5
  <2> HIDE DEF k
  <2>5. k + Len(inputQueue') < Limit'
    BY <2>3, <2>4, <1>0
  <2> QED BY <2>5 DEF k
<1>9. outputScratch.sequence + Len(outputQueue) + Held + Len(inputQueue') < Limit'
  BY <1>0, <1>1, <1>5 DEF BehindInv
<1>10. Limit' > consumedOutputBlocks + Len(outputQueue) + Held + Len(inputQueue')
  BY <1>0, <1>1, <1>5 DEF BeforeInv
<1>11. Held = 1 => input'.sequence > consumedOutputBlocks + Len(outputQueue)
  BY <1>3 DEF BeforeInv
<1>12. BehindInv'
  BY <1>2, <1>4, <1>6, <1>7, <1>8, <1>9 DEF BehindInv
<1>13. BeforeInv'
  BY <1>2, <1>4, <1>6, <1>10, <1>11 DEF BeforeInv
<1> QED BY <1>12, <1>13
\* The block consumed leaves the line, and one more is consumed.
LEMMA ConsumedKeepsAge ==
  ASSUME TypeOK, BehindInv, BeforeInv, Consumed
  PROVE  /\ BehindInv' /\ BeforeInv'
         /\ outputScratch'.sequence >= consumedOutputBlocks'
<1>0. /\ Len(inputQueue) \in Nat /\ Len(outputQueue) \in Nat /\ Held \in {0, 1}
      /\ consumedOutputBlocks \in Nat /\ Limit \in Nat
      /\ input.sequence \in Nat /\ outputScratch.sequence \in Nat
  BY LineTypes
<1>1. Limit' = Limit
  BY DEF Consumed, Limit
<1>2. Held' = Held
  BY DEF Consumed, Held, OneIf
<1>3. Held = 1 => input' = input
  BY DEF Consumed, Held, OneIf
<1>4. /\ inputQueue' = inputQueue /\ consumedOutputBlocks' = consumedOutputBlocks + 1
      /\ outputQueue # <<>> /\ outputQueue' = Tail(outputQueue)
      /\ outputScratch' = Head(outputQueue)
  BY DEF Consumed
<1>5. /\ Len(outputQueue) > 0 /\ Len(outputQueue') = Len(outputQueue) - 1
      /\ outputScratch' = outputQueue[1]
      /\ \A i \in 1 .. Len(outputQueue) - 1 : outputQueue'[i] = outputQueue[i + 1]
  BY <1>4, ConsumedQueue
<1>6. Len(outputQueue) > 0 /\ Len(outputQueue') = Len(outputQueue) - 1
  BY <1>5
<1>7. ASSUME NEW i \in 1 .. Len(inputQueue)
      PROVE inputQueue[i].sequence
              >= consumedOutputBlocks' + Len(outputQueue') + Held + i
  <2>1. inputQueue[i].sequence >= consumedOutputBlocks + Len(outputQueue) + Held + i
    BY DEF BeforeInv
  <2>2. inputQueue[i].sequence \in Nat /\ i \in Nat
    BY LineTypes, <1>0
  <2> QED BY <2>1, <2>2, <1>0, <1>4, <1>6
<1>8. ASSUME NEW i \in 1 .. Len(outputQueue')
      PROVE  /\ outputQueue'[i].sequence + (Len(outputQueue') - i) + Held + Len(inputQueue)
                  < Limit
             /\ outputQueue'[i].sequence >= consumedOutputBlocks' + i
  <2>1. i \in Nat /\ i + 1 \in 1 .. Len(outputQueue) /\ outputQueue'[i] = outputQueue[i + 1]
    BY <1>0, <1>5
  <2>2. /\ outputQueue[i + 1].sequence + (Len(outputQueue) - (i + 1)) + Held + Len(inputQueue)
             < Limit
        /\ outputQueue[i + 1].sequence >= consumedOutputBlocks + (i + 1)
    BY <2>1 DEF BehindInv, BeforeInv
  <2>3. outputQueue[i + 1].sequence \in Nat
    BY <2>1, LineTypes
  <2> QED BY <2>1, <2>2, <2>3, <1>0, <1>4, <1>6
<1>9. /\ outputScratch'.sequence + Len(outputQueue') + Held + Len(inputQueue) < Limit
      /\ outputScratch'.sequence >= consumedOutputBlocks'
  <2>1. 1 \in 1 .. Len(outputQueue)
    BY <1>0, <1>6
  <2>2. /\ outputQueue[1].sequence + (Len(outputQueue) - 1) + Held + Len(inputQueue) < Limit
        /\ outputQueue[1].sequence >= consumedOutputBlocks + 1
    BY <2>1 DEF BehindInv, BeforeInv
  <2>3. outputQueue[1].sequence \in Nat /\ outputScratch' = outputQueue[1]
    BY <2>1, <1>5, LineTypes
  <2> QED BY <2>2, <2>3, <1>0, <1>4, <1>6
<1>10. Limit > consumedOutputBlocks' + Len(outputQueue') + Held + Len(inputQueue)
  BY <1>0, <1>4, <1>6 DEF BeforeInv
<1>11. Held = 1 => input'.sequence > consumedOutputBlocks' + Len(outputQueue')
  <2>1. Held = 1 => input.sequence > consumedOutputBlocks + Len(outputQueue)
    BY DEF BeforeInv
  <2> QED BY <2>1, <1>0, <1>3, <1>4, <1>6
<1>12. BehindInv'
  BY <1>1, <1>2, <1>3, <1>4, <1>8, <1>9 DEF BehindInv
<1>13. BeforeInv'
  BY <1>1, <1>2, <1>4, <1>7, <1>8, <1>10, <1>11 DEF BeforeInv
<1> QED BY <1>9, <1>12, <1>13

\* The worker takes the oldest block of the input queue.
LEMMA PoppedKeepsAge ==
  ASSUME TypeOK, BehindInv, BeforeInv, Popped
  PROVE  BehindInv' /\ BeforeInv'
<1>0. /\ Len(inputQueue) \in Nat /\ Len(outputQueue) \in Nat /\ Held \in {0, 1}
      /\ consumedOutputBlocks \in Nat /\ Limit \in Nat
      /\ input.sequence \in Nat /\ outputScratch.sequence \in Nat
  BY LineTypes
<1>1. Limit' = Limit
  BY DEF Popped, AudioStays, Limit
<1>2. Held = 0 /\ Held' = 1
  BY DEF Popped, Held, OneIf
<1>4. /\ UNCHANGED <<outputQueue, outputScratch, consumedOutputBlocks>>
      /\ inputQueue # <<>> /\ inputQueue' = Tail(inputQueue) /\ input' = Head(inputQueue)
  BY DEF Popped, AudioStays
<1>5. /\ Len(inputQueue) > 0 /\ Len(inputQueue') = Len(inputQueue) - 1
      /\ input' = inputQueue[1]
      /\ \A i \in 1 .. Len(inputQueue) - 1 : inputQueue'[i] = inputQueue[i + 1]
  BY <1>4, PoppedQueue
<1>6. Len(inputQueue) > 0 /\ Len(inputQueue') = Len(inputQueue) - 1
  BY <1>5
<1>7. ASSUME NEW i \in 1 .. Len(inputQueue')
      PROVE  /\ inputQueue'[i].sequence + (Len(inputQueue') - i) < Limit
             /\ inputQueue'[i].sequence >= consumedOutputBlocks + Len(outputQueue) + 1 + i
  <2>1. i \in Nat /\ i + 1 \in 1 .. Len(inputQueue) /\ inputQueue'[i] = inputQueue[i + 1]
    BY <1>0, <1>5
  <2>2. /\ inputQueue[i + 1].sequence + (Len(inputQueue) - (i + 1)) < Limit
        /\ inputQueue[i + 1].sequence
             >= consumedOutputBlocks + Len(outputQueue) + Held + (i + 1)
    BY <2>1 DEF BehindInv, BeforeInv
  <2>3. inputQueue[i + 1].sequence \in Nat
    BY <2>1, LineTypes
  <2>4. inputQueue'[i].sequence + (Len(inputQueue') - i) < Limit
    <3>1. Len(inputQueue') - i = Len(inputQueue) - (i + 1)
      BY <2>1, <1>0, <1>6
    <3> QED BY <2>1, <2>2, <3>1
  <2>5. inputQueue'[i].sequence >= consumedOutputBlocks + Len(outputQueue) + 1 + i
    BY <2>1, <2>2, <2>3, <1>0, <1>2
  <2> QED BY <2>4, <2>5
<1>8. /\ input'.sequence + Len(inputQueue') < Limit
      /\ input'.sequence > consumedOutputBlocks + Len(outputQueue)
  <2>1. 1 \in 1 .. Len(inputQueue)
    BY <1>0, <1>6
  <2>2. /\ inputQueue[1].sequence + (Len(inputQueue) - 1) < Limit
        /\ inputQueue[1].sequence >= consumedOutputBlocks + Len(outputQueue) + Held + 1
    BY <2>1 DEF BehindInv, BeforeInv
  <2>3. inputQueue[1].sequence \in Nat /\ input' = inputQueue[1]
    BY <2>1, <1>5, LineTypes
  <2> QED BY <2>2, <2>3, <1>0, <1>2, <1>6
<1>9. ASSUME NEW i \in 1 .. Len(outputQueue)
      PROVE outputQueue[i].sequence + (Len(outputQueue) - i) + 1 + Len(inputQueue') < Limit
  <2>1. outputQueue[i].sequence + (Len(outputQueue) - i) + Held + Len(inputQueue) < Limit
    BY DEF BehindInv
  <2>2. outputQueue[i].sequence \in Nat /\ i \in Nat
    BY LineTypes, <1>0
  <2> QED BY <2>1, <2>2, <1>0, <1>2, <1>6
<1>10. outputScratch.sequence + Len(outputQueue) + 1 + Len(inputQueue') < Limit
  BY <1>0, <1>2, <1>6 DEF BehindInv
<1>11. Limit > consumedOutputBlocks + Len(outputQueue) + 1 + Len(inputQueue')
  BY <1>0, <1>2, <1>6 DEF BeforeInv
<1>12. BehindInv'
  BY <1>1, <1>2, <1>4, <1>7, <1>8, <1>9, <1>10 DEF BehindInv
<1>13. BeforeInv'
  <2>1. \A i \in 1 .. Len(outputQueue) : outputQueue[i].sequence >= consumedOutputBlocks + i
    BY DEF BeforeInv
  <2> QED BY <2>1, <1>1, <1>2, <1>4, <1>7, <1>8, <1>11 DEF BeforeInv
<1> QED BY <1>12, <1>13

\* The worker's block becomes the youngest of the output queue.
LEMMA PushedKeepsAge ==
  ASSUME TypeOK, BehindInv, BeforeInv, Pushed
  PROVE  BehindInv' /\ BeforeInv'
<1>0. /\ Len(inputQueue) \in Nat /\ Len(outputQueue) \in Nat /\ Held \in {0, 1}
      /\ consumedOutputBlocks \in Nat /\ Limit \in Nat
      /\ input.sequence \in Nat /\ outputScratch.sequence \in Nat
  BY LineTypes
<1>1. Limit' = Limit
  BY DEF Pushed, AudioStays, Limit
<1>2. Held = 1 /\ Held' = 0
  BY DEF Pushed, Held, OneIf
<1>4. /\ UNCHANGED <<inputQueue, outputScratch, consumedOutputBlocks>>
      /\ outputQueue' = Append(outputQueue, output) /\ output.sequence = input.sequence
  BY DEF Pushed, AudioStays
<1>5. /\ Len(outputQueue') = Len(outputQueue) + 1
      /\ \A i \in 1 .. Len(outputQueue) : outputQueue'[i] = outputQueue[i]
      /\ outputQueue'[Len(outputQueue) + 1] = output
  BY <1>4, PushedQueue
<1>6. Len(outputQueue') = Len(outputQueue) + 1
  BY <1>5
<1>7. /\ input.sequence + Len(inputQueue) < Limit
      /\ input.sequence > consumedOutputBlocks + Len(outputQueue)
  BY <1>2 DEF BehindInv, BeforeInv
<1>8. ASSUME NEW i \in 1 .. Len(outputQueue')
      PROVE  /\ outputQueue'[i].sequence + (Len(outputQueue') - i) + 0 + Len(inputQueue) < Limit
             /\ outputQueue'[i].sequence >= consumedOutputBlocks + i
  <2>1. CASE i = Len(outputQueue) + 1
    <3>1. outputQueue'[i].sequence = input.sequence /\ Len(outputQueue') - i = 0
      BY <2>1, <1>0, <1>4, <1>5
    <3> QED BY <2>1, <3>1, <1>0, <1>7
  <2>2. CASE i # Len(outputQueue) + 1
    <3>1. i \in 1 .. Len(outputQueue) /\ i \in Nat
      BY <2>2, <1>0, <1>5
    <3>2. outputQueue[i].sequence \in Nat /\ outputQueue'[i] = outputQueue[i]
      BY <3>1, <1>5, LineTypes
    <3>3. /\ outputQueue[i].sequence + (Len(outputQueue) - i) + Held + Len(inputQueue) < Limit
          /\ outputQueue[i].sequence >= consumedOutputBlocks + i
      BY <3>1 DEF BehindInv, BeforeInv
    <3> DEFINE number == outputQueue[i].sequence
               later == Len(outputQueue) - i
    <3>4. number \in Nat /\ later \in Int /\ outputQueue'[i].sequence = number
      BY <3>1, <3>2, <1>0
    <3>5. Len(outputQueue') - i = later + 1
      BY <3>1, <1>0, <1>6
    <3>6. number + later + 1 + Len(inputQueue) < Limit
      BY <3>3, <1>2
    <3>7. number >= consumedOutputBlocks + i
      BY <3>3
    <3> HIDE DEF number, later
    <3>8. number + (later + 1) + 0 + Len(inputQueue) < Limit
      BY <3>4, <3>6, <1>0
    <3> QED BY <3>4, <3>5, <3>7, <3>8
  <2> QED BY <2>1, <2>2
<1>9. ASSUME NEW i \in 1 .. Len(inputQueue)
      PROVE inputQueue[i].sequence >= consumedOutputBlocks + Len(outputQueue') + 0 + i
  <2>1. inputQueue[i].sequence >= consumedOutputBlocks + Len(outputQueue) + Held + i
    BY DEF BeforeInv
  <2>2. inputQueue[i].sequence \in Nat /\ i \in Nat
    BY LineTypes, <1>0
  <2> QED BY <2>1, <2>2, <1>0, <1>2, <1>6
<1>10. outputScratch.sequence + Len(outputQueue') + 0 + Len(inputQueue) < Limit
  BY <1>0, <1>2, <1>6 DEF BehindInv
<1>11. Limit > consumedOutputBlocks + Len(outputQueue') + 0 + Len(inputQueue)
  BY <1>0, <1>2, <1>6 DEF BeforeInv
<1>12. BehindInv'
  <2>1. \A i \in 1 .. Len(inputQueue) : inputQueue[i].sequence + (Len(inputQueue) - i) < Limit
    BY DEF BehindInv
  <2> QED BY <2>1, <1>1, <1>2, <1>4, <1>8, <1>10 DEF BehindInv
<1>13. BeforeInv'
  BY <1>1, <1>2, <1>4, <1>8, <1>9, <1>11 DEF BeforeInv
<1> QED BY <1>12, <1>13

\* A block the worker drops leaves a gap.
LEMMA DroppedKeepsAge ==
  ASSUME TypeOK, BehindInv, BeforeInv, Dropped
  PROVE  BehindInv' /\ BeforeInv'
<1>0. /\ Len(inputQueue) \in Nat /\ Len(outputQueue) \in Nat /\ Held \in {0, 1}
      /\ consumedOutputBlocks \in Nat /\ Limit \in Nat
      /\ input.sequence \in Nat /\ outputScratch.sequence \in Nat
  BY LineTypes
<1>1. Limit' = Limit
  BY DEF Dropped, AudioStays, Limit
<1>2. Held = 1 /\ Held' = 0
  BY DEF Dropped, Held, OneIf
<1>3. UNCHANGED <<inputQueue, outputQueue, outputScratch, consumedOutputBlocks>>
  BY DEF Dropped, AudioStays
<1>4. ASSUME NEW i \in 1 .. Len(outputQueue)
      PROVE outputQueue[i].sequence + (Len(outputQueue) - i) + 0 + Len(inputQueue) < Limit
  <2>1. outputQueue[i].sequence + (Len(outputQueue) - i) + Held + Len(inputQueue) < Limit
    BY DEF BehindInv
  <2>2. outputQueue[i].sequence \in Nat /\ i \in Nat
    BY LineTypes, <1>0
  <2> QED BY <2>1, <2>2, <1>0, <1>2
<1>5. ASSUME NEW i \in 1 .. Len(inputQueue)
      PROVE inputQueue[i].sequence >= consumedOutputBlocks + Len(outputQueue) + 0 + i
  <2>1. inputQueue[i].sequence >= consumedOutputBlocks + Len(outputQueue) + Held + i
    BY DEF BeforeInv
  <2>2. inputQueue[i].sequence \in Nat /\ i \in Nat
    BY LineTypes, <1>0
  <2> QED BY <2>1, <2>2, <1>0, <1>2
<1>6. outputScratch.sequence + Len(outputQueue) + 0 + Len(inputQueue) < Limit
  BY <1>0, <1>2 DEF BehindInv
<1>7. Limit > consumedOutputBlocks + Len(outputQueue) + 0 + Len(inputQueue)
  BY <1>0, <1>2 DEF BeforeInv
<1>8. BehindInv'
  <2>1. \A i \in 1 .. Len(inputQueue) : inputQueue[i].sequence + (Len(inputQueue) - i) < Limit
    BY DEF BehindInv
  <2> QED BY <2>1, <1>1, <1>2, <1>3, <1>4, <1>6 DEF BehindInv
<1>9. BeforeInv'
  <2>1. \A i \in 1 .. Len(outputQueue) : outputQueue[i].sequence >= consumedOutputBlocks + i
    BY DEF BeforeInv
  <2> QED BY <2>1, <1>1, <1>2, <1>3, <1>5, <1>7 DEF BeforeInv
<1> QED BY <1>8, <1>9

\* An empty line.
LEMMA ClearedKeepsAge ==
  ASSUME TypeOK, BehindInv, BeforeInv, Cleared
  PROVE  BehindInv' /\ BeforeInv'
<1>0. /\ Len(inputQueue) \in Nat /\ Len(outputQueue) \in Nat /\ Held \in {0, 1}
      /\ consumedOutputBlocks \in Nat /\ Limit \in Nat
      /\ input.sequence \in Nat /\ outputScratch.sequence \in Nat
  BY LineTypes
<1>1. Limit' = Limit
  BY DEF Cleared, Limit
<1>2. Held' = 0
  BY DEF Cleared, Held, OneIf
<1>3. /\ Len(inputQueue') = 0 /\ Len(outputQueue') = 0
      /\ outputScratch'.sequence = 0 /\ consumedOutputBlocks' = consumedOutputBlocks
  BY EmptySeq DEF Cleared, EmptyBlock
<1>4. Limit > consumedOutputBlocks
  BY <1>0 DEF BeforeInv
<1> QED BY <1>0, <1>1, <1>2, <1>3, <1>4 DEF BehindInv, BeforeInv

\* How old blocks are, in one.
AgeInv == NumberInv /\ BehindInv /\ BeforeInv /\ ScratchInv

\* At first nothing is in the line.
LEMMA AgeInit == Init => AgeInv
<1> SUFFICES ASSUME Init PROVE AgeInv
  OBVIOUS
<1>1. /\ Len(inputQueue) = 0 /\ Len(outputQueue) = 0 /\ Held = 0 /\ Limit = 1
      /\ consumedOutputBlocks = 0 /\ outputScratch = EmptyBlock
      /\ outputScratch.sequence = 0 /\ audioStep = "idle"
  BY EmptySeq DEF Init, In!Init, Out!Init, EmptyBlock, Held, Holding, OneIf, Limit
<1> QED BY <1>1 DEF AgeInv, NumberInv, BehindInv, BeforeInv, ScratchInv

\* What a step does to the line keeps the bounds on the numbers.
LEMMA MoveKeepsAge ==
  ASSUME TypeOK, AgeInv, Move PROVE AgeInv'
<1>0. nextSequence \in Nat /\ Limit \in Nat /\ NumberInv /\ BehindInv /\ BeforeInv /\ ScratchInv
  BY LineTypes DEF AgeInv
<1>1. NumberInv'
  <2>1. CASE TakesNumber
    BY <2>1, <1>0 DEF TakesNumber, NumberInv
  <2>2. CASE Refused \/ Accepted \/ Late \/ Consumed \/ Cleared
    BY <2>2 DEF Refused, Accepted, Late, Consumed, Cleared, NumberInv
  <2>3. CASE AudioStays
    BY <2>3, <1>0 DEF AudioStays, NumberInv
  <2> QED BY <2>1, <2>2, <2>3 DEF Move, Popped, Pushed, Dropped
<1>2. ScratchInv'
  <2>1. CASE Consumed
    BY <2>1, <1>0, ConsumedKeepsAge DEF ScratchInv
  <2>2. CASE Cleared
    BY <2>2, <1>0 DEF Cleared, ScratchInv, EmptyBlock
  <2>3. CASE UNCHANGED <<outputScratch, consumedOutputBlocks>>
    BY <2>3, <1>0 DEF ScratchInv, EmptyBlock
  <2> QED BY <2>1, <2>2, <2>3
          DEF Move, TakesNumber, Refused, Accepted, Late, Popped, Pushed, Dropped, LineStays,
              AudioStays
<1>3. BehindInv' /\ BeforeInv'
  <2>1. CASE Accepted \/ Consumed \/ Popped \/ Pushed \/ Dropped \/ Cleared
    BY <2>1, <1>0, AcceptedKeepsAge, ConsumedKeepsAge, PoppedKeepsAge, PushedKeepsAge,
       DroppedKeepsAge, ClearedKeepsAge
  <2>2. CASE TakesNumber \/ Refused \/ Late \/ (LineStays /\ AudioStays)
    <3>1. Limit' \in Nat /\ Limit' >= Limit
      <4>1. CASE TakesNumber
        BY <4>1, <1>0 DEF TakesNumber, Limit
      <4>2. CASE Refused
        BY <4>2, <1>0 DEF Refused, Limit, NumberInv
      <4>3. CASE Late
        BY <4>3, <1>0 DEF Late, Limit
      <4>4. CASE AudioStays
        BY <4>4, <1>0 DEF AudioStays, Limit
      <4> QED BY <2>2, <4>1, <4>2, <4>3, <4>4
    <3>2. LineStays /\ UNCHANGED consumedOutputBlocks
      BY <2>2 DEF TakesNumber, Refused, Late, AudioStays
    <3>3. Held' = Held /\ (Held = 1 => input' = input)
      BY <3>2 DEF LineStays, Held, OneIf
    <3>4. UNCHANGED <<inputQueue, outputQueue, consumedOutputBlocks, outputScratch>>
      BY <3>2 DEF LineStays
    <3> QED BY <1>0, <3>1, <3>3, <3>4, StayingKeepsAge
  <2> QED BY <2>1, <2>2 DEF Move
<1> QED BY <1>1, <1>2, <1>3 DEF AgeInv

\* The number of every block agrees, at all times, with how many are before and behind it.
THEOREM AgeInvariance == Spec => []AgeInv
<1>1. Init => AgeInv
  BY AgeInit
<1>2. TypeOK /\ ControlKnowsWorker /\ WorkerHasInput /\ OutputIsFresh /\ AgeInv /\ [Next]_vars
      => AgeInv'
  BY StepMoves, MoveKeepsAge
<1> QED BY <1>1, <1>2, TypeCorrect, ControlInvariance, WorkerPops, OutputFreshness, PTL DEF Spec

\* The block a callback returns is as many blocks old as wait behind it, at least,
\* and at most as old as callbacks were late: tryConsumeOutputFromAudioThread gives
\* out the oldest block, and nothing is processed twice or out of order.
THEOREM AgeBounded == Spec => []AgeIsBounded
<1>1. TypeOK /\ AgeInv /\ CallsAreAnswered => AgeIsBounded
  <2> SUFFICES ASSUME TypeOK, AgeInv, CallsAreAnswered, audioStep = "idle",
                      outputScratch # EmptyBlock
               PROVE  /\ outputScratch.sequence + Backlog < nextSequence
                      /\ nextSequence - 1 - outputScratch.sequence <= lateOutputBlocks
    BY DEF AgeIsBounded
  <2>1. /\ Len(inputQueue) \in Nat /\ Len(outputQueue) \in Nat /\ Held \in {0, 1}
        /\ nextSequence \in Nat /\ consumedOutputBlocks \in Nat
        /\ outputScratch.sequence \in Nat
    BY LineTypes
  <2>2. Limit = nextSequence /\ Backlog = Len(inputQueue) + Held + Len(outputQueue)
    BY DEF Limit, Backlog, Held
  <2>3. outputScratch.sequence + Len(outputQueue) + Held + Len(inputQueue) < Limit
    BY DEF AgeInv, BehindInv
  <2>4. outputScratch.sequence + Backlog < nextSequence
    BY <2>1, <2>2, <2>3
  <2>5. lateOutputBlocks \in Nat
    BY DEF TypeOK, CounterTypeOK
  <2>6. OneIf(audioStep # "idle") = 0
    BY DEF OneIf
  <2>7. nextSequence = consumedOutputBlocks + lateOutputBlocks + 1
    BY <2>1, <2>5, <2>6 DEF CallsAreAnswered
  <2>8. outputScratch.sequence >= consumedOutputBlocks
    BY DEF AgeInv, ScratchInv
  <2>9. nextSequence - 1 - outputScratch.sequence <= lateOutputBlocks
    BY <2>1, <2>5, <2>7, <2>8
  <2> QED BY <2>4, <2>9
<1> QED BY <1>1, TypeCorrect, AgeInvariance, CallsAnswered, PTL

-----------------------------------------------------------------------------
\* The line, as a sequence.

Numbers(q) == [i \in 1 .. Len(q) |-> q[i].sequence]
Between(n, b) == IF n = 1 THEN <<b.sequence>> ELSE <<>>
LineOf(o, n, b, q) == Numbers(o) \o Between(n, b) \o Numbers(q)

\* What is where in it.
LaysOut(s, o, n, b, q) ==
  /\ s \in Seq(Nat)
  /\ Len(s) = Len(o) + n + Len(q)
  /\ \A i \in 1 .. Len(o) : s[i] = o[i].sequence
  /\ n = 1 => s[Len(o) + 1] = b.sequence
  /\ \A i \in 1 .. Len(q) : s[Len(o) + n + i] = q[i].sequence

\* The line is laid out as its parts are.
LEMMA LineElements ==
  ASSUME NEW o \in Seq(Blocks), NEW n \in 0 .. 1, NEW b \in DryBlocks,
         NEW q \in Seq(DryBlocks)
  PROVE  LaysOut(LineOf(o, n, b, q), o, n, b, q)
<1> DEFINE O == Numbers(o)
           H == Between(n, b)
           Q == Numbers(q)
<1>1. /\ Len(o) \in Nat /\ Len(q) \in Nat
      /\ \A i \in 1 .. Len(o) : o[i] \in Blocks
      /\ \A i \in 1 .. Len(q) : q[i] \in DryBlocks
  BY LenProperties, ElementOfSeq
<1>2. \A x \in Blocks \cup DryBlocks : x.sequence \in Nat
  BY DEF Blocks, DryBlocks
<1>3. O \in Seq(Nat) /\ Len(O) = Len(o) /\ \A i \in 1 .. Len(o) : O[i] = o[i].sequence
  BY <1>1, <1>2 DEF Numbers
<1>4. Q \in Seq(Nat) /\ Len(Q) = Len(q) /\ \A i \in 1 .. Len(q) : Q[i] = q[i].sequence
  BY <1>1, <1>2 DEF Numbers
<1>5. H \in Seq(Nat) /\ Len(H) = n /\ (n = 1 => H[1] = b.sequence)
  BY <1>2 DEF Between
<1>6. LineOf(o, n, b, q) = (O \o H) \o Q
  BY DEF LineOf
<1> HIDE DEF O, H, Q
<1>8. /\ O \o H \in Seq(Nat) /\ Len(O \o H) = Len(o) + n
      /\ \A i \in 1 .. Len(o) + n :
           (O \o H)[i] = IF i <= Len(o) THEN O[i] ELSE H[i - Len(o)]
  <2>1. /\ O \o H \in Seq(Nat) /\ Len(O \o H) = Len(O) + Len(H)
        /\ \A i \in 1 .. Len(O) + Len(H) :
             (O \o H)[i] = IF i <= Len(O) THEN O[i] ELSE H[i - Len(O)]
    <3>1. O \in Seq(Nat) /\ H \in Seq(Nat)
      BY <1>3, <1>5
    <3> QED BY <3>1, ConcatProperties
  <2>2. Len(O) = Len(o) /\ Len(H) = n
    BY <1>3, <1>5
  <2> QED BY <2>1, <2>2
<1>9. /\ (O \o H) \o Q \in Seq(Nat)
      /\ Len((O \o H) \o Q) = Len(o) + n + Len(q)
      /\ \A i \in 1 .. Len(o) + n + Len(q) :
           ((O \o H) \o Q)[i] = IF i <= Len(o) + n THEN (O \o H)[i]
                                ELSE Q[i - (Len(o) + n)]
  <2>1. O \o H \in Seq(Nat) /\ Q \in Seq(Nat)
    BY <1>4, <1>8
  <2>2. /\ (O \o H) \o Q \in Seq(Nat) /\ Len((O \o H) \o Q) = Len(O \o H) + Len(Q)
        /\ \A i \in 1 .. Len(O \o H) + Len(Q) :
             ((O \o H) \o Q)[i] = IF i <= Len(O \o H) THEN (O \o H)[i]
                                  ELSE Q[i - Len(O \o H)]
    BY <2>1, ConcatProperties
  <2>3. Len(O \o H) = Len(o) + n /\ Len(Q) = Len(q)
    BY <1>4, <1>8
  <2> QED BY <2>2, <2>3
<1>10. ASSUME NEW i \in 1 .. Len(o) PROVE LineOf(o, n, b, q)[i] = o[i].sequence
  <2>1. i \in 1 .. Len(o) + n + Len(q) /\ i <= Len(o) + n /\ i <= Len(o)
        /\ i \in 1 .. Len(o) + n
    BY <1>1
  <2> QED BY <2>1, <1>3, <1>6, <1>8, <1>9
<1>11. ASSUME n = 1 PROVE LineOf(o, n, b, q)[Len(o) + 1] = b.sequence
  <2>0. n = 1 /\ H[1] = b.sequence
    BY <1>5, <1>11
  <2>1. /\ Len(o) + 1 \in 1 .. Len(o) + n + Len(q) /\ Len(o) + 1 <= Len(o) + n
        /\ ~(Len(o) + 1 <= Len(o)) /\ Len(o) + 1 - Len(o) = 1
        /\ Len(o) + 1 \in 1 .. Len(o) + n
    BY <1>1, <2>0
  <2>2. LineOf(o, n, b, q)[Len(o) + 1] = (O \o H)[Len(o) + 1]
    BY <2>1, <1>6, <1>9
  <2>3. (O \o H)[Len(o) + 1] = H[1]
    <3>1. ASSUME NEW i \in 1 .. Len(o) + n, NEW j, ~(i <= Len(o)), i - Len(o) = j
          PROVE  (O \o H)[i] = H[j]
      BY <1>8, <3>1
    <3>2. PICK k \in 1 .. Len(o) + n : k = Len(o) + 1
      BY <2>1
    <3>3. ~(k <= Len(o)) /\ k - Len(o) = 1
      BY <2>1, <3>2
    <3>4. (O \o H)[k] = H[1]
      BY <3>1, <3>3
    <3> QED BY <3>2, <3>4
  <2> QED BY <2>0, <2>2, <2>3
<1>12. ASSUME NEW i \in 1 .. Len(q)
       PROVE LineOf(o, n, b, q)[Len(o) + n + i] = q[i].sequence
  <2> DEFINE j == Len(o) + n + i
  <2>1. /\ j \in 1 .. Len(o) + n + Len(q) /\ ~(j <= Len(o) + n)
        /\ j - (Len(o) + n) = i
    BY <1>1
  <2> QED BY <2>1, <1>4, <1>6, <1>9
<1> QED BY <1>6, <1>9, <1>10, <1>11, <1>12 DEF LaysOut

\* A sequence with these elements is the line.
LEMMA IsLineOf ==
  ASSUME NEW o \in Seq(Blocks), NEW n \in 0 .. 1, NEW b \in DryBlocks,
         NEW q \in Seq(DryBlocks), NEW s, LaysOut(s, o, n, b, q)
  PROVE  s = LineOf(o, n, b, q)
<1> DEFINE t == LineOf(o, n, b, q)
<1>1. /\ Len(o) \in Nat /\ Len(q) \in Nat
      /\ t \in Seq(Nat)
      /\ Len(t) = Len(o) + n + Len(q)
      /\ \A i \in 1 .. Len(o) : t[i] = o[i].sequence
      /\ n = 1 => t[Len(o) + 1] = b.sequence
      /\ \A i \in 1 .. Len(q) : t[Len(o) + n + i] = q[i].sequence
  <2>1. LaysOut(t, o, n, b, q)
    BY LineElements
  <2>2. Len(o) \in Nat /\ Len(q) \in Nat
    BY LenProperties
  <2> QED BY <2>1, <2>2 DEF LaysOut
<1> HIDE DEF t
<1>2. /\ s \in Seq(Nat)
      /\ Len(s) = Len(o) + n + Len(q)
      /\ \A i \in 1 .. Len(o) : s[i] = o[i].sequence
      /\ n = 1 => s[Len(o) + 1] = b.sequence
      /\ \A i \in 1 .. Len(q) : s[Len(o) + n + i] = q[i].sequence
  BY DEF LaysOut
<1>3. Len(o) \in Nat /\ Len(q) \in Nat /\ Len(s) = Len(o) + n + Len(q)
  BY <1>1, <1>2
<1>4. ASSUME NEW i \in 1 .. Len(s) PROVE s[i] = t[i]
  <2>1. CASE i <= Len(o)
    <3>1. i \in 1 .. Len(o)
      BY <2>1, <1>3
    <3> QED BY <3>1, <1>1, <1>2
  <2>2. CASE i = Len(o) + 1 /\ n = 1
    BY <2>2, <1>1, <1>2
  <2>3. CASE i > Len(o) + n
    <3>1. PICK j \in 1 .. Len(q) : i = Len(o) + n + j
      <4>1. i - (Len(o) + n) \in 1 .. Len(q)
        BY <2>3, <1>3
      <4>2. i = Len(o) + n + (i - (Len(o) + n))
        BY <1>3
      <4> QED BY <4>1, <4>2
    <3> QED BY <3>1, <1>1, <1>2
  <2> QED BY <2>1, <2>2, <2>3, <1>3
<1>5. s = t
  BY <1>1, <1>4, <1>2, SeqEqual
<1> QED BY <1>5 DEF t

\* The input queue is the young end of the line.
LEMMA LineAccepts ==
  ASSUME NEW o \in Seq(Blocks), NEW n \in 0 .. 1, NEW b \in DryBlocks,
         NEW q \in Seq(DryBlocks), NEW x \in DryBlocks
  PROVE  LineOf(o, n, b, Append(q, x)) = Append(LineOf(o, n, b, q), x.sequence)
<1> DEFINE s == Append(LineOf(o, n, b, q), x.sequence)
           p == Append(q, x)
<1>1. /\ Len(o) \in Nat /\ Len(q) \in Nat
      /\ LineOf(o, n, b, q) \in Seq(Nat)
      /\ Len(LineOf(o, n, b, q)) = Len(o) + n + Len(q)
      /\ \A i \in 1 .. Len(o) : LineOf(o, n, b, q)[i] = o[i].sequence
      /\ n = 1 => LineOf(o, n, b, q)[Len(o) + 1] = b.sequence
      /\ \A i \in 1 .. Len(q) : LineOf(o, n, b, q)[Len(o) + n + i] = q[i].sequence
  <2>1. LaysOut(LineOf(o, n, b, q), o, n, b, q)
    BY LineElements
  <2>2. Len(o) \in Nat /\ Len(q) \in Nat
    BY LenProperties
  <2> QED BY <2>1, <2>2 DEF LaysOut
<1>2. x.sequence \in Nat
  BY DEF DryBlocks
<1>3. /\ s \in Seq(Nat) /\ Len(s) = Len(o) + n + (Len(q) + 1)
      /\ \A i \in 1 .. Len(o) + n + Len(q) : s[i] = LineOf(o, n, b, q)[i]
      /\ s[Len(o) + n + Len(q) + 1] = x.sequence
  BY <1>1, <1>2, AppendProperties
<1>4. /\ p \in Seq(DryBlocks) /\ Len(p) = Len(q) + 1
      /\ \A i \in 1 .. Len(q) : p[i] = q[i]
      /\ p[Len(q) + 1] = x
  BY AppendProperties
<1> HIDE DEF s, p
<1>5. /\ Len(o) \in Nat /\ Len(q) \in Nat /\ Len(p) = Len(q) + 1
      /\ Len(s) = Len(o) + n + Len(p)
  BY <1>1, <1>3, <1>4
<1>6. ASSUME NEW i \in 1 .. Len(o) PROVE s[i] = o[i].sequence
  <2>1. i \in 1 .. Len(o) + n + Len(q)
    BY <1>5
  <2> QED BY <2>1, <1>1, <1>3
<1>7. ASSUME n = 1 PROVE s[Len(o) + 1] = b.sequence
  <2>1. Len(o) + 1 \in 1 .. Len(o) + n + Len(q)
    BY <1>5, <1>7
  <2> QED BY <2>1, <1>1, <1>3, <1>7
<1>8. ASSUME NEW i \in 1 .. Len(p) PROVE s[Len(o) + n + i] = p[i].sequence
  <2>1. CASE i = Len(q) + 1
    <3>1. Len(o) + n + i = Len(o) + n + Len(q) + 1
      BY <2>1, <1>5
    <3> QED BY <2>1, <3>1, <1>3, <1>4
  <2>2. CASE i # Len(q) + 1
    <3>1. i \in 1 .. Len(q) /\ Len(o) + n + i \in 1 .. Len(o) + n + Len(q)
      BY <2>2, <1>5
    <3> QED BY <3>1, <1>1, <1>3, <1>4
  <2> QED BY <2>1, <2>2
<1>9. s = LineOf(o, n, b, p)
  <2>1. LaysOut(s, o, n, b, p)
    BY <1>3, <1>5, <1>6, <1>7, <1>8 DEF LaysOut
  <2>2. p \in Seq(DryBlocks)
    BY <1>4
  <2> QED BY <2>1, <2>2, IsLineOf
<1> QED BY <1>9 DEF s, p

\* The output queue is its old end.
LEMMA LineConsumes ==
  ASSUME NEW o \in Seq(Blocks), NEW n \in 0 .. 1, NEW b \in DryBlocks,
         NEW q \in Seq(DryBlocks), o # <<>>
  PROVE  /\ LineOf(o, n, b, q) # <<>>
         /\ Head(LineOf(o, n, b, q)) = Head(o).sequence
         /\ Tail(LineOf(o, n, b, q)) = LineOf(Tail(o), n, b, q)
<1> DEFINE t == LineOf(o, n, b, q)
           s == Tail(t)
           r == Tail(o)
<1>1. /\ Len(o) \in Nat /\ Len(q) \in Nat
      /\ t \in Seq(Nat)
      /\ Len(t) = Len(o) + n + Len(q)
      /\ \A i \in 1 .. Len(o) : t[i] = o[i].sequence
      /\ n = 1 => t[Len(o) + 1] = b.sequence
      /\ \A i \in 1 .. Len(q) : t[Len(o) + n + i] = q[i].sequence
  <2>1. LaysOut(t, o, n, b, q)
    BY LineElements
  <2>2. Len(o) \in Nat /\ Len(q) \in Nat
    BY LenProperties
  <2> QED BY <2>1, <2>2 DEF LaysOut
<1> HIDE DEF t
<1>2. /\ r \in Seq(Blocks) /\ Len(o) > 0 /\ Len(r) = Len(o) - 1
      /\ \A i \in 1 .. Len(r) : r[i] = o[i + 1]
  BY HeadTailProperties, EmptySeq
<1>3. t # <<>>
  BY <1>1, <1>2, EmptySeq
<1>4. /\ s \in Seq(Nat) /\ Len(s) = Len(t) - 1
      /\ \A i \in 1 .. Len(s) : s[i] = t[i + 1]
  BY <1>1, <1>3, HeadTailProperties
<1>5. Head(t) = Head(o).sequence
  <2>1. 1 \in 1 .. Len(o) /\ Head(t) = t[1] /\ Head(o) = o[1]
    BY <1>1, <1>2, <1>3
  <2> QED BY <2>1, <1>1
<1> HIDE DEF s, r
<1>6. Len(s) = Len(r) + n + Len(q)
  BY <1>1, <1>2, <1>4
<1>7. /\ Len(o) \in Nat /\ Len(q) \in Nat /\ Len(o) > 0
      /\ Len(r) = Len(o) - 1 /\ Len(s) = Len(r) + n + Len(q)
  BY <1>1, <1>2, <1>6
<1>8. ASSUME NEW i \in 1 .. Len(r) PROVE s[i] = r[i].sequence
  <2>1. i \in 1 .. Len(s) /\ i + 1 \in 1 .. Len(o)
    BY <1>7
  <2>2. t[i + 1] = o[i + 1].sequence
    BY <2>1, <1>1
  <2> QED BY <2>1, <2>2, <1>2, <1>4
<1>9. ASSUME n = 1 PROVE s[Len(r) + 1] = b.sequence
  <2>1. Len(r) + 1 \in 1 .. Len(s) /\ Len(r) + 1 + 1 = Len(o) + 1
    BY <1>7, <1>9
  <2>2. s[Len(r) + 1] = t[Len(r) + 1 + 1]
    BY <2>1, <1>4
  <2> QED BY <2>1, <2>2, <1>1, <1>9
<1>10. ASSUME NEW i \in 1 .. Len(q) PROVE s[Len(r) + n + i] = q[i].sequence
  <2>1. /\ Len(r) + n + i \in 1 .. Len(s)
        /\ Len(r) + n + i + 1 = Len(o) + n + i
    BY <1>7
  <2>2. s[Len(r) + n + i] = t[Len(r) + n + i + 1]
    BY <2>1, <1>4
  <2> QED BY <2>1, <2>2, <1>1
<1>11. s = LineOf(r, n, b, q)
  <2>1. LaysOut(s, r, n, b, q)
    BY <1>4, <1>6, <1>8, <1>9, <1>10 DEF LaysOut
  <2>2. r \in Seq(Blocks)
    BY <1>2
  <2> QED BY <2>1, <2>2, IsLineOf
<1> QED BY <1>3, <1>5, <1>11 DEF t, s, r

\* The same with the worker's hands empty and full.
LEMMA EmptyHanded ==
  ASSUME NEW o \in Seq(Blocks), NEW b \in DryBlocks, NEW q \in Seq(DryBlocks)
  PROVE  /\ LineOf(o, 0, b, q) \in Seq(Nat)
         /\ Len(LineOf(o, 0, b, q)) = Len(o) + Len(q)
         /\ \A i \in 1 .. Len(o) : LineOf(o, 0, b, q)[i] = o[i].sequence
         /\ \A i \in 1 .. Len(q) : LineOf(o, 0, b, q)[Len(o) + i] = q[i].sequence
         /\ \A s \in Seq(Nat) :
              /\ Len(s) = Len(o) + Len(q)
              /\ \A i \in 1 .. Len(o) : s[i] = o[i].sequence
              /\ \A i \in 1 .. Len(q) : s[Len(o) + i] = q[i].sequence
              => s = LineOf(o, 0, b, q)
<1>1. PICK n \in 0 .. 1 : n = 0
  OBVIOUS
<1>2. /\ Len(o) \in Nat /\ Len(q) \in Nat
      /\ LineOf(o, n, b, q) \in Seq(Nat)
      /\ Len(LineOf(o, n, b, q)) = Len(o) + n + Len(q)
      /\ \A i \in 1 .. Len(o) : LineOf(o, n, b, q)[i] = o[i].sequence
      /\ \A i \in 1 .. Len(q) : LineOf(o, n, b, q)[Len(o) + n + i] = q[i].sequence
  <2>1. LaysOut(LineOf(o, n, b, q), o, n, b, q)
    BY LineElements
  <2>2. Len(o) \in Nat /\ Len(q) \in Nat
    BY LenProperties
  <2> QED BY <2>1, <2>2 DEF LaysOut
<1>3. Len(o) + n = Len(o)
  BY <1>1, <1>2
<1>4. ASSUME NEW s \in Seq(Nat), Len(s) = Len(o) + Len(q),
             \A i \in 1 .. Len(o) : s[i] = o[i].sequence,
             \A i \in 1 .. Len(q) : s[Len(o) + i] = q[i].sequence
      PROVE  s = LineOf(o, n, b, q)
  <2>1. Len(s) = Len(o) + n + Len(q) /\ ~(n = 1)
    BY <1>1, <1>3, <1>4
  <2>2. \A i \in 1 .. Len(q) : s[Len(o) + n + i] = q[i].sequence
    BY <1>3, <1>4
  <2>3. LaysOut(s, o, n, b, q)
    BY <1>4, <2>1, <2>2 DEF LaysOut
  <2> QED BY <2>3, IsLineOf
<1> QED BY <1>1, <1>2, <1>3, <1>4

\* The line while the worker holds a block.
LEMMA FullHanded ==
  ASSUME NEW o \in Seq(Blocks), NEW b \in DryBlocks, NEW q \in Seq(DryBlocks)
  PROVE  /\ LineOf(o, 1, b, q) \in Seq(Nat)
         /\ Len(LineOf(o, 1, b, q)) = Len(o) + 1 + Len(q)
         /\ \A i \in 1 .. Len(o) : LineOf(o, 1, b, q)[i] = o[i].sequence
         /\ LineOf(o, 1, b, q)[Len(o) + 1] = b.sequence
         /\ \A i \in 1 .. Len(q) : LineOf(o, 1, b, q)[Len(o) + 1 + i] = q[i].sequence
<1>1. PICK n \in 0 .. 1 : n = 1
  OBVIOUS
<1>2. /\ Len(o) \in Nat /\ Len(q) \in Nat
      /\ LineOf(o, n, b, q) \in Seq(Nat)
      /\ Len(LineOf(o, n, b, q)) = Len(o) + n + Len(q)
      /\ \A i \in 1 .. Len(o) : LineOf(o, n, b, q)[i] = o[i].sequence
      /\ n = 1 => LineOf(o, n, b, q)[Len(o) + 1] = b.sequence
      /\ \A i \in 1 .. Len(q) : LineOf(o, n, b, q)[Len(o) + n + i] = q[i].sequence
  <2>1. LaysOut(LineOf(o, n, b, q), o, n, b, q)
    BY LineElements
  <2>2. Len(o) \in Nat /\ Len(q) \in Nat
    BY LenProperties
  <2> QED BY <2>1, <2>2 DEF LaysOut
<1> QED BY <1>1, <1>2

\* A pop by the worker leaves the line as it is.
LEMMA LinePops ==
  ASSUME NEW o \in Seq(Blocks), NEW b \in DryBlocks, NEW q \in Seq(DryBlocks), q # <<>>
  PROVE  LineOf(o, 1, Head(q), Tail(q)) = LineOf(o, 0, b, q)
<1> DEFINE s == LineOf(o, 0, b, q)
           r == Tail(q)
<1>1. Len(o) \in Nat /\ Len(q) \in Nat
  BY LenProperties
<1>2. /\ s \in Seq(Nat)
      /\ Len(s) = Len(o) + Len(q)
      /\ \A i \in 1 .. Len(o) : s[i] = o[i].sequence
      /\ \A i \in 1 .. Len(q) : s[Len(o) + i] = q[i].sequence
  BY EmptyHanded
<1> HIDE DEF s
<1>3. /\ Head(q) \in DryBlocks /\ Head(q) = q[1] /\ r \in Seq(DryBlocks)
      /\ Len(q) > 0 /\ Len(r) = Len(q) - 1
      /\ \A i \in 1 .. Len(r) : r[i] = q[i + 1]
  BY HeadTailProperties, EmptySeq
<1> HIDE DEF r
<1>4. Len(s) = Len(o) + 1 + Len(r)
  BY <1>1, <1>2, <1>3
<1>5. s[Len(o) + 1] = Head(q).sequence
  <2>1. 1 \in 1 .. Len(q)
    BY <1>1, <1>2, <1>3
  <2> QED BY <2>1, <1>2, <1>3
<1>6. ASSUME NEW i \in 1 .. Len(r) PROVE s[Len(o) + 1 + i] = r[i].sequence
  <2>1. i + 1 \in 1 .. Len(q) /\ Len(o) + (i + 1) = Len(o) + 1 + i
    BY <1>1, <1>2, <1>3
  <2>2. s[Len(o) + (i + 1)] = q[i + 1].sequence
    BY <2>1, <1>2
  <2> QED BY <2>1, <2>2, <1>3
<1>7. s = LineOf(o, 1, Head(q), r)
  <2>1. PICK n \in 0 .. 1 : n = 1
    OBVIOUS
  <2>2. PICK x \in DryBlocks : x = Head(q)
    BY <1>3
  <2>3. LaysOut(s, o, n, x, r)
    BY <2>1, <2>2, <1>2, <1>4, <1>5, <1>6 DEF LaysOut
  <2>4. r \in Seq(DryBlocks)
    BY <1>3
  <2>5. s = LineOf(o, n, x, r)
    BY <2>3, <2>4, IsLineOf
  <2> QED BY <2>1, <2>2, <2>5
<1> QED BY <1>7 DEF s, r

\* So does a push by the worker.
LEMMA LinePushes ==
  ASSUME NEW o \in Seq(Blocks), NEW b \in DryBlocks, NEW c \in DryBlocks,
         NEW q \in Seq(DryBlocks), NEW x \in Blocks, x.sequence = b.sequence
  PROVE  LineOf(Append(o, x), 0, c, q) = LineOf(o, 1, b, q)
<1> DEFINE s == LineOf(o, 1, b, q)
           p == Append(o, x)
<1>1. Len(o) \in Nat /\ Len(q) \in Nat
  BY LenProperties
<1>2. /\ s \in Seq(Nat)
      /\ Len(s) = Len(o) + 1 + Len(q)
      /\ \A i \in 1 .. Len(o) : s[i] = o[i].sequence
      /\ s[Len(o) + 1] = b.sequence
      /\ \A i \in 1 .. Len(q) : s[Len(o) + 1 + i] = q[i].sequence
  BY FullHanded
<1> HIDE DEF s
<1>3. /\ p \in Seq(Blocks) /\ Len(p) = Len(o) + 1
      /\ \A i \in 1 .. Len(o) : p[i] = o[i]
      /\ p[Len(o) + 1] = x
  BY AppendProperties
<1> HIDE DEF p
<1>4. Len(s) = Len(p) + Len(q)
  BY <1>1, <1>2, <1>3
<1>5. ASSUME NEW i \in 1 .. Len(p) PROVE s[i] = p[i].sequence
  <2>1. CASE i = Len(o) + 1
    BY <2>1, <1>1, <1>2, <1>3
  <2>2. CASE i # Len(o) + 1
    <3>1. i \in 1 .. Len(o)
      BY <2>2, <1>1, <1>2, <1>3
    <3> QED BY <3>1, <1>2, <1>3
  <2> QED BY <2>1, <2>2
<1>6. ASSUME NEW i \in 1 .. Len(q) PROVE s[Len(p) + i] = q[i].sequence
  <2>1. Len(p) + i = Len(o) + 1 + i
    BY <1>1, <1>2, <1>3
  <2> QED BY <2>1, <1>2
<1>7. s = LineOf(p, 0, c, q)
  <2>1. \A v \in Seq(Nat) :
          /\ Len(v) = Len(p) + Len(q)
          /\ \A i \in 1 .. Len(p) : v[i] = p[i].sequence
          /\ \A i \in 1 .. Len(q) : v[Len(p) + i] = q[i].sequence
          => v = LineOf(p, 0, c, q)
    <3>1. p \in Seq(Blocks)
      BY <1>3
    <3> QED BY <3>1, EmptyHanded
  <2> QED BY <2>1, <1>2, <1>4, <1>5, <1>6
<1> QED BY <1>7 DEF s, p

\* What a loss does to the line.
LEMMA Removal ==
  ASSUME NEW u \in Seq(Nat), NEW k \in Nat
  PROVE  DelayLine!RemoveAt(u, k) = SubSeq(u, 1, k - 1) \o SubSeq(u, k + 1, Len(u))
BY DEF DelayLine!RemoveAt

\* A block the worker drops leaves from behind the output queue.
LEMMA LineDrops ==
  ASSUME NEW o \in Seq(Blocks), NEW b \in DryBlocks, NEW c \in DryBlocks,
         NEW q \in Seq(DryBlocks)
  PROVE  /\ Len(o) + 1 \in DOMAIN LineOf(o, 1, b, q)
         /\ LineOf(o, 0, c, q) = DelayLine!RemoveAt(LineOf(o, 1, b, q), Len(o) + 1)
<1> DEFINE t == LineOf(o, 1, b, q)
           front == SubSeq(t, 1, Len(o))
           back == SubSeq(t, Len(o) + 2, Len(t))
           s == front \o back
<1>1. Len(o) \in Nat /\ Len(q) \in Nat
  BY LenProperties
<1>2. /\ t \in Seq(Nat)
      /\ Len(t) = Len(o) + 1 + Len(q)
      /\ \A i \in 1 .. Len(o) : t[i] = o[i].sequence
      /\ \A i \in 1 .. Len(q) : t[Len(o) + 1 + i] = q[i].sequence
  BY FullHanded
<1> HIDE DEF t
<1>3. /\ DOMAIN t = 1 .. Len(t) /\ Len(o) + 1 \in 1 .. Len(t)
      /\ \A i \in 1 .. Len(t) : t[i] \in Nat
  <2>1. DOMAIN t = 1 .. Len(t) /\ \A i \in 1 .. Len(t) : t[i] \in Nat
    BY <1>2, LenProperties, ElementOfSeq
  <2> QED BY <2>1, <1>1, <1>2
<1>4. /\ front \in Seq(Nat) /\ Len(front) = Len(o)
      /\ \A i \in 1 .. Len(o) : front[i] = t[i]
  <2>1. 1 \in Int /\ Len(o) \in Int /\ \A i \in 1 .. Len(o) : t[i] \in Nat
    BY <1>1, <1>2, <1>3
  <2>2. /\ front \in Seq(Nat) /\ Len(front) = IF 1 <= Len(o) THEN Len(o) - 1 + 1 ELSE 0
        /\ \A i \in 1 .. Len(o) - 1 + 1 : front[i] = t[1 + i - 1]
    BY <2>1, SubSeqProperties
  <2> QED BY <2>2, <1>1, <1>2
<1>5. /\ back \in Seq(Nat) /\ Len(back) = Len(q)
      /\ \A i \in 1 .. Len(q) : back[i] = t[Len(o) + 1 + i]
  <2> DEFINE m == Len(o) + 2
  <2>1. m \in Int /\ Len(t) \in Int /\ Len(t) - m + 1 = Len(q)
    BY <1>1, <1>2
  <2>2. \A i \in m .. Len(t) : t[i] \in Nat
    BY <1>1, <1>2, <1>3
  <2>3. /\ back \in Seq(Nat) /\ Len(back) = IF m <= Len(t) THEN Len(t) - m + 1 ELSE 0
        /\ \A i \in 1 .. Len(t) - m + 1 : back[i] = t[m + i - 1]
    <3> HIDE DEF m
    <3>1. back = SubSeq(t, m, Len(t))
      BY DEF m
    <3> HIDE DEF back
    <3> QED BY <2>1, <2>2, <3>1, SubSeqProperties
  <2>4. \A i \in 1 .. Len(q) : m + i - 1 = Len(o) + 1 + i
    BY <1>1, <1>2
  <2> QED BY <2>1, <2>3, <2>4, <1>1, <1>2
<1> HIDE DEF front, back
<1>6. /\ s \in Seq(Nat) /\ Len(s) = Len(o) + Len(q)
      /\ \A i \in 1 .. Len(o) + Len(q) :
           s[i] = IF i <= Len(o) THEN front[i] ELSE back[i - Len(o)]
  <2>1. /\ s \in Seq(Nat) /\ Len(s) = Len(front) + Len(back)
        /\ \A i \in 1 .. Len(front) + Len(back) :
             s[i] = IF i <= Len(front) THEN front[i] ELSE back[i - Len(front)]
    <3>1. front \in Seq(Nat) /\ back \in Seq(Nat)
      BY <1>4, <1>5
    <3> QED BY <3>1, ConcatProperties
  <2>2. Len(front) = Len(o) /\ Len(back) = Len(q)
    BY <1>4, <1>5
  <2> QED BY <2>1, <2>2, <1>1
<1> HIDE DEF s
<1>7. ASSUME NEW i \in 1 .. Len(o) PROVE s[i] = o[i].sequence
  <2>1. i \in 1 .. Len(o) + Len(q) /\ i <= Len(o)
    BY <1>1, <1>2
  <2> QED BY <2>1, <1>2, <1>4, <1>6
<1>8. ASSUME NEW i \in 1 .. Len(q) PROVE s[Len(o) + i] = q[i].sequence
  <2>1. ASSUME NEW k \in 1 .. Len(o) + Len(q), ~(k <= Len(o)), NEW j, k - Len(o) = j
        PROVE  s[k] = back[j]
    BY <2>1, <1>6
  <2>2. Len(o) + i \in 1 .. Len(o) + Len(q) /\ ~(Len(o) + i <= Len(o))
        /\ Len(o) + i - Len(o) = i
    BY <1>1
  <2>3. s[Len(o) + i] = back[i]
    <3>1. PICK k \in 1 .. Len(o) + Len(q) : k = Len(o) + i
      BY <2>2
    <3>2. s[k] = back[i]
      BY <2>1, <2>2, <3>1
    <3> QED BY <3>1, <3>2
  <2> QED BY <2>1, <2>3, <1>2, <1>5
<1>9. s = LineOf(o, 0, c, q)
  BY <1>1, <1>2, <1>6, <1>7, <1>8, EmptyHanded
<1>10. s = DelayLine!RemoveAt(t, Len(o) + 1)
  <2>1. PICK k \in Nat : k = Len(o) + 1
    BY <1>1
  <2>2. k - 1 = Len(o) /\ k + 1 = Len(o) + 2
    BY <2>1, <1>1
  <2>3. DelayLine!RemoveAt(t, k) = SubSeq(t, 1, k - 1) \o SubSeq(t, k + 1, Len(t))
    BY <1>2, Removal
  <2>4. s = SubSeq(t, 1, Len(o)) \o SubSeq(t, Len(o) + 2, Len(t))
    BY DEF s, front, back
  <2> QED BY <2>1, <2>2, <2>3, <2>4
<1> QED BY <1>3, <1>9, <1>10 DEF t

-----------------------------------------------------------------------------
\* The refinement.

\* The queues are bounded, and with prompt stores the worker sees every pop.
CapacityInv == Len(inputQueue) <= QueueCapacity /\ Len(outputQueue) <= QueueCapacity
PromptInv == Prompt => outUnseenPops = 0

\* No step pushes to a full queue.
LEMMA MoveKeepsCapacity ==
  ASSUME TypeOK, CapacityInv, Move PROVE CapacityInv'
<1>0. /\ Len(inputQueue) \in Nat /\ Len(outputQueue) \in Nat /\ QueueCapacity \in Nat
      /\ Len(inputQueue) <= QueueCapacity /\ Len(outputQueue) <= QueueCapacity
  BY LineTypes, QueueCapacityAssumption DEF CapacityInv
<1>1. Len(inputQueue') <= QueueCapacity
  <2>1. CASE Accepted
    BY <2>1, <1>0, AcceptedQueue DEF Accepted
  <2>2. CASE Popped
    BY <2>2, <1>0, PoppedQueue DEF Popped
  <2>3. CASE Cleared
    BY <2>3, <1>0, EmptySeq DEF Cleared
  <2>4. CASE inputQueue' = inputQueue
    BY <2>4, <1>0
  <2> QED BY <2>1, <2>2, <2>3, <2>4
          DEF Move, TakesNumber, Refused, Late, Consumed, Pushed, Dropped, LineStays
<1>2. Len(outputQueue') <= QueueCapacity
  <2>1. CASE Pushed
    BY <2>1, <1>0, PushedQueue DEF Pushed
  <2>2. CASE Consumed
    BY <2>2, <1>0, ConsumedQueue DEF Consumed
  <2>3. CASE Cleared
    BY <2>3, <1>0, EmptySeq DEF Cleared
  <2>4. CASE outputQueue' = outputQueue
    BY <2>4, <1>0
  <2> QED BY <2>1, <2>2, <2>3, <2>4
          DEF Move, TakesNumber, Refused, Accepted, Late, Popped, Dropped, LineStays
<1> QED BY <1>1, <1>2 DEF CapacityInv

\* Where stores are prompt, none of the pops is unseen.
LEMMA StepKeepsPrompt ==
  ASSUME TypeOK, PromptInv, [Next]_vars PROVE PromptInv'
<1> SUFFICES ASSUME Prompt PROVE outUnseenPops' = 0
  BY DEF PromptInv
<1>0. outUnseenPops = 0
  BY DEF PromptInv
<1> USE DEF outVars, outputQueueVars
<1>1. CASE UNCHANGED outVars \/ UNCHANGED outputQueueVars
  BY <1>0, <1>1
<1>2. CASE \E copied \in BOOLEAN : ConsumeOutput(copied)
  BY <1>0, <1>2 DEF ConsumeOutput, Out!TryPop, Out!Lag
<1>3. CASE PushOutput
  BY <1>0, <1>3 DEF PushOutput, Out!TryPush
<1>4. CASE ClearQueuesWhenStopped
  BY <1>4 DEF ClearQueuesWhenStopped, Out!Reset
<1>5. CASE Notice
  BY <1>0, <1>1, <1>5 DEF Notice, Out!NoticePops, Out!NoticePushes
<1>6. SubmitSupported \/ SubmitUnsupported \/ PushInput \/ CheckRunning \/ LookForInput
      \/ PopInput \/ (\E converted \in BOOLEAN : Process(converted)) \/ CountProcessed
      \/ Start \/ Stop \/ SpawnFails \/ Spawn \/ Join
      \/ (\E b \in Backends \cup {NoBackend} : SetInferenceBackend(b)) \/ UNCHANGED vars
      => UNCHANGED outVars
  BY DEF SubmitSupported, SubmitUnsupported, PushInput, CheckRunning, LookForInput, PopInput,
         Process, CountProcessed, Start, Stop, SpawnFails, Spawn, Join, SetInferenceBackend, vars
<1> QED BY <1>1, <1>2, <1>3, <1>4, <1>5, <1>6 DEF Next, AudioStep, WorkerStep, ControlStep

\* Both hold in every behaviour.
THEOREM CapacityInvariance == Spec => [](CapacityInv /\ PromptInv)
<1>1. Init => CapacityInv /\ PromptInv
  <2> SUFFICES ASSUME Init PROVE CapacityInv /\ PromptInv
    OBVIOUS
  <2>1. Len(inputQueue) = 0 /\ Len(outputQueue) = 0 /\ outUnseenPops = 0
    BY EmptySeq DEF Init, In!Init, Out!Init
  <2> QED BY <2>1, QueueCapacityAssumption DEF CapacityInv, PromptInv
<1>2. TypeOK /\ ControlKnowsWorker /\ WorkerHasInput /\ OutputIsFresh
      /\ CapacityInv /\ PromptInv /\ [Next]_vars => (CapacityInv /\ PromptInv)'
  BY StepMoves, MoveKeepsCapacity, StepKeepsPrompt
<1> QED BY <1>1, <1>2, TypeCorrect, ControlInvariance, WorkerPops, OutputFreshness, PTL DEF Spec

\* The line of the pipeline, now and next.
LEMMA LineIs ==
  /\ Line = LineOf(outputQueue, Held, input, inputQueue)
  /\ Line' = LineOf(outputQueue', Held', input', inputQueue')
<1>1. (Held = 1 <=> Holding) /\ (Held' = 1 <=> Holding')
  BY DEF Held, OneIf
<1>2. Line = LineOf(outputQueue, Held, input, inputQueue)
  BY <1>1 DEF Line, LineOf, Numbers, Between
<1>3. Line' = LineOf(outputQueue', Held', input', inputQueue')
  BY <1>1 DEF Line, LineOf, Numbers, Between
<1> QED BY <1>2, <1>3

\* Every block of the line is older than the next one.
LEMMA LineIsOlder ==
  ASSUME TypeOK, BehindInv
  PROVE  /\ Line \in Seq(Nat)
         /\ Len(Line) = Len(outputQueue) + Held + Len(inputQueue)
         /\ \A i \in DOMAIN Line : Line[i] < Limit
<1>1. /\ Len(inputQueue) \in Nat /\ Len(outputQueue) \in Nat /\ Held \in 0 .. 1
      /\ input.sequence \in Nat /\ Limit \in Nat
  BY LineTypes
<1>2. /\ outputQueue \in Seq(Blocks) /\ inputQueue \in Seq(DryBlocks) /\ input \in DryBlocks
  BY DEF TypeOK, QueueTypeOK
<1>3. /\ Line \in Seq(Nat)
      /\ Len(Line) = Len(outputQueue) + Held + Len(inputQueue)
      /\ \A i \in 1 .. Len(outputQueue) : Line[i] = outputQueue[i].sequence
      /\ Held = 1 => Line[Len(outputQueue) + 1] = input.sequence
      /\ \A i \in 1 .. Len(inputQueue) :
           Line[Len(outputQueue) + Held + i] = inputQueue[i].sequence
  <2> DEFINE t == LineOf(outputQueue, Held, input, inputQueue)
  <2>1. /\ t \in Seq(Nat)
        /\ Len(t) = Len(outputQueue) + Held + Len(inputQueue)
        /\ \A i \in 1 .. Len(outputQueue) : t[i] = outputQueue[i].sequence
        /\ Held = 1 => t[Len(outputQueue) + 1] = input.sequence
        /\ \A i \in 1 .. Len(inputQueue) :
             t[Len(outputQueue) + Held + i] = inputQueue[i].sequence
    <3>1. Held \in 0 .. 1
      BY <1>1
    <3>2. LaysOut(t, outputQueue, Held, input, inputQueue)
      BY <3>1, <1>2, LineElements
    <3> QED BY <3>2 DEF LaysOut
  <2>2. Line = t
    BY LineIs
  <2> HIDE DEF t
  <2> QED BY <2>1, <2>2
<1>4. DOMAIN Line = 1 .. Len(Line)
  BY <1>3, LenProperties
<1>5. ASSUME NEW i \in 1 .. Len(Line) PROVE Line[i] < Limit
  <2>1. CASE i <= Len(outputQueue)
    <3>1. i \in 1 .. Len(outputQueue)
      BY <2>1, <1>1
    <3>2. /\ outputQueue[i].sequence + (Len(outputQueue) - i) + Held + Len(inputQueue) < Limit
          /\ outputQueue[i].sequence \in Nat /\ i \in Nat
      BY <3>1, LineTypes DEF BehindInv
    <3>3. outputQueue[i].sequence < Limit
      BY <3>2, <2>1, <1>1
    <3> QED BY <3>1, <3>3, <1>3
  <2>2. CASE i = Len(outputQueue) + 1 /\ Held = 1
    <3>1. input.sequence + Len(inputQueue) < Limit
      BY <2>2 DEF BehindInv
    <3>2. Line[i] = input.sequence
      BY <2>2, <1>3
    <3> QED BY <3>1, <3>2, <1>1
  <2>3. CASE i > Len(outputQueue) + Held
    <3>1. PICK j \in 1 .. Len(inputQueue) : i = Len(outputQueue) + Held + j
      <4>1. i - (Len(outputQueue) + Held) \in 1 .. Len(inputQueue)
        BY <2>3, <1>1, <1>3
      <4>2. i = Len(outputQueue) + Held + (i - (Len(outputQueue) + Held))
        BY <1>1
      <4> QED BY <4>1, <4>2
    <3>2. /\ inputQueue[j].sequence + (Len(inputQueue) - j) < Limit
          /\ inputQueue[j].sequence \in Nat /\ j \in Nat
      BY LineTypes DEF BehindInv
    <3>3. inputQueue[j].sequence < Limit
      BY <3>2, <1>1
    <3> QED BY <3>1, <3>3, <1>3
  <2> QED BY <2>1, <2>2, <2>3, <1>1
<1> QED BY <1>3, <1>4, <1>5

\* Every move is a step of the delay line, or leaves it as it is.
LEMMA MoveIsLineStep ==
  ASSUME TypeOK, TypeOK', AgeInv, CapacityInv, PromptInv, CallsAreAnswered, Move
  PROVE  DelayLine!Next \/ UNCHANGED DelayLine!vars
<1>0. /\ outputQueue \in Seq(Blocks) /\ inputQueue \in Seq(DryBlocks)
      /\ input \in DryBlocks /\ input' \in DryBlocks
      /\ inputScratch \in DryBlocks /\ output \in Blocks
  BY DEF TypeOK, QueueTypeOK
<1>1. /\ Len(inputQueue) \in Nat /\ Len(outputQueue) \in Nat /\ Held \in 0 .. 1
      /\ nextSequence \in Nat /\ Limit \in Nat /\ QueueCapacity \in Nat
      /\ Len(inputQueue) <= QueueCapacity /\ Len(outputQueue) <= QueueCapacity
  BY LineTypes, QueueCapacityAssumption DEF CapacityInv
<1>2. /\ Line = LineOf(outputQueue, Held, input, inputQueue)
      /\ Line' = LineOf(outputQueue', Held', input', inputQueue')
  BY LineIs
<1>3. /\ Line \in Seq(Nat)
      /\ Len(Line) = Len(outputQueue) + Held + Len(inputQueue)
      /\ \A i \in DOMAIN Line : Line[i] < Limit
  BY LineIsOlder DEF AgeInv
<1>4. ASSUME Held' = Held, Held = 1 => input' = input, NEW o, NEW q
      PROVE  LineOf(o, Held', input', q) = LineOf(o, Held, input, q)
  BY <1>4 DEF LineOf, Between
<1>5. ASSUME LineStays PROVE Line' = Line /\ outputScratch' = outputScratch
  <2>1. Held' = Held /\ (Held = 1 => input' = input)
    BY <1>5 DEF LineStays, Held, OneIf
  <2>2. /\ inputQueue' = inputQueue /\ outputQueue' = outputQueue
        /\ outputScratch' = outputScratch
    BY <1>5 DEF LineStays
  <2> QED BY <2>1, <2>2, <1>2, <1>4
<1>6. CASE TakesNumber
  <2>1. LineStays /\ nextSequence' = nextSequence + 1
    BY <1>6 DEF TakesNumber
  <2>2. nextSequence' - 1 = nextSequence - 1 + 1
    BY <2>1, <1>1
  <2>3. DelayLine!Number
    BY <2>1, <2>2, <1>5 DEF DelayLine!Number
  <2> QED BY <2>3 DEF DelayLine!Next
<1>7. CASE LineStays /\ nextSequence' = nextSequence
  BY <1>7, <1>5 DEF DelayLine!vars
<1>8. CASE Accepted
  <2>1. /\ inputQueue' = Append(inputQueue, inputScratch) /\ outputQueue' = outputQueue
        /\ outputScratch' = outputScratch /\ nextSequence' = nextSequence
        /\ Len(inputQueue) < QueueCapacity
    BY <1>8 DEF Accepted
  <2>2. Held' = Held /\ (Held = 1 => input' = input)
    BY <1>8 DEF Accepted, Held, OneIf
  <2>3. inputScratch.sequence = nextSequence - 1 /\ Limit = nextSequence - 1
    <3>1. inputScratch.sequence \in Nat
      BY LineTypes
    <3>2. inputScratch.sequence + 1 = nextSequence /\ Limit = inputScratch.sequence
      BY <1>8 DEF Accepted, AgeInv, NumberInv, Limit
    <3> QED BY <3>1, <3>2, <1>1
  <2>4. Line' = Append(Line, nextSequence - 1)
    <3>1. Line' = LineOf(outputQueue, Held, input, Append(inputQueue, inputScratch))
      BY <2>1, <2>2, <1>2, <1>4
    <3>2. LineOf(outputQueue, Held, input, Append(inputQueue, inputScratch))
            = Append(Line, inputScratch.sequence)
      BY <1>0, <1>1, <1>2, LineAccepts
    <3> QED BY <3>1, <3>2, <2>3
  <2>5. Len(Line) < 2 * QueueCapacity + 1
    BY <2>1, <1>1, <1>3
  <2>6. DelayLine!Accept
    BY <2>1, <2>3, <2>4, <2>5, <1>3 DEF DelayLine!Accept
  <2> QED BY <2>6 DEF DelayLine!Next
<1>9. CASE Consumed
  <2>1. /\ outputQueue # <<>> /\ outputQueue' = Tail(outputQueue)
        /\ outputScratch' = Head(outputQueue)
        /\ inputQueue' = inputQueue /\ nextSequence' = nextSequence
    BY <1>9 DEF Consumed
  <2>2. Held' = Held /\ (Held = 1 => input' = input)
    BY <1>9 DEF Consumed, Held, OneIf
  <2>3. Line' = LineOf(Tail(outputQueue), Held, input, inputQueue)
    BY <2>1, <2>2, <1>2, <1>4
  <2>4. /\ Line # <<>> /\ Head(Line) = Head(outputQueue).sequence
        /\ Tail(Line) = LineOf(Tail(outputQueue), Held, input, inputQueue)
    <3>1. /\ outputQueue \in Seq(Blocks) /\ inputQueue \in Seq(DryBlocks)
          /\ input \in DryBlocks /\ Held \in 0 .. 1 /\ outputQueue # <<>>
      BY <2>1, <1>0, <1>1
    <3>2. /\ LineOf(outputQueue, Held, input, inputQueue) # <<>>
          /\ Head(LineOf(outputQueue, Held, input, inputQueue)) = Head(outputQueue).sequence
          /\ Tail(LineOf(outputQueue, Held, input, inputQueue))
               = LineOf(Tail(outputQueue), Held, input, inputQueue)
      BY <3>1, LineConsumes
    <3> QED BY <3>2, <1>2
  <2>5. DelayLine!Consume
    BY <2>1, <2>3, <2>4 DEF DelayLine!Consume
  <2> QED BY <2>5 DEF DelayLine!Next
<1>10. CASE Popped
  <2>1. /\ inputQueue # <<>> /\ inputQueue' = Tail(inputQueue) /\ input' = Head(inputQueue)
        /\ UNCHANGED <<outputQueue, outputScratch, nextSequence>>
    BY <1>10 DEF Popped, AudioStays
  <2>2. Held = 0 /\ Held' = 1
    BY <1>10 DEF Popped, Held, OneIf
  <2>3. Line' = Line
    BY <2>1, <2>2, <1>0, <1>2, LinePops
  <2> QED BY <2>1, <2>3 DEF DelayLine!vars
<1>11. CASE Pushed
  <2>1. /\ outputQueue' = Append(outputQueue, output) /\ output.sequence = input.sequence
        /\ UNCHANGED <<inputQueue, outputScratch, nextSequence>>
    BY <1>11 DEF Pushed, AudioStays
  <2>2. Held = 1 /\ Held' = 0
    BY <1>11 DEF Pushed, Held, OneIf
  <2>3. Line' = Line
    BY <2>1, <2>2, <1>0, <1>2, LinePushes
  <2> QED BY <2>1, <2>3 DEF DelayLine!vars
<1>12. CASE Dropped
  <2>1. /\ Len(outputQueue) + outUnseenPops >= QueueCapacity
        /\ UNCHANGED <<inputQueue, outputQueue, outputScratch, nextSequence>>
    BY <1>12 DEF Dropped, AudioStays
  <2>2. Held = 1 /\ Held' = 0
    BY <1>12 DEF Dropped, Held, OneIf
  <2> DEFINE i == Len(outputQueue) + 1
  <2>3. /\ i \in DOMAIN Line
        /\ Line' = DelayLine!RemoveAt(Line, i)
    BY <2>1, <2>2, <1>0, <1>2, LineDrops
  <2>4. Prompt => i > QueueCapacity
    <3>1. ASSUME Prompt PROVE outUnseenPops = 0
      BY <3>1 DEF PromptInv
    <3>2. outUnseenPops = 0 => i > QueueCapacity
      BY <2>1, <1>1
    <3> QED BY <3>1, <3>2
  <2> HIDE DEF i
  <2>5. DelayLine!Lose(i)
    BY <2>1, <2>3, <2>4 DEF DelayLine!Lose
  <2> QED BY <2>3, <2>5 DEF DelayLine!Next
<1>13. CASE Cleared
  <2>1. /\ inputQueue' = <<>> /\ outputQueue' = <<>> /\ nextSequence' = nextSequence
        /\ outputScratch'.sequence = 0
    BY <1>13 DEF Cleared, EmptyBlock
  <2>2. ~Holding'
    BY <1>13 DEF Cleared
  <2>3. Line' = <<>>
    BY <2>1, <2>2 DEF Line
  <2>4. DelayLine!Clear
    BY <2>1, <2>3 DEF DelayLine!Clear
  <2> QED BY <2>4 DEF DelayLine!Next
<1> QED BY <1>6, <1>7, <1>8, <1>9, <1>10, <1>11, <1>12, <1>13
        DEF Move, Refused, Late, AudioStays

\* The pipeline is a delay line: whatever the two queues, the worker, a stop, a
\* restart or a clear do, blocks are consumed in the order they were submitted,
\* none twice, and none is lost on the way unless the output queue looks full.
THEOREM DelayLineImplemented == Spec => ImplementsDelayLine
<1>1. Init => DelayLine!Init
  <2> SUFFICES ASSUME Init PROVE DelayLine!Init
    OBVIOUS
  <2>1. /\ inputQueue = <<>> /\ outputQueue = <<>> /\ outputScratch.sequence = 0
        /\ nextSequence = 1 /\ ~Holding
    BY DEF Init, In!Init, Out!Init, EmptyBlock, Holding
  <2>2. Line = <<>>
    BY <2>1 DEF Line
  <2> QED BY <2>1, <2>2 DEF DelayLine!Init
<1>2. /\ TypeOK /\ TypeOK' /\ ControlKnowsWorker /\ WorkerHasInput /\ OutputIsFresh /\ AgeInv
      /\ CapacityInv /\ PromptInv /\ CallsAreAnswered /\ [Next]_vars
      => [DelayLine!Next]_(DelayLine!vars)
  BY StepMoves, MoveIsLineStep
<1> QED BY <1>1, <1>2, TypeCorrect, ControlInvariance, WorkerPops, OutputFreshness,
           AgeInvariance, CapacityInvariance, CallsAnswered, PTL
        DEF Spec, ImplementsDelayLine, DelayLine!Spec
=============================================================================
