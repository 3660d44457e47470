---------------------------- MODULE ProgramProofs ----------------------------
(***************************************************************************)
(* Proofs about the two programs that use the pipeline, RealtimeApp and    *)
(* Benchmark, for every queue capacity and any number of callbacks,        *)
(* devices and resets.                                                     *)
(*                                                                         *)
(* Every step of a program is a step of the pipeline or leaves it alone,   *)
(* so what is proved of the pipeline holds in it; the order of the         *)
(* program's life is an invariant on top, and so is what it read of the    *)
(* counters.                                                               *)
(***************************************************************************)
EXTENDS RealtimeApp, Benchmark, AudioWorkerPipelineProofs, WellFoundedInduction

\* The application uses the pipeline as its module says it may be used: the
\* behaviours of the application, seen at the pipeline's variables, are behaviours
\* of AudioWorkerPipeline.
THEOREM PipelineOfApp == AppSpec => Spec
<1>1. AppInit => Init
  BY DEF AppInit
<1>2. [AppNext]_appVars => [Next]_vars
  <2> SUFFICES ASSUME [AppNext]_appVars PROVE [Next]_vars
    OBVIOUS
  <2>1. CASE NullBuffer
    BY <2>1 DEF NullBuffer
  <2>2. CASE GetNextAudioBlock
    BY <2>2 DEF GetNextAudioBlock, Next
  <2>3. CASE Shadow
    BY <2>3 DEF Shadow, Next, AudioStep
  <2>4. CASE PassThrough
    BY <2>4 DEF PassThrough
  <2>5. CASE Work
    BY <2>5 DEF Work, Next, WorkerStep
  <2>6. CASE StartWorker
    BY <2>6 DEF StartWorker, Next, ControlStep
  <2>7. CASE OpenDevice \/ ClickReset \/ ResetNext \/ CloseDevice \/ DeviceClosed
    BY <2>7 DEF OpenDevice, ClickReset, ResetNext, CloseDevice, DeviceClosed
  <2>8. CASE StopWorker
    BY <2>8 DEF StopWorker, Next, ControlStep
  <2>9. CASE UNCHANGED appVars
    BY <2>9 DEF appVars
  <2> QED BY <2>1, <2>2, <2>3, <2>4, <2>5, <2>6, <2>7, <2>8, <2>9
             DEF AppNext, InsideCallback, GuiGoesOn
<1> QED BY <1>1, <1>2, PTL DEF AppSpec, Spec

-----------------------------------------------------------------------------
\* The order of life.

\* Where the GUI thread stands says what there is: first neither worker nor device,
\* then the worker, then the device, and back in the opposite order.
LifeInv ==
  /\ guiStep \in GuiSteps
  /\ guiStep = "start" =>
       /\ ~deviceOpen /\ ~inCallback
       /\ controlStep \in {"idle", "spawn"}
       /\ controlStep = "idle" => ~running /\ ~Joinable
       /\ controlStep = "spawn" => running /\ ~Joinable
  /\ guiStep \in {"setAudioChannels", "open", "reset", "close"} =>
       controlStep = "idle" /\ running /\ Joinable
  /\ guiStep \in {"setAudioChannels", "stop"} => ~deviceOpen /\ ~inCallback
  /\ guiStep = "close" => ~deviceOpen
  /\ guiStep = "stop" =>
       /\ controlStep \in {"idle", "join"}
       /\ controlStep = "idle" => running /\ Joinable
       /\ controlStep = "join" => ~running
  /\ guiStep = "gone" =>
       controlStep = "idle" /\ ~running /\ ~Joinable /\ ~deviceOpen /\ ~inCallback

\* A worker in its loop stays a thread, and is the only one to change its step then.
LEMMA WorkerStays == ASSUME Work PROVE Joinable' /\ Joinable /\ UNCHANGED controlVars
BY DEF Work, CheckRunning, LookForInput, PopInput, Process, PushOutput, CountProcessed, Joinable

\* A callback leaves the worker and the control thread alone.
LEMMA CallbackLeaves ==
  ASSUME NullBuffer \/ GetNextAudioBlock \/ InsideCallback
  PROVE UNCHANGED <<controlVars, workerStep, guiStep, deviceOpen>>
BY DEF NullBuffer, GetNextAudioBlock, InsideCallback, Shadow, PassThrough, SubmitSupported,
       SubmitUnsupported, PushInput, ConsumeOutput, vars, guiVars, workerVars, controlVars

\* The order of life is inductive.
THEOREM LifeInvariance == AppSpec => []LifeInv
<1>1. AppInit => LifeInv
  BY DEF AppInit, Init, LifeInv, GuiSteps, Joinable
<1>2. LifeInv /\ [AppNext]_appVars => LifeInv'
  <2> SUFFICES ASSUME LifeInv, [AppNext]_appVars PROVE LifeInv'
    OBVIOUS
  <2> USE DEF LifeInv, GuiSteps, Joinable
  <2>1. CASE NullBuffer
    BY <2>1, CallbackLeaves DEF NullBuffer, controlVars
  <2>2. CASE GetNextAudioBlock
    BY <2>2, CallbackLeaves DEF GetNextAudioBlock, controlVars
  <2>3. CASE Shadow
    <3>1. UNCHANGED <<controlVars, workerStep, guiStep, deviceOpen, inCallback>>
      BY <2>3, CallbackLeaves DEF Shadow, InsideCallback
    <3> QED BY <3>1 DEF controlVars
  <2>4. CASE PassThrough
    <3>1. UNCHANGED <<controlVars, workerStep, guiStep, deviceOpen>> /\ ~inCallback'
      BY <2>4, CallbackLeaves DEF PassThrough, InsideCallback
    <3> QED BY <3>1 DEF controlVars
  <2>5. CASE Work
    <3>1. UNCHANGED <<controlVars, guiStep, deviceOpen, inCallback>> /\ Joinable' /\ Joinable
      BY <2>5, WorkerStays DEF Work, guiVars
    <3> QED BY <3>1 DEF controlVars
  <2>6. CASE StartWorker
    <3>1. CASE Start /\ UNCHANGED guiStep
      BY <2>6, <3>1 DEF StartWorker, Start, workerVars
    <3>2. CASE Spawn /\ guiStep' = "setAudioChannels"
      BY <2>6, <3>2 DEF StartWorker, Spawn
    <3> QED BY <2>6, <3>1, <3>2 DEF StartWorker
  <2>7. CASE OpenDevice
    BY <2>7 DEF OpenDevice, vars, workerVars, controlVars
  <2>8. CASE ClickReset
    BY <2>8 DEF ClickReset, vars, workerVars, controlVars
  <2>9. CASE ResetNext
    BY <2>9 DEF ResetNext, vars, workerVars, controlVars
  <2>10. CASE CloseDevice
    BY <2>10 DEF CloseDevice, vars, workerVars, controlVars
  <2>11. CASE DeviceClosed
    BY <2>11 DEF DeviceClosed, vars, workerVars, controlVars
  <2>12. CASE StopWorker
    <3>1. CASE Stop /\ UNCHANGED guiStep
      BY <2>12, <3>1 DEF StopWorker, Stop, workerVars
    <3>2. CASE Join /\ guiStep' = "gone"
      BY <2>12, <3>2 DEF StopWorker, Join
    <3> QED BY <2>12, <3>1, <3>2 DEF StopWorker
  <2>13. CASE UNCHANGED appVars
    BY <2>13 DEF appVars, vars, guiVars, workerVars, controlVars
  <2> QED BY <2>1, <2>2, <2>3, <2>4, <2>5, <2>6, <2>7, <2>8, <2>9, <2>10, <2>11, <2>12, <2>13
             DEF AppNext, InsideCallback, GuiGoesOn
<1> QED BY <1>1, <1>2, PTL DEF AppSpec

\* A callback finds a running pipeline with its worker, and nothing runs when the
\* engine and the pipeline are destroyed, however often the device was changed.
THEOREM LifeOrdered == AppSpec => []LifeOrder
<1>1. LifeInv => LifeOrder
  BY DEF LifeInv, LifeOrder, GuiSteps
<1> QED BY <1>1, LifeInvariance, PTL

-----------------------------------------------------------------------------
\* What a reset leaves.

\* What the pipeline's theorems say of the application's counters.
PipelineAccounts == TypeOK /\ CallsAreAnswered /\ BacklogIsLateness

\* They hold in the application.
LEMMA AccountsOfApp == AppSpec => []PipelineAccounts
BY PipelineOfApp, TypeCorrect, CallsAnswered, Lateness, PTL DEF PipelineAccounts

\* The pipeline is used in callbacks only, each of which the engine counts at its end,
\* and nothing is cleared.
CallbackInv ==
  /\ inCallback \in BOOLEAN
  /\ processedBlocks \in Nat /\ xrunCount \in Nat
  /\ audioStep # "idle" => inCallback
  /\ processedBlocks + OneIf(inCallback) = submittedBlocks + unsupportedInputBlocks
  /\ clearedInput = 0 /\ clearedOutput = 0

\* The step that starts a callback counts it as submitted or as unsupported.
LEMMA CallbackCounts ==
  ASSUME TypeOK, GetNextAudioBlock
  PROVE /\ submittedBlocks' + unsupportedInputBlocks'
             = submittedBlocks + unsupportedInputBlocks + 1
        /\ nextSequence' # nextSequence
        /\ inCallback' = TRUE /\ ~inCallback
        /\ UNCHANGED <<engineVars, clearedInput, clearedOutput>>
BY DEF TypeOK, CounterTypeOK, GetNextAudioBlock, SubmitSupported, SubmitUnsupported, controlVars

\* A step that is neither the start nor the end of a callback leaves alone what
\* CallbackInv is about.
CallbackFrame ==
  UNCHANGED <<inCallback, processedBlocks, audioStep, submittedBlocks, unsupportedInputBlocks,
              clearedInput, clearedOutput>>

\* The steps outside the callback leave what it counts alone.
LEMMA OtherStepsFrame ==
  ASSUME \/ Work \/ StartWorker \/ OpenDevice \/ ClickReset \/ ResetNext \/ CloseDevice
         \/ DeviceClosed \/ StopWorker
  PROVE CallbackFrame /\ UNCHANGED xrunCount
<1> USE DEF CallbackFrame, engineVars, controlVars, audioVars, audioCounters
<1>1. CASE Work
  BY <1>1 DEF Work, CheckRunning, LookForInput, PopInput, Process, PushOutput, CountProcessed
<1>2. CASE StartWorker
  BY <1>2 DEF StartWorker, Start, Spawn
<1>3. CASE StopWorker
  BY <1>3 DEF StopWorker, Stop, Join
<1>4. CASE OpenDevice \/ ClickReset \/ ResetNext \/ CloseDevice \/ DeviceClosed
  BY <1>4 DEF OpenDevice, ClickReset, ResetNext, CloseDevice, DeviceClosed, vars
<1> QED BY <1>1, <1>2, <1>3, <1>4

\* The engine and the pipeline count the same callbacks.
THEOREM CallbackInvariance == AppSpec => []CallbackInv
<1>1. AppInit => CallbackInv
  <2> SUFFICES ASSUME AppInit PROVE CallbackInv
    OBVIOUS
  <2>1. ~inCallback /\ inCallback \in BOOLEAN /\ audioStep = "idle"
    BY DEF AppInit, Init
  <2>2. /\ processedBlocks = 0 /\ xrunCount = 0
        /\ submittedBlocks = 0 /\ unsupportedInputBlocks = 0
        /\ clearedInput = 0 /\ clearedOutput = 0
    BY DEF AppInit, Init
  <2>3. OneIf(inCallback) = 0
    BY <2>1 DEF OneIf
  <2> QED BY <2>1, <2>2, <2>3 DEF CallbackInv
<1>2. CallbackInv /\ TypeOK /\ [AppNext]_appVars => CallbackInv'
  <2> SUFFICES ASSUME CallbackInv, TypeOK, [AppNext]_appVars PROVE CallbackInv'
    OBVIOUS
  <2>1. CASE NullBuffer
    <3>1. CallbackFrame /\ xrunCount' = xrunCount + 1
      BY <2>1 DEF NullBuffer, CallbackFrame, vars, audioVars, audioCounters, controlVars
    <3> QED BY <3>1 DEF CallbackFrame, CallbackInv, OneIf
  <2>2. CASE GetNextAudioBlock
    <3>1. /\ inCallback' = TRUE /\ ~inCallback
          /\ submittedBlocks' + unsupportedInputBlocks'
               = submittedBlocks + unsupportedInputBlocks + 1
      BY <2>2, CallbackCounts DEF CallbackInv
    <3>2. UNCHANGED <<processedBlocks, xrunCount, clearedInput, clearedOutput>>
      BY <2>2, CallbackCounts DEF engineVars
    <3> QED BY <3>1, <3>2 DEF CallbackInv, OneIf, TypeOK, CounterTypeOK
  <2>3. CASE Shadow
    <3>1. UNCHANGED <<inCallback, processedBlocks, xrunCount, submittedBlocks,
                      unsupportedInputBlocks, clearedInput, clearedOutput>>
      BY <2>3 DEF Shadow, PushInput, ConsumeOutput, engineVars, controlVars
    <3>2. inCallback
      BY <2>3 DEF Shadow
    <3> QED BY <3>1, <3>2 DEF CallbackInv, OneIf
  <2>4. CASE PassThrough
    <3>1. UNCHANGED <<xrunCount, audioStep, submittedBlocks, unsupportedInputBlocks, clearedInput,
                      clearedOutput>>
      BY <2>4 DEF PassThrough, vars, audioVars, audioCounters, controlVars
    <3>2. inCallback /\ ~inCallback' /\ inCallback' \in BOOLEAN /\ audioStep = "idle"
      BY <2>4 DEF PassThrough
    <3>3. OneIf(inCallback) = 1 /\ OneIf(inCallback)' = 0
      BY <3>2 DEF OneIf
    <3>4. processedBlocks' = processedBlocks + 1
      BY <2>4 DEF PassThrough
    <3>5. processedBlocks' \in Nat /\ processedBlocks' + 0 = processedBlocks + 1
      BY <3>4 DEF CallbackInv
    <3>6. processedBlocks' + OneIf(inCallback)' = submittedBlocks' + unsupportedInputBlocks'
      BY <3>1, <3>3, <3>5 DEF CallbackInv
    <3> QED BY <3>1, <3>2, <3>5, <3>6 DEF CallbackInv
  <2>5. CASE \/ Work \/ StartWorker \/ OpenDevice \/ ClickReset \/ ResetNext \/ CloseDevice
             \/ DeviceClosed \/ StopWorker
    <3>1. CallbackFrame /\ UNCHANGED xrunCount
      BY <2>5, OtherStepsFrame
    <3> QED BY <3>1 DEF CallbackFrame, CallbackInv, OneIf
  <2>6. CASE UNCHANGED appVars
    <3>1. CallbackFrame /\ UNCHANGED xrunCount
      BY <2>6 DEF CallbackFrame, appVars, engineVars, vars, audioVars, audioCounters, controlVars
    <3> QED BY <3>1 DEF CallbackFrame, CallbackInv, OneIf
  <2> QED BY <2>1, <2>2, <2>3, <2>4, <2>5, <2>6 DEF AppNext, InsideCallback, GuiGoesOn
<1> QED BY <1>1, <1>2, PipelineOfApp, TypeCorrect, PTL DEF AppSpec

\* Total and Count, counter by counter.
LEMMA TotalsAre ==
  /\ Total("processedBlocks") = processedBlocks /\ Total("submitted") = submittedBlocks
  /\ Total("unsupported") = unsupportedInputBlocks /\ Total("consumed") = consumedOutputBlocks
  /\ Total("late") = lateOutputBlocks
  /\ Total("droppedInput") = droppedInputBlocks /\ Total("droppedOutput") = droppedOutputBlocks
BY DEF Total

\* Where the counters stand in the order of a reset.
LEMMA CountersAre ==
  /\ Len(Counters) = 11
  /\ Counters[1] = "processedBlocks" /\ Counters[3] = "submitted" /\ Counters[5] = "consumed"
  /\ Counters[6] = "late" /\ Counters[7] = "droppedInput" /\ Counters[8] = "droppedOutput"
  /\ Counters[9] = "unsupported"
  /\ \A i \in 1 .. 11 : Counters[i] \in Names
BY DEF Counters, Names

\* Every counter is a number.
LEMMA TotalIsNumber ==
  ASSUME TypeOK, CallbackInv, NEW c \in Names PROVE Total(c) \in Int
<1>1. c \in {"processedBlocks", "xrunCount", "submitted", "workerProcessed", "consumed", "late",
             "droppedInput", "droppedOutput", "unsupported", "backendError", "nextSequence"}
  BY DEF Names, Counters
<1> QED BY <1>1 DEF Total, TypeOK, CounterTypeOK, CallbackInv

\* A step that counts nothing keeps them all.
LEMMA TotalsKeep ==
  ASSUME UNCHANGED <<engineVars, audioCounters, workerCounters>>, NEW c
  PROVE Total(c)' = Total(c)
BY DEF Total, engineVars, audioCounters, workerCounters

\* So is what is under way.
LEMMA BacklogIsNumber == ASSUME TypeOK PROVE Backlog \in Nat
<1>1. Len(inputQueue) \in Nat /\ Len(outputQueue) \in Nat
  BY LenProperties DEF TypeOK, QueueTypeOK
<1>2. OneIf(Holding) \in Nat
  BY DEF OneIf
<1> QED BY <1>1, <1>2 DEF Backlog

\* The accounts of what the counters held when they were reset.
BaseAccounts ==
  /\ base["processedBlocks"] = base["submitted"] + base["unsupported"]
  /\ base["submitted"] + base["unsupported"] = base["consumed"] + base["late"]
  /\ base["late"] = backlogAtReset + base["droppedInput"] + base["droppedOutput"]

\* While a clean reset goes on no counter moves, so that what was taken one after
\* the other is of one moment, between callbacks.
ResetInv ==
  /\ base \in [Names -> Int] /\ backlogAtReset \in Nat
  /\ guiStep = "reset" => resetNext \in 1 .. 11
  /\ clean /\ guiStep = "reset" =>
       /\ ~inCallback
       /\ lateOutputBlocks = backlogAtReset + droppedInputBlocks + droppedOutputBlocks
       /\ \A i \in 1 .. resetNext - 1 : base[Counters[i]] = Total(Counters[i])
  /\ clean /\ guiStep # "reset" => BaseAccounts

\* A step of another thread than the GUI's.
LEMMA OthersKeepReset ==
  ASSUME ResetInv, UNCHANGED guiVars, KeepsClean,
         clean' /\ guiStep = "reset" => ~inCallback'
  PROVE ResetInv'
<1> USE DEF guiVars
<1>1. CASE clean' /\ guiStep = "reset"
  <2>1. clean /\ UNCHANGED <<engineVars, audioCounters, workerCounters>>
    BY <1>1 DEF KeepsClean
  <2>2. \A i \in 1 .. resetNext - 1 : base[Counters[i]] = Total(Counters[i])'
    BY <1>1, <2>1, TotalsKeep DEF ResetInv
  <2>3. lateOutputBlocks' = backlogAtReset + droppedInputBlocks' + droppedOutputBlocks'
    BY <1>1, <2>1 DEF ResetInv, audioCounters, workerCounters
  <2> QED BY <1>1, <2>2, <2>3 DEF ResetInv
<1>2. CASE ~clean'
  BY <1>2 DEF ResetInv
<1>3. CASE clean' /\ guiStep # "reset"
  <2>1. clean
    BY <1>3 DEF KeepsClean
  <2>2. BaseAccounts'
    BY <1>3, <2>1 DEF ResetInv, BaseAccounts
  <2> QED BY <1>3, <2>2 DEF ResetInv
<1> QED BY <1>1, <1>2, <1>3

\* A step of the GUI thread outside a reset.
LEMMA OutsideReset ==
  ASSUME ResetInv, guiStep # "reset", guiStep' # "reset", UNCHANGED <<base, backlogAtReset, clean>>
  PROVE ResetInv'
BY DEF ResetInv, BaseAccounts

\* The history of the last reset is inductive.
THEOREM ResetInvariance == AppSpec => []ResetInv
<1>1. AppInit => ResetInv
  <2> SUFFICES ASSUME AppInit PROVE ResetInv
    OBVIOUS
  <2>1. base = [c \in Names |-> 0] /\ backlogAtReset = 0 /\ guiStep = "start"
    BY DEF AppInit
  <2>2. base["processedBlocks"] = 0 /\ base["submitted"] = 0 /\ base["unsupported"] = 0
        /\ base["consumed"] = 0 /\ base["late"] = 0
        /\ base["droppedInput"] = 0 /\ base["droppedOutput"] = 0
    BY <2>1, CountersAre
  <2> QED BY <2>1, <2>2 DEF ResetInv, BaseAccounts
<1>2. ResetInv /\ LifeInv /\ CallbackInv /\ PipelineAccounts /\ [AppNext]_appVars => ResetInv'
  <2> SUFFICES ASSUME ResetInv, LifeInv, CallbackInv, PipelineAccounts, [AppNext]_appVars
               PROVE ResetInv'
    OBVIOUS
  <2>0. TypeOK /\ BacklogIsLateness
    BY DEF PipelineAccounts
  <2>1. CASE NullBuffer
    <3>1. clean' /\ guiStep = "reset" => ~inCallback'
      BY <2>1 DEF NullBuffer
    <3> QED BY <2>1, <3>1, OthersKeepReset DEF NullBuffer
  <2>2. CASE GetNextAudioBlock
    <3>1. nextSequence' # nextSequence
      BY <2>0, <2>2, CallbackCounts
    <3>2. clean' /\ guiStep = "reset" => ~inCallback'
      BY <2>2, <3>1 DEF GetNextAudioBlock, KeepsClean, audioCounters
    <3> QED BY <2>2, <3>2, OthersKeepReset DEF GetNextAudioBlock
  <2>3. CASE InsideCallback
    <3>1. inCallback /\ KeepsClean /\ UNCHANGED guiVars
      BY <2>3 DEF InsideCallback, Shadow, PassThrough
    <3>2. clean' /\ guiStep = "reset" => ~inCallback'
      BY <3>1 DEF KeepsClean, ResetInv
    <3> QED BY <3>1, <3>2, OthersKeepReset
  <2>4. CASE Work
    <3>1. UNCHANGED inCallback /\ KeepsClean /\ UNCHANGED guiVars
      BY <2>4 DEF Work
    <3>2. clean' /\ guiStep = "reset" => ~inCallback'
      BY <3>1 DEF KeepsClean, ResetInv
    <3> QED BY <3>1, <3>2, OthersKeepReset
  <2>5. CASE StartWorker \/ OpenDevice \/ CloseDevice \/ DeviceClosed \/ StopWorker
    <3>1. UNCHANGED <<base, backlogAtReset, clean>> /\ guiStep # "reset" /\ guiStep' # "reset"
      BY <2>5 DEF StartWorker, OpenDevice, CloseDevice, DeviceClosed, StopWorker
    <3> QED BY <3>1, OutsideReset
  <2>6. CASE ClickReset
    <3>1. /\ guiStep' = "reset" /\ resetNext' = 1 /\ backlogAtReset' = Backlog
          /\ clean' = ~inCallback
          /\ UNCHANGED <<base, inCallback>>
      BY <2>6 DEF ClickReset
    <3>2. UNCHANGED <<lateOutputBlocks, droppedInputBlocks, droppedOutputBlocks>>
      BY <2>6 DEF ClickReset, vars, audioVars, audioCounters, workerVars, workerCounters
    <3>3. Backlog \in Nat
      BY <2>0, BacklogIsNumber
    <3>4. ASSUME clean' PROVE ~inCallback' /\ lateOutputBlocks
                                = Backlog + droppedInputBlocks + droppedOutputBlocks
      <4>1. ~inCallback /\ ~inCallback' /\ audioStep = "idle"
        BY <3>1, <3>4 DEF CallbackInv
      <4>2. lateOutputBlocks = Backlog + droppedInputBlocks + droppedOutputBlocks + 0 + 0
        BY <2>0, <4>1 DEF BacklogIsLateness, CallbackInv
      <4> QED BY <2>0, <3>3, <4>1, <4>2 DEF TypeOK, CounterTypeOK
    <3>5. \A i \in 1 .. resetNext' - 1 : FALSE
      BY <3>1
    <3> QED BY <3>1, <3>2, <3>3, <3>4, <3>5 DEF ResetInv
  <2>7. CASE ResetNext
    <3> DEFINE name == Counters[resetNext]
    <3>0. resetNext \in 1 .. 11 /\ guiStep = "reset"
      BY <2>7 DEF ResetNext, ResetInv
    <3>1. name \in Names /\ Total(name) \in Int
      BY <2>0, <3>0, CountersAre, TotalIsNumber
    <3>2. /\ base' = [base EXCEPT ![name] = Total(name)]
          /\ resetNext' = resetNext + 1
          /\ guiStep' = IF resetNext = 11 THEN "open" ELSE "reset"
          /\ UNCHANGED <<inCallback, clean, backlogAtReset>>
      BY <2>7, CountersAre DEF ResetNext
    <3>3. UNCHANGED <<engineVars, audioCounters, workerCounters>>
      BY <2>7 DEF ResetNext, vars, audioVars, workerVars
    <3>4. base' \in [Names -> Int]
      BY <3>1, <3>2 DEF ResetInv
    <3>5. ASSUME clean, NEW i \in 1 .. resetNext PROVE base'[Counters[i]] = Total(Counters[i])
      <4>1. Counters[i] \in Names
        BY <3>0, CountersAre
      <4>2. CASE Counters[i] = name
        BY <3>1, <3>2, <4>1, <4>2 DEF ResetInv
      <4>3. CASE Counters[i] # name
        <5>1. i \in 1 .. resetNext - 1
          BY <3>0, <4>3
        <5>2. base'[Counters[i]] = base[Counters[i]]
          BY <3>2, <4>1, <4>3 DEF ResetInv
        <5> QED BY <3>0, <3>5, <5>1, <5>2 DEF ResetInv
      <4> QED BY <4>2, <4>3
    <3>6. CASE ~clean
      BY <3>0, <3>2, <3>4, <3>6 DEF ResetInv
    <3>7. CASE clean /\ resetNext # 11
      <4>1. \A i \in 1 .. resetNext' - 1 : base'[Counters[i]] = Total(Counters[i])'
        BY <3>0, <3>2, <3>3, <3>5, <3>7, TotalsKeep
      <4>2. UNCHANGED <<lateOutputBlocks, droppedInputBlocks, droppedOutputBlocks>>
        BY <3>3 DEF audioCounters, workerCounters
      <4> QED BY <3>0, <3>2, <3>4, <3>7, <4>1, <4>2 DEF ResetInv
    <3>8. CASE clean /\ resetNext = 11
      <4>1. /\ base'["processedBlocks"] = processedBlocks /\ base'["submitted"] = submittedBlocks
            /\ base'["unsupported"] = unsupportedInputBlocks
            /\ base'["consumed"] = consumedOutputBlocks /\ base'["late"] = lateOutputBlocks
            /\ base'["droppedInput"] = droppedInputBlocks
            /\ base'["droppedOutput"] = droppedOutputBlocks
        <5>1. \A i \in 1 .. 11 : base'[Counters[i]] = Total(Counters[i])
          BY <3>5, <3>8
        <5> QED BY <5>1, CountersAre, TotalsAre
      <4>2. ~inCallback /\ audioStep = "idle"
        BY <3>0, <3>8 DEF ResetInv, CallbackInv
      <4>3. OneIf(inCallback) = 0 /\ OneIf(audioStep # "idle") = 0
        BY <4>2 DEF OneIf
      <4>4. processedBlocks = submittedBlocks + unsupportedInputBlocks
        BY <4>3 DEF CallbackInv
      <4>5. submittedBlocks + unsupportedInputBlocks = consumedOutputBlocks + lateOutputBlocks
        BY <2>0, <4>3 DEF PipelineAccounts, CallsAreAnswered, TypeOK, CounterTypeOK
      <4>6. lateOutputBlocks = backlogAtReset + droppedInputBlocks + droppedOutputBlocks
        BY <3>0, <3>8 DEF ResetInv
      <4>7. BaseAccounts'
        BY <3>2, <4>1, <4>4, <4>5, <4>6 DEF BaseAccounts
      <4> QED BY <3>2, <3>4, <3>8, <4>7 DEF ResetInv
    <3> QED BY <3>6, <3>7, <3>8
  <2>8. CASE UNCHANGED appVars
    <3>1. UNCHANGED <<guiVars, clean, inCallback, engineVars, audioCounters, workerCounters>>
      BY <2>8 DEF appVars, vars, audioVars, workerVars
    <3>2. ASSUME clean, guiStep = "reset" PROVE ResetInv'
      <4>1. \A i \in 1 .. resetNext - 1 : base[Counters[i]] = Total(Counters[i])'
        BY <3>1, <3>2, TotalsKeep DEF ResetInv
      <4> QED BY <3>1, <3>2, <4>1 DEF ResetInv, guiVars, audioCounters, workerCounters
    <3>3. ASSUME ~(clean /\ guiStep = "reset") PROVE ResetInv'
      BY <3>1, <3>3 DEF ResetInv, BaseAccounts, guiVars
    <3> QED BY <3>2, <3>3
  <2> QED BY <2>1, <2>2, <2>3, <2>4, <2>5, <2>6, <2>7, <2>8 DEF AppNext, GuiGoesOn
<1> QED BY <1>1, <1>2, LifeInvariance, CallbackInvariance, AccountsOfApp, PTL DEF AppSpec

\* Since the last reset that met no counting, every callback is in the counters of the
\* engine and of the pipeline, each once, and they say how much the backlog has grown.
THEOREM CountersCorrect == AppSpec => []CountersSinceReset
<1>1. ResetInv /\ CallbackInv /\ PipelineAccounts => CountersSinceReset
  <2> SUFFICES ASSUME ResetInv, CallbackInv, PipelineAccounts, clean, guiStep # "reset"
               PROVE  /\ Count("processedBlocks") + OneIf(inCallback)
                           = Count("submitted") + Count("unsupported")
                      /\ Count("submitted") + Count("unsupported")
                           = Count("consumed") + Count("late") + OneIf(audioStep # "idle")
                      /\ audioStep = "idle" =>
                           Count("late") + backlogAtReset
                             = Backlog + Count("droppedInput") + Count("droppedOutput")
    BY DEF CountersSinceReset
  <2>1. BaseAccounts
    BY DEF ResetInv
  <2>2. /\ base["processedBlocks"] \in Int /\ base["submitted"] \in Int
        /\ base["unsupported"] \in Int /\ base["consumed"] \in Int /\ base["late"] \in Int
        /\ base["droppedInput"] \in Int /\ base["droppedOutput"] \in Int
    BY CountersAre DEF ResetInv
  <2>3. OneIf(inCallback) \in Int /\ OneIf(audioStep # "idle") \in Int
    BY DEF OneIf
  <2>4. TypeOK /\ Backlog \in Nat
    BY BacklogIsNumber DEF PipelineAccounts
  <2> USE DEF Count, BaseAccounts
  <2>5. Count("processedBlocks") + OneIf(inCallback) = Count("submitted") + Count("unsupported")
    BY <2>1, <2>2, <2>3, <2>4, TotalsAre DEF CallbackInv, TypeOK, CounterTypeOK
  <2>6. Count("submitted") + Count("unsupported")
          = Count("consumed") + Count("late") + OneIf(audioStep # "idle")
    BY <2>1, <2>2, <2>3, <2>4, TotalsAre
       DEF PipelineAccounts, CallsAreAnswered, TypeOK, CounterTypeOK
  <2>7. audioStep = "idle" =>
          Count("late") + backlogAtReset
            = Backlog + Count("droppedInput") + Count("droppedOutput")
    BY <2>1, <2>2, <2>4, TotalsAre
       DEF ResetInv, CallbackInv, PipelineAccounts, BacklogIsLateness, TypeOK, CounterTypeOK
  <2> QED BY <2>5, <2>6, <2>7
<1> QED BY <1>1, ResetInvariance, CallbackInvariance, AccountsOfApp, PTL

-----------------------------------------------------------------------------
\* The benchmark's profiler: sorting, sums, and what a record does to a stage.

\* Induction on the natural numbers, of a set.
LEMMA Induction ==
  ASSUME NEW S, 0 \in S, \A n \in Nat : n \in S => n + 1 \in S
  PROVE  Nat \subseteq S
<1> SUFFICES ASSUME Nat \ S # {} PROVE FALSE
  OBVIOUS
<1> DEFINE T == Nat \ S
           R == OpToRel(<, Nat)
<1>1. IsWellFoundedOn(R, Nat)
  BY NatLessThanWellFounded
<1>2. \A x, y \in Nat : y < x => <<y, x>> \in R
  BY DEF OpToRel
<1>3. \E x \in T : \A y \in T : ~(<<y, x>> \in R)
  <2>1. T \subseteq Nat /\ T # {}
    OBVIOUS
  <2> HIDE DEF T, R
  <2> QED BY <1>1, <2>1, WFMin
<1>4. PICK x \in T : \A y \in T : ~(<<y, x>> \in R)
  BY <1>3
<1>5. x \in Nat /\ x \notin S
  BY <1>4
<1>6. x # 0
  BY <1>5
<1>7. x - 1 \in Nat /\ x - 1 < x /\ (x - 1) + 1 = x
  BY <1>5, <1>6
<1>8. x - 1 \in T
  BY <1>5, <1>7
<1> HIDE DEF R
<1> QED BY <1>2, <1>4, <1>5, <1>7, <1>8


\* Among finitely many numbers there is a largest.
LEMMA LargestOf ==
  ASSUME NEW n \in Nat \ {0}, NEW s \in [1 .. n -> Int]
  PROVE  \E m \in 1 .. n : \A j \in 1 .. n : s[j] <= s[m]
<1> DEFINE N == {k \in Nat : k + 1 <= n => \E m \in 1 .. k + 1 : \A j \in 1 .. k + 1 : s[j] <= s[m]}
<1>1. 0 \in N
  OBVIOUS
<1>2. ASSUME NEW k \in Nat, k \in N PROVE k + 1 \in N
  <2> SUFFICES ASSUME (k + 1) + 1 <= n
               PROVE  \E m \in 1 .. (k + 1) + 1 : \A j \in 1 .. (k + 1) + 1 : s[j] <= s[m]
    OBVIOUS
  <2>1. PICK m \in 1 .. k + 1 : \A j \in 1 .. k + 1 : s[j] <= s[m]
    BY <1>2
  <2> DEFINE last == (k + 1) + 1
  <2>2. /\ last \in 1 .. last /\ m \in 1 .. last /\ 1 .. last = (1 .. k + 1) \cup {last}
        /\ s[last] \in Int /\ s[m] \in Int /\ \A j \in 1 .. k + 1 : s[j] \in Int
    OBVIOUS
  <2> HIDE DEF last
  <2>3. CASE s[m] <= s[last]
    BY <2>1, <2>2, <2>3 DEF last
  <2>4. CASE s[last] <= s[m]
    BY <2>1, <2>2, <2>4 DEF last
  <2> QED BY <2>2, <2>3, <2>4
<1>3. n - 1 \in N
  <2>1. n - 1 \in Nat
    OBVIOUS
  <2> HIDE DEF N
  <2> QED BY <1>1, <1>2, <2>1, Induction
<1>4. (n - 1) + 1 = n
  OBVIOUS
<1> QED BY <1>3, <1>4

\* p puts the numbers in order.
Orders(p, s, n) ==
  /\ p \in Bijection(1 .. n, 1 .. n)
  /\ \A i, j \in 1 .. n : i < j => s[p[i]] <= s[p[j]]

\* A bijection of 1 .. n, in terms the provers take.
LEMMA BijectionOf ==
  ASSUME NEW n \in Nat, NEW p
  PROVE  p \in Bijection(1 .. n, 1 .. n) <=>
           /\ p \in [1 .. n -> 1 .. n]
           /\ \A i, j \in 1 .. n : p[i] = p[j] => i = j
           /\ \A k \in 1 .. n : \E i \in 1 .. n : p[i] = k
BY DEF Bijection, Injection, Surjection, IsInjective

\* Any sequence can be put in order: a shorter one is, and the largest goes last.
LEMMA CanBeOrdered ==
  ASSUME NEW n \in Nat, NEW s \in [1 .. n -> Int]
  PROVE  \E p : Orders(p, s, n)
<1> DEFINE N == {k \in Nat : \A t \in [1 .. k -> Int] : \E p : Orders(p, t, k)}
<1>1. 0 \in N
  <2>1. ASSUME NEW t \in [1 .. 0 -> Int] PROVE Orders(t, t, 0)
    <3>1. 1 .. 0 = {}
      OBVIOUS
    <3>2. t \in [1 .. 0 -> 1 .. 0]
      BY <3>1
    <3>3. 0 \in Nat
      OBVIOUS
    <3>4. t \in Bijection(1 .. 0, 1 .. 0)
      BY ONLY <3>1, <3>2, <3>3, BijectionOf
    <3> QED BY ONLY <3>1, <3>4 DEF Orders
  <2> QED BY <2>1
<1>2. ASSUME NEW k \in Nat, k \in N PROVE k + 1 \in N
  <2> DEFINE n1 == k + 1
  <2> SUFFICES ASSUME NEW t \in [1 .. n1 -> Int] PROVE \E p : Orders(p, t, n1)
    OBVIOUS
  <2>0. n1 \in Nat \ {0} /\ k < n1
    OBVIOUS
  <2>1. PICK m \in 1 .. n1 : \A j \in 1 .. n1 : t[j] <= t[m]
    <3> HIDE DEF n1
    <3> QED BY <2>0, LargestOf
  <2> DEFINE place(i) == IF i < m THEN i ELSE i + 1
             u == [i \in 1 .. k |-> t[place(i)]]
  <2>2. \A i \in 1 .. k : place(i) \in 1 .. n1 /\ place(i) # m
    OBVIOUS
  <2>3. \A i, j \in 1 .. k : place(i) = place(j) => i = j
    OBVIOUS
  <2>4. \A y \in 1 .. n1 : y # m => \E i \in 1 .. k : place(i) = y
    <3> SUFFICES ASSUME NEW y \in 1 .. n1, y # m PROVE \E i \in 1 .. k : place(i) = y
      OBVIOUS
    <3>1. CASE y < m
      <4>1. y \in 1 .. k /\ place(y) = y
        BY <3>1
      <4> QED BY <4>1
    <3>2. CASE y > m
      <4>1. y - 1 \in 1 .. k /\ place(y - 1) = y
        BY <3>2
      <4> QED BY <4>1
    <3> QED BY <3>1, <3>2
  <2>5. u \in [1 .. k -> Int]
    BY <2>2
  <2>6. PICK q : Orders(q, u, k)
    <3> HIDE DEF u
    <3> QED BY <1>2, <2>5
  <2> DEFINE p == [i \in 1 .. n1 |-> IF i = n1 THEN m ELSE place(q[i])]
  <2>7. /\ q \in [1 .. k -> 1 .. k]
        /\ \A i, j \in 1 .. k : q[i] = q[j] => i = j
        /\ \A l \in 1 .. k : \E i \in 1 .. k : q[i] = l
        /\ \A i, j \in 1 .. k : i < j => u[q[i]] <= u[q[j]]
    BY <2>6, BijectionOf DEF Orders
  <2>8. /\ \A i \in 1 .. n1 : i # n1 => i \in 1 .. k
        /\ \A i \in 1 .. k : i \in 1 .. n1 /\ i # n1
        /\ n1 \in 1 .. n1
    OBVIOUS
  <2> HIDE DEF place, n1
  <2>9. \A i \in 1 .. k : p[i] = place(q[i]) /\ p[i] \in 1 .. n1 /\ p[i] # m /\ u[q[i]] = t[p[i]]
    BY <2>2, <2>7, <2>8
  <2>10. p[n1] = m
    BY <2>8
  <2>11. p \in [1 .. n1 -> 1 .. n1]
    BY <2>1, <2>2, <2>7, <2>8
  <2> HIDE DEF p, u
  <2>12. ASSUME NEW i \in 1 .. n1, NEW j \in 1 .. n1, p[i] = p[j] PROVE i = j
    <3>1. CASE i = n1 \/ j = n1
      BY <2>8, <2>9, <2>10, <2>12, <3>1
    <3>2. CASE i # n1 /\ j # n1
      <4>1. /\ i \in 1 .. k /\ j \in 1 .. k /\ place(q[i]) = place(q[j])
            /\ q[i] \in 1 .. k /\ q[j] \in 1 .. k
        <5>1. i \in 1 .. k /\ j \in 1 .. k
          BY ONLY <2>8, <3>2, i \in 1 .. n1, j \in 1 .. n1
        <5>2. p[i] = place(q[i]) /\ p[j] = place(q[j])
          BY ONLY <2>9, <5>1
        <5>3. q[i] \in 1 .. k /\ q[j] \in 1 .. k
          BY ONLY <2>7, <5>1
        <5> QED BY ONLY <2>12, <5>1, <5>2, <5>3
      <4>2. q[i] = q[j]
        BY ONLY <2>3, <4>1
      <4> QED BY ONLY <2>7, <4>1, <4>2
    <3> QED BY <3>1, <3>2
  <2>13. ASSUME NEW y \in 1 .. n1 PROVE \E i \in 1 .. n1 : p[i] = y
    <3>1. CASE y = m
      BY <2>8, <2>10, <3>1
    <3>2. CASE y # m
      <4>1. PICK l \in 1 .. k : place(l) = y
        BY <2>4, <3>2
      <4>2. PICK i \in 1 .. k : q[i] = l
        BY <2>7
      <4> QED BY <2>8, <2>9, <4>1, <4>2
    <3> QED BY <3>1, <3>2
  <2>14. ASSUME NEW i \in 1 .. n1, NEW j \in 1 .. n1, i < j PROVE t[p[i]] <= t[p[j]]
    <3>1. CASE j = n1
      BY <2>1, <2>10, <2>11, <3>1
    <3>2. CASE j # n1
      <4>1. j \in 1 .. k /\ i \in 1 .. k
        <5>1. j \in 1 .. k
          BY <2>8, <3>2
        <5> QED BY <2>0, <2>14, <5>1
      <4> QED BY <2>7, <2>9, <2>14, <4>1
    <3> QED BY <3>1, <3>2
  <2>15. Orders(p, t, n1)
    BY <2>0, <2>11, <2>12, <2>13, <2>14, BijectionOf DEF Orders
  <2> QED BY <2>15
<1>3. n \in N
  <2> HIDE DEF N
  <2> QED BY <1>1, <1>2, Induction
<1> QED BY <1>3

\* What percentile sorts is the samples, in order.
LEMMA SortedOrders ==
  ASSUME NEW s \in Seq(Int)
  PROVE  \E p : /\ Orders(p, s, Len(s))
                /\ Sorted(s) = [i \in 1 .. Len(s) |-> s[p[i]]]
<1> DEFINE n == Len(s)
           order == CHOOSE p \in Bijection(1 .. n, 1 .. n) :
                      \A i, j \in 1 .. n : i < j => s[p[i]] <= s[p[j]]
<1>1. n \in Nat /\ s \in [1 .. n -> Int]
  OBVIOUS
<1>2. \E p : Orders(p, s, n)
  <2> HIDE DEF n
  <2> QED BY <1>1, CanBeOrdered
<1>3. Orders(order, s, n)
  <2> HIDE DEF n
  <2> QED BY <1>2 DEF Orders
<1>4. Sorted(s) = [i \in 1 .. Len(s) |-> s[order[i]]]
  BY DEF Sorted
<1> HIDE DEF order
<1> QED BY <1>3, <1>4

\* g adds the numbers up one after the other.
SumsUp(g, s, n) ==
  /\ g \in [0 .. n -> Int] /\ g[0] = 0
  /\ \A i \in 1 .. n : g[i] = g[i - 1] + s[i]

\* There is such a function for every sequence.
LEMMA CanBeSummed ==
  ASSUME NEW n \in Nat, NEW s \in [1 .. n -> Int]
  PROVE  \E g : SumsUp(g, s, n)
<1> DEFINE N == {k \in Nat : k <= n => \E g : SumsUp(g, s, k)}
<1>1. 0 \in N
  <2>1. SumsUp([i \in 0 .. 0 |-> 0], s, 0)
    BY DEF SumsUp
  <2> QED BY <2>1
<1>2. ASSUME NEW k \in Nat, k \in N PROVE k + 1 \in N
  <2> SUFFICES ASSUME k + 1 <= n PROVE \E g : SumsUp(g, s, k + 1)
    OBVIOUS
  <2>1. PICK g : SumsUp(g, s, k)
    BY <1>2
  <2> DEFINE h == [i \in 0 .. k + 1 |-> IF i = k + 1 THEN g[k] + s[k + 1] ELSE g[i]]
  <2>2. SumsUp(h, s, k + 1)
    <3>1. /\ 0 \in 0 .. k + 1 /\ 0 # k + 1 /\ k \in 0 .. k /\ k + 1 \in 1 .. n
          /\ \A i \in 0 .. k + 1 : i # k + 1 => i \in 0 .. k
      OBVIOUS
    <3>2. h \in [0 .. k + 1 -> Int] /\ h[0] = 0
      BY <2>1, <3>1 DEF SumsUp
    <3>3. ASSUME NEW i \in 1 .. k + 1 PROVE h[i] = h[i - 1] + s[i]
      <4>1. i \in 0 .. k + 1 /\ i - 1 \in 0 .. k + 1 /\ i - 1 # k + 1
        OBVIOUS
      <4>2. CASE i = k + 1
        BY <4>1, <4>2
      <4>3. CASE i # k + 1
        <5>1. i \in 1 .. k
          BY <4>3
        <5> QED BY <2>1, <4>1, <4>3, <5>1 DEF SumsUp
      <4> QED BY <4>2, <4>3
    <3> QED BY <3>2, <3>3 DEF SumsUp
  <2> QED BY <2>2
<1>3. n \in N
  <2> HIDE DEF N
  <2> QED BY <1>1, <1>2, Induction
<1> QED BY <1>3

\* Two sequences that begin alike.
Agree(s, t, n) == \A i \in 1 .. n : s[i] = t[i]

\* And one only, of what the sequences have in common.
LEMMA SumsAreOne ==
  ASSUME NEW n \in Nat, NEW s, NEW t, Agree(s, t, n),
         NEW g, SumsUp(g, s, n), NEW h, NEW m \in Nat, n <= m, SumsUp(h, t, m)
  PROVE  g[n] = h[n]
<1> DEFINE N == {k \in Nat : k <= n => g[k] = h[k]}
<1>1. 0 \in N
  BY DEF SumsUp
<1>2. ASSUME NEW k \in Nat, k \in N PROVE k + 1 \in N
  <2> SUFFICES ASSUME k + 1 <= n PROVE g[k + 1] = h[k + 1]
    OBVIOUS
  <2>1. k + 1 \in 1 .. n /\ k + 1 \in 1 .. m /\ (k + 1) - 1 = k
    OBVIOUS
  <2> QED BY <1>2, <2>1 DEF SumsUp, Agree
<1>3. n \in N
  <2> HIDE DEF N
  <2> QED BY <1>1, <1>2, Induction
<1> QED BY <1>3

\* SumOf is its last value.
LEMMA SumOfIs ==
  ASSUME NEW n \in Nat, NEW s \in [1 .. n -> Int]
  PROVE  \E g : SumsUp(g, s, n) /\ SumOf(s, 1, n) = g[n]
<1> DEFINE Eq(g) == g = [i \in 1 - 1 .. n |-> IF i < 1 THEN 0 ELSE g[i - 1] + s[i]]
           total == CHOOSE g : Eq(g)
<1>1. SumOf(s, 1, n) = total[n]
  BY DEF SumOf
<1>2. PICK g : SumsUp(g, s, n)
  BY CanBeSummed
<1>3. Eq(g)
  <2>1. \A i \in 0 .. n : i < 1 => i = 0
    OBVIOUS
  <2>2. \A i \in 0 .. n : ~(i < 1) => i \in 1 .. n
    OBVIOUS
  <2>3. 1 - 1 = 0
    OBVIOUS
  <2> QED BY <1>2, <2>1, <2>2, <2>3 DEF SumsUp
<1>4. Eq(total)
  <2> HIDE DEF Eq
  <2> QED BY <1>3
<1> HIDE DEF total
<1>5. total = [i \in 0 .. n |-> IF i < 1 THEN 0 ELSE total[i - 1] + s[i]]
  <2>1. 1 - 1 = 0
    OBVIOUS
  <2> QED BY <1>4, <2>1
<1>6. total[0] = 0
  BY <1>5
<1>7. ASSUME NEW i \in 1 .. n PROVE total[i] = total[i - 1] + s[i]
  <2>1. i \in 0 .. n /\ ~(i < 1)
    OBVIOUS
  <2> QED BY <1>5, <2>1
<1> DEFINE N == {k \in Nat : k <= n => total[k] \in Int}
<1>8. 0 \in N
  BY <1>6
<1>9. ASSUME NEW k \in Nat, k \in N PROVE k + 1 \in N
  <2> SUFFICES ASSUME k + 1 <= n PROVE total[k + 1] \in Int
    OBVIOUS
  <2>1. k + 1 \in 1 .. n /\ (k + 1) - 1 = k /\ total[k] \in Int
    BY <1>9
  <2> QED BY <1>7, <2>1
<1>10. Nat \subseteq N
  <2> HIDE DEF N
  <2> QED BY <1>8, <1>9, Induction
<1>11. total \in [0 .. n -> Int]
  <2>1. \A k \in 0 .. n : total[k] \in Int
    BY <1>10
  <2>2. \E f : total = [i \in 0 .. n |-> f[i]]
    <3>1. total = [i \in 0 .. n |-> total[i]]
      BY <1>5
    <3> QED BY <3>1
  <2> QED BY <2>1, <2>2
<1>12. SumsUp(total, s, n)
  BY <1>6, <1>7, <1>11 DEF SumsUp
<1> QED BY <1>1, <1>12

\* One sample more adds itself to the sum.
LEMMA SumOfMore ==
  ASSUME NEW s \in Seq(Int), NEW x \in Int
  PROVE  /\ SumOf(s, 1, Len(s)) \in Int
         /\ SumOf(Append(s, x), 1, Len(s) + 1) = SumOf(s, 1, Len(s)) + x
<1> DEFINE n == Len(s)
           t == Append(s, x)
<1>1. /\ n \in Nat /\ n + 1 \in Nat /\ s \in [1 .. n -> Int] /\ t \in [1 .. n + 1 -> Int]
      /\ t[n + 1] = x /\ \A i \in 1 .. n : s[i] = t[i]
  <2>1. n \in Nat /\ s \in [1 .. n -> Int]
    OBVIOUS
  <2>2. /\ t \in Seq(Int) /\ Len(t) = n + 1
        /\ \A i \in 1 .. n : t[i] = s[i]
        /\ t[n + 1] = x
    BY AppendProperties
  <2>3. t \in [1 .. n + 1 -> Int]
    <3> HIDE DEF t
    <3> QED BY <2>2
  <2> HIDE DEF t, n
  <2> QED BY <2>1, <2>2, <2>3
<1> HIDE DEF n, t
<1>2. PICK g : SumsUp(g, s, n) /\ SumOf(s, 1, n) = g[n]
  BY <1>1, SumOfIs
<1>3. PICK h : SumsUp(h, t, n + 1) /\ SumOf(t, 1, n + 1) = h[n + 1]
  BY <1>1, SumOfIs
<1>4. g[n] = h[n]
  <2>1. n <= n + 1
    BY <1>1
  <2>2. SumsUp(g, s, n) /\ SumsUp(h, t, n + 1) /\ Agree(s, t, n)
    BY <1>1, <1>2, <1>3 DEF Agree
  <2> QED BY ONLY <1>1, <2>1, <2>2, SumsAreOne
<1>5. g[n] \in Int /\ h[n + 1] = h[n] + x
  <2>1. n \in 0 .. n /\ n + 1 \in 1 .. n + 1 /\ (n + 1) - 1 = n
    BY <1>1
  <2> QED BY <1>1, <1>2, <1>3, <2>1 DEF SumsUp
<1> QED BY <1>2, <1>3, <1>4, <1>5 DEF n, t

\* Of no sample the sum is zero.
LEMMA SumOfNone == SumOf(<<>>, 1, 0) = 0
<1>1. <<>> \in [1 .. 0 -> Int] /\ 0 \in Nat
  OBVIOUS
<1>2. PICK g : SumsUp(g, <<>>, 0) /\ SumOf(<<>>, 1, 0) = g[0]
  BY <1>1, SumOfIs
<1> QED BY <1>2 DEF SumsUp

\* Of at most 21 samples the 95th percentile lies between the last two.
LEMMA Places ==
  ASSUME NEW n \in 2 .. 21
  PROVE  (95 * (n - 1)) \div 100 = n - 2 /\ (95 * (n - 1)) % 100 = 100 - 5 * (n - 1)
OBVIOUS

AllNumbers(t, n) == \A i \in 1 .. n : t[i] \in Int

\* What linear interpolation makes of the last two.
Interpolated(t, n) ==
  IF n = 1 THEN 100 * t[1] ELSE 100 * t[n] - 5 * (n - 1) * (t[n] - t[n - 1])

\* The profiler's percentile is that.
LEMMA Interpolation ==
  ASSUME NEW s \in Seq(Int), Len(s) \in 1 .. 21, NEW t, t = Sorted(s), NEW n, n = Len(s),
         AllNumbers(t, n)
  PROVE  Percentile(s, 95) = Interpolated(t, n)
<1> USE DEF Interpolated
<1> DEFINE position == Position(95, Len(s))
           lower == position \div 100
           upper == IF lower + 1 < Len(s) THEN lower + 1 ELSE Len(s) - 1
           fraction == position % 100
<1>1. Percentile(s, 95) = t[lower + 1] * (100 - fraction) + t[upper + 1] * fraction
  BY DEF Percentile
<1>2. position = 95 * (n - 1) /\ n \in 1 .. 21
  BY DEF Position
<1> HIDE DEF position
<1>3. CASE n = 1
  <2>1. position = 0
    BY <1>2, <1>3
  <2>2. lower = 0 /\ upper = 0 /\ fraction = 0
    BY <1>3, <2>1
  <2>3. t[1] \in Int
    BY <1>3 DEF AllNumbers
  <2> QED BY <1>1, <1>2, <1>3, <2>2, <2>3
<1>4. CASE n # 1
  <2>1. n \in 2 .. 21 /\ n - 1 \in 1 .. n /\ n \in 1 .. n
    <3>1. n \in 1 .. 21 /\ n # 1
      BY <1>2, <1>4
    <3> QED BY ONLY <3>1
  <2>2. lower = n - 2 /\ fraction = 100 - 5 * (n - 1)
    BY ONLY <1>2, <2>1, Places
  <2>3. lower + 1 = n - 1 /\ upper + 1 = n
    BY <2>1, <2>2
  <2> HIDE DEF lower, fraction, upper
  <2>4. PICK a \in Int, b \in Int, w \in Int : a = t[n - 1] /\ b = t[n] /\ w = 5 * (n - 1)
    <3>1. t[n - 1] \in Int /\ t[n] \in Int
      BY <2>1 DEF AllNumbers
    <3>2. 5 * (n - 1) \in Int
      BY ONLY <2>1
    <3> QED BY ONLY <3>1, <3>2
  <2>5. Percentile(s, 95) = a * (100 - (100 - w)) + b * (100 - w)
    BY <1>1, <2>2, <2>3, <2>4
  <2>6. a * (100 - (100 - w)) + b * (100 - w) = 100 * b - w * (b - a)
    OBVIOUS
  <2> QED BY <1>4, <2>4, <2>5, <2>6
<1> QED BY <1>3, <1>4

\* The places of the largest sample and of the largest of the others.
Top(s, n) == CHOOSE i \in 1 .. n : \A j \in 1 .. n : s[j] <= s[i]
Second(s, n) ==
  CHOOSE i \in 1 .. n \ {Top(s, n)} : \A j \in 1 .. n \ {Top(s, n)} : s[j] <= s[i]

\* Sorting puts them last and next to last.
LEMMA LastTwo ==
  ASSUME NEW s \in Seq(Int), NEW n \in Nat, n = Len(s), n > 0, NEW t, t = Sorted(s)
  PROVE  /\ AllNumbers(t, n)
         /\ t[n] = s[Top(s, n)]
         /\ n > 1 => t[n - 1] = s[Second(s, n)]
<1> DEFINE top == Top(s, n)
           others == 1 .. n \ {top}
           second == Second(s, n)
<1>1. PICK p : Orders(p, s, n) /\ t = [i \in 1 .. n |-> s[p[i]]]
  BY SortedOrders
<1>2. /\ p \in [1 .. n -> 1 .. n]
      /\ \A i, j \in 1 .. n : p[i] = p[j] => i = j
      /\ \A l \in 1 .. n : \E i \in 1 .. n : p[i] = l
      /\ \A i, j \in 1 .. n : i < j => s[p[i]] <= s[p[j]]
  BY <1>1, BijectionOf DEF Orders
<1>3. \A i \in 1 .. n : s[i] \in Int /\ t[i] = s[p[i]] /\ p[i] \in 1 .. n /\ t[i] \in Int
  <2>1. s \in [1 .. n -> Int]
    OBVIOUS
  <2> QED BY ONLY <1>1, <1>2, <2>1
<1>4. n \in 1 .. n /\ \A i \in 1 .. n : i # n => i < n
  OBVIOUS
<1>5. \A j \in 1 .. n : s[j] <= s[p[n]]
  <2> SUFFICES ASSUME NEW j \in 1 .. n PROVE s[j] <= s[p[n]]
    OBVIOUS
  <2>1. PICK i \in 1 .. n : p[i] = j
    BY <1>2
  <2>2. CASE i = n
    BY <1>3, <2>1, <2>2
  <2>3. CASE i # n
    BY <1>2, <1>4, <2>1, <2>3
  <2> QED BY <2>2, <2>3
<1>6. top \in 1 .. n /\ \A j \in 1 .. n : s[j] <= s[top]
  BY <1>3, <1>4, <1>5 DEF Top
<1> HIDE DEF top
<1>7. t[n] = s[top]
  BY <1>3, <1>4, <1>5, <1>6
<1>8. ASSUME n > 1 PROVE t[n - 1] = s[second]
  <2> DEFINE m == n - 1
  <2>1. m \in 1 .. n /\ m # n /\ m < n /\ \A i \in 1 .. n : i # n /\ i # m => i < m
    BY <1>8
  <2> HIDE DEF m
  <2>2. PICK a \in others : s[a] = t[m] /\ \A j \in others : s[j] <= s[a]
    <3>1. CASE p[n] = top
      <4>1. p[m] \in others /\ s[p[m]] = t[m]
        BY <1>2, <1>3, <1>4, <2>1, <3>1
      <4>2. ASSUME NEW j \in others PROVE s[j] <= s[p[m]]
        <5>1. PICK i \in 1 .. n : p[i] = j
          BY <1>2
        <5>2. i # n
          BY <3>1, <5>1
        <5>3. CASE i = m
          BY <1>3, <5>1, <5>3
        <5>4. CASE i # m
          BY <1>2, <2>1, <5>1, <5>2, <5>4
        <5> QED BY <5>3, <5>4
      <4> QED BY <4>1, <4>2
    <3>2. CASE p[n] # top
      <4>1. p[n] \in others /\ \A j \in others : s[j] <= s[p[n]]
        BY <1>3, <1>4, <1>5, <3>2
      <4>2. PICK k \in 1 .. n : p[k] = top
        BY <1>2, <1>6
      <4>3. k # n
        BY <3>2, <4>2
      <4>4. s[top] <= s[p[m]]
        <5>1. CASE k = m
          BY <1>3, <1>6, <4>2, <5>1
        <5>2. CASE k # m
          BY <1>2, <2>1, <4>2, <4>3, <5>2
        <5> QED BY <5>1, <5>2
      <4>5. s[p[m]] = s[p[n]]
        <5>1. /\ s[p[m]] \in Int /\ s[p[n]] \in Int /\ s[top] \in Int
              /\ s[p[m]] <= s[p[n]] /\ s[p[n]] <= s[top]
          BY <1>3, <1>4, <1>5, <1>6, <2>1
        <5> QED BY ONLY <4>4, <5>1
      <4> QED BY <1>3, <2>1, <4>1, <4>5
    <3> QED BY <3>1, <3>2
  <2>3. second \in others /\ \A j \in others : s[j] <= s[second]
    <3>1. second = CHOOSE i \in others : \A j \in others : s[j] <= s[i]
      BY DEF Second, top
    <3> HIDE DEF others, second
    <3> QED BY <2>2, <3>1
  <2>4. s[a] \in Int /\ s[second] \in Int /\ s[a] <= s[second] /\ s[second] <= s[a]
    BY <1>3, <2>2, <2>3
  <2> QED BY <2>2, <2>4 DEF m
<1> QED BY <1>3, <1>7, <1>8 DEF top, AllNumbers

StatFields == {"last", "average", "movingAverage", "p95", "min", "max", "samples"}

\* The least and the largest of the samples.
Bounds(s, n, least, largest) ==
  /\ \A i \in 1 .. n : least <= s[i] /\ s[i] <= largest
  /\ \E i \in 1 .. n : least = s[i]
  /\ \E i \in 1 .. n : largest = s[i]

\* The moving average, of the last samples.
LastOf(s) == <<SumOf(s, Len(s) - Window(Len(s)) + 1, Len(s)), Window(Len(s))>>

\* The statistics of n > 0 samples, in the terms the profiler computes them.
EntryInv(e) ==
  LET s == e.samples
      n == Len(s)
  IN /\ s \in Seq(Nat) /\ n > 0
     /\ DOMAIN e.stats = StatFields
     /\ e.stats.samples = n
     /\ e.stats.average = <<SumOf(s, 1, n), n>>
     /\ e.stats.movingAverage = LastOf(s)
     /\ e.stats.p95 = Percentile(s, 95)
     /\ Bounds(s, n, e.stats.min, e.stats.max)

StagesInv(st) == \A stage \in DOMAIN st : EntryInv(st[stage])

\* Where the next record starts from: the sum can be had back from the average.
LEMMA EntryBefore ==
  ASSUME NEW st, StagesInv(st), NEW stage
  PROVE  LET e == Entry(st, stage)
             s == e.samples
             n == Len(s)
         IN /\ s \in Seq(Nat) /\ n \in Nat /\ e.stats.samples = n
            /\ DOMAIN e.stats = StatFields
            /\ (e.stats.average[1] * n) \div e.stats.average[2] = SumOf(s, 1, n)
            /\ n > 0 => EntryInv(e)
<1>1. CASE stage \in DOMAIN st
  <2> DEFINE e == st[stage]
             n == Len(e.samples)
  <2>1. Entry(st, stage) = e /\ EntryInv(e)
    BY <1>1 DEF Entry, StagesInv
  <2>2. e.samples \in Seq(Nat) /\ n \in Nat /\ n > 0 /\ e.samples \in Seq(Int)
    BY <2>1 DEF EntryInv
  <2>3. PICK total \in Int : total = SumOf(e.samples, 1, n)
    BY <2>2, SumOfMore
  <2>4. e.stats.average = <<total, n>> /\ e.stats.samples = n /\ DOMAIN e.stats = StatFields
    BY <2>1, <2>3 DEF EntryInv
  <2> HIDE DEF e, n
  <2>5. (total * n) \div n = total
    BY ONLY <2>2
  <2> QED BY <2>1, <2>2, <2>3, <2>4, <2>5 DEF n
<1>2. CASE stage \notin DOMAIN st
  <2>1. Entry(st, stage) = NoEntry
    BY <1>2 DEF Entry
  <2>2. /\ NoEntry.samples = <<>> /\ Len(<<>>) = 0 /\ <<>> \in Seq(Nat)
        /\ NoEntry.stats.samples = 0 /\ NoEntry.stats.average = <<0, 1>>
    BY DEF NoEntry, NoStats
  <2>3. DOMAIN NoEntry.stats = StatFields
    BY DEF NoEntry, NoStats, StatFields
  <2>4. (0 * 0) \div 1 = 0
    OBVIOUS
  <2> QED BY <2>1, <2>2, <2>3, <2>4, SumOfNone
<1> QED BY <1>1, <1>2

\* What a record makes of the least and the largest.
Least(n, ms, least) == IF n = 0 \/ ms < least THEN ms ELSE least
Largest(n, ms, largest) == IF n = 0 \/ ms > largest THEN ms ELSE largest

\* They are the least and the largest of all with the new one.
LEMMA OneMore ==
  ASSUME NEW s \in Seq(Nat), NEW ms \in Nat, NEW n, n = Len(s), NEW least, NEW largest,
         n > 0 => Bounds(s, n, least, largest)
  PROVE  /\ Append(s, ms) \in Seq(Nat) /\ Len(Append(s, ms)) = n + 1
         /\ Bounds(Append(s, ms), n + 1, Least(n, ms, least), Largest(n, ms, largest))
<1> DEFINE t == Append(s, ms)
           min == Least(n, ms, least)
           max == Largest(n, ms, largest)
<1>1. /\ t \in Seq(Nat) /\ Len(t) = n + 1 /\ n \in Nat
      /\ \A i \in 1 .. n : t[i] = s[i] /\ s[i] \in Nat
      /\ t[n + 1] = ms
  <2>1. n \in Nat /\ \A i \in 1 .. n : s[i] \in Nat
    OBVIOUS
  <2> QED BY <2>1, AppendProperties
<1> HIDE DEF t, min, max
<1>2. /\ n + 1 \in 1 .. n + 1
      /\ \A i \in 1 .. n + 1 : i # n + 1 => i \in 1 .. n
      /\ \A i \in 1 .. n : i \in 1 .. n + 1
  BY <1>1
<1>3. ASSUME n = 0 PROVE Bounds(t, n + 1, min, max)
  <2>1. min = ms /\ max = ms /\ \A i \in 1 .. n + 1 : t[i] = ms
    BY <1>1, <1>2, <1>3 DEF min, max, Least, Largest
  <2> QED BY ONLY <1>1, <1>2, <2>1 DEF Bounds
<1>4. ASSUME n # 0 PROVE Bounds(t, n + 1, min, max)
  <2>1. PICK a \in 1 .. n : least = s[a]
    BY <1>1, <1>4 DEF Bounds
  <2>2. PICK b \in 1 .. n : largest = s[b]
    BY <1>1, <1>4 DEF Bounds
  <2>3. \A i \in 1 .. n : least <= s[i] /\ s[i] <= largest
    BY <1>1, <1>4 DEF Bounds
  <2>4. least \in Nat /\ largest \in Nat
    BY <1>1, <2>1, <2>2
  <2>5. /\ min \in Nat /\ max \in Nat /\ min <= ms /\ ms <= max /\ min <= least /\ largest <= max
        /\ min \in {ms, least} /\ max \in {ms, largest}
    BY <1>4, <2>4 DEF min, max, Least, Largest
  <2>6. \A i \in 1 .. n + 1 : min <= t[i] /\ t[i] <= max
    <3> SUFFICES ASSUME NEW i \in 1 .. n + 1 PROVE min <= t[i] /\ t[i] <= max
      OBVIOUS
    <3>1. CASE i = n + 1
      BY ONLY <1>1, <2>5, <3>1
    <3>2. CASE i # n + 1
      <4>1. i \in 1 .. n
        BY <1>2, <3>2
      <4>2. t[i] \in Nat /\ least <= t[i] /\ t[i] <= largest
        BY ONLY <1>1, <2>3, <4>1
      <4> QED BY ONLY <2>4, <2>5, <4>2
    <3> QED BY <3>1, <3>2
  <2>7. \E i \in 1 .. n + 1 : min = t[i]
    BY ONLY <1>1, <1>2, <2>1, <2>5
  <2>8. \E i \in 1 .. n + 1 : max = t[i]
    BY ONLY <1>1, <1>2, <2>2, <2>5
  <2> QED BY <1>1, <2>6, <2>7, <2>8 DEF Bounds
<1> QED BY <1>1, <1>3, <1>4 DEF t, min, max

\* What is computed of all the samples is computed anew, and the rest is kept.
LEMMA Refreshed ==
  ASSUME NEW stats, DOMAIN stats = StatFields, NEW s,
         NEW after, after = RefreshDerivedStats(stats, s)
  PROVE  /\ DOMAIN after = StatFields
         /\ after.samples = stats.samples /\ after.average = stats.average
         /\ after.min = stats.min /\ after.max = stats.max
         /\ after.movingAverage = LastOf(s)
         /\ after.p95 = Percentile(s, 95)
BY DEF RefreshDerivedStats, StatFields, LastOf

\* A record brings the statistics of its stage up to date, and leaves the others.
LEMMA RecordKeeps ==
  ASSUME NEW st, StagesInv(st), NEW stage, NEW d \in Int
  PROVE  LET after == Record(st, stage, d)
         IN /\ StagesInv(after)
            /\ DOMAIN after = DOMAIN st \cup {stage}
            /\ Len(after[stage].samples) = Len(Entry(st, stage).samples) + 1
            /\ \A other \in DOMAIN st : other # stage => after[other] = st[other]
<1> DEFINE ms == IF d > 0 THEN d ELSE 0
           e == Entry(st, stage)
           stats == e.stats
           s == e.samples
           n == Len(s)
           t == Append(s, ms)
           count == stats.samples + 1
           previousTotal == (stats.average[1] * stats.samples) \div stats.average[2]
           isFirst == count = 1
           newStats == [stats EXCEPT
                     !.last = ms, !.average = <<previousTotal + ms, count>>,
                     !.min = IF isFirst \/ ms < @ THEN ms ELSE @,
                     !.max = IF isFirst \/ ms > @ THEN ms ELSE @,
                     !.samples = count]
           refreshed == RefreshDerivedStats(newStats, t)
           entry == [stats |-> refreshed, samples |-> t]
           after == Record(st, stage, d)
<1>1. after = [x \in DOMAIN st \cup {stage} |-> IF x = stage THEN entry ELSE st[x]]
  BY DEF Record
<1>2. ms \in Nat
  OBVIOUS
<1>3. /\ s \in Seq(Nat) /\ n \in Nat /\ stats.samples = n /\ DOMAIN stats = StatFields
      /\ (stats.average[1] * n) \div stats.average[2] = SumOf(s, 1, n)
      /\ n > 0 => EntryInv(e)
  BY EntryBefore
<1>4. n > 0 => Bounds(s, n, stats.min, stats.max)
  BY <1>3 DEF EntryInv
<1> DEFINE min == Least(n, ms, stats.min)
           max == Largest(n, ms, stats.max)
<1>6. count = n + 1 /\ previousTotal = SumOf(s, 1, n) /\ (isFirst <=> n = 0)
  BY <1>3
<1>7. /\ t \in Seq(Nat) /\ Len(t) = n + 1
      /\ Bounds(t, n + 1, min, max)
  <2> HIDE DEF ms, s, stats, n
  <2>1. n = Len(s)
    BY DEF n
  <2> QED BY <1>2, <1>3, <1>4, <2>1, OneMore
<1>8. SumOf(t, 1, n + 1) = SumOf(s, 1, n) + ms
  <2>1. s \in Seq(Int) /\ ms \in Int
    BY <1>2, <1>3
  <2> HIDE DEF ms, s, stats
  <2> QED BY <2>1, SumOfMore
<1>9. /\ DOMAIN newStats = StatFields
      /\ newStats.samples = n + 1
      /\ newStats.average = <<SumOf(s, 1, n) + ms, n + 1>>
      /\ newStats.min = min /\ newStats.max = max
  <2> HIDE DEF ms, s, stats, n, count, previousTotal, isFirst
  <2> QED BY <1>3, <1>6 DEF StatFields, Least, Largest
<1> HIDE DEF newStats
<1>11. /\ DOMAIN refreshed = StatFields
       /\ refreshed.samples = n + 1
       /\ refreshed.average = <<SumOf(t, 1, n + 1), n + 1>>
       /\ refreshed.movingAverage = LastOf(t)
       /\ refreshed.p95 = Percentile(t, 95)
       /\ refreshed.min = min /\ refreshed.max = max
  <2>1. refreshed = RefreshDerivedStats(newStats, t)
    OBVIOUS
  <2> HIDE DEF refreshed, t, n, min, max
  <2>2. /\ refreshed.samples = newStats.samples /\ refreshed.average = newStats.average
        /\ refreshed.min = newStats.min /\ refreshed.max = newStats.max
        /\ DOMAIN refreshed = StatFields
        /\ refreshed.movingAverage = LastOf(t)
        /\ refreshed.p95 = Percentile(t, 95)
    BY ONLY <1>9, <2>1, Refreshed
  <2> QED BY ONLY <1>8, <1>9, <2>2
<1>12. entry.stats = refreshed /\ entry.samples = t
  OBVIOUS
<1> HIDE DEF entry, refreshed, t, ms
<1>13. EntryInv(entry)
  <2> HIDE DEF n, min, max
  <2>1. n + 1 > 0
    BY <1>3
  <2>2. n + 1 = Len(entry.samples)
    BY ONLY <1>7, <1>12
  <2>3. entry.stats.average = <<SumOf(entry.samples, 1, Len(entry.samples)), Len(entry.samples)>>
    BY ONLY <1>11, <1>12, <2>2
  <2>4. entry.stats.movingAverage = LastOf(entry.samples)
    BY ONLY <1>11, <1>12
  <2>5. /\ entry.samples \in Seq(Nat) /\ Len(entry.samples) > 0
        /\ DOMAIN entry.stats = StatFields
        /\ entry.stats.samples = Len(entry.samples)
        /\ entry.stats.p95 = Percentile(entry.samples, 95)
        /\ Bounds(entry.samples, Len(entry.samples), entry.stats.min, entry.stats.max)
    BY ONLY <1>7, <1>11, <1>12, <2>1, <2>2
  <2> QED BY ONLY <2>3, <2>4, <2>5 DEF EntryInv
<1>14. /\ DOMAIN after = DOMAIN st \cup {stage} /\ after[stage] = entry
       /\ \A other \in DOMAIN st : other # stage => after[other] = st[other]
  BY <1>1
<1> HIDE DEF after
<1>15. StagesInv(after)
  BY <1>13, <1>14 DEF StagesInv
<1> QED BY <1>7, <1>12, <1>14, <1>15 DEF after

-----------------------------------------------------------------------------
\* The benchmark uses the pipeline as its module says it may be used, too: it attaches
\* the backend before the start, calls from one thread and never clears the queues.
THEOREM PipelineOfBench == BenchSpec => Spec
<1>1. BenchInit => Init
  BY DEF BenchInit
<1>2. [BenchNext]_benchVars => [Next]_vars
  <2> SUFFICES ASSUME [BenchNext]_benchVars PROVE [Next]_vars
    OBVIOUS
  <2>1. CASE LoadDummy \/ (\E ms \in ChunkMs : WarmUpDummy(ms)) \/ LoopEnds \/ WaitForWorker
             \/ WaitFails \/ (\E ms \in ChunkMs : RecordObserved(ms)) \/ RecordBackend
    BY <2>1 DEF LoadDummy, WarmUpDummy, LoopEnds, WaitForWorker, WaitFails, RecordObserved,
                RecordBackend
  <2>2. CASE LoadStats
    BY <2>2 DEF LoadStats, Load
  <2>3. CASE AttachDummy
    BY <2>3, DummyAssumption DEF AttachDummy, Next
  <2>4. CASE StartPipeline \/ StopPipeline
    BY <2>4 DEF StartPipeline, StopPipeline, Next, ControlStep
  <2>5. CASE Callback \/ \E ms \in Durations : CallbackEnds(ms)
    BY <2>5 DEF Callback, CallbackEnds, Next, AudioStep
  <2>6. CASE Worker
    BY <2>6 DEF Worker, WorkerMoves, WorkerPushes, WorkerConverts, Next, WorkerStep
  <2>7. CASE Memory
    BY <2>7 DEF Memory, Next
  <2>8. CASE UNCHANGED benchVars
    BY <2>8 DEF benchVars
  <2> QED BY <2>1, <2>2, <2>3, <2>4, <2>5, <2>6, <2>7, <2>8 DEF BenchNext, Main
<1> QED BY <1>1, <1>2, PTL DEF BenchSpec, Spec

\* What the pipeline's theorems say of the benchmark's counters.
BenchAccounts == TypeOK /\ CallsAreAnswered /\ BlocksConserved

\* They hold in the benchmark.
LEMMA AccountsOfBench == BenchSpec => []BenchAccounts
BY PipelineOfBench, TypeCorrect, CallsAnswered, Conservation, PTL DEF BenchAccounts

NoWorkerYet == {"load", "warmUp", "attach", "start"}
AfterLoop == {"wait", "processed", "droppedOutput", "inputSize", "outputSize", "stop",
              "observed", "backend", "report", "done"}
AfterWait == AfterLoop \ {"wait"}
AfterJoin == {"observed", "backend", "done"}

\* The main thread is in its loop of callbacks, or it has made all of them.  No block is
\* unsupported, and none is cleared.
LoopInv ==
  /\ mainStep \in MainSteps /\ waited \in BOOLEAN
  /\ nextSequence <= MaxCalls + 1
  /\ unsupportedInputBlocks = 0 /\ clearedInput = 0 /\ clearedOutput = 0
  /\ mainStep \in AfterLoop => audioStep = "idle" /\ nextSequence = MaxCalls + 1
  /\ waited => mainStep \in AfterWait /\ workerProcessedBlocks >= MaxCalls

\* What the dummy counted is its warm-up and the blocks the worker has converted.
Converted == workerProcessedBlocks + OneIf(workerStep \in {"push", "count"})
DummyInv ==
  /\ mainStep \in NoWorkerYet \cup AfterJoin => ~Joinable
  /\ mainStep = "load" \/ modelLoaded
  /\ warmupRuns = IF mainStep \in {"load", "warmUp"} THEN 0 ELSE 2
  /\ processedChunks = warmupRuns + Converted
  /\ mainStep = "done" => backendStats = DummyStats

\* What the worker does to what the main thread reads: it only ever counts up and puts out.
LEMMA WorkerEffect ==
  ASSUME TypeOK, Worker
  PROVE  /\ UNCHANGED <<mainVars, audioVars, controlVars, modelLoaded, warmupRuns>>
         /\ Joinable /\ Joinable'
         /\ workerProcessedBlocks <= workerProcessedBlocks'
         /\ droppedOutputBlocks <= droppedOutputBlocks'
         /\ Len(outputQueue) <= Len(outputQueue')
<1>1. UNCHANGED <<mainVars, audioVars, controlVars, modelLoaded, warmupRuns>>
  <2>1. CASE WorkerMoves
    BY <2>1 DEF WorkerMoves, CheckRunning, LookForInput, PopInput, CountProcessed, dummyVars
  <2>2. CASE WorkerPushes
    BY <2>2 DEF WorkerPushes, PushOutput, dummyVars
  <2>3. CASE \E ms \in ChunkMs : WorkerConverts(ms)
    BY <2>3 DEF WorkerConverts, Process, ProcessChunk
  <2> QED BY <2>1, <2>2, <2>3 DEF Worker
<1>2. Joinable /\ Joinable'
  BY DEF Worker, WorkerMoves, WorkerPushes, WorkerConverts, CheckRunning, LookForInput, PopInput,
         Process, PushOutput, CountProcessed, Joinable
<1>3. workerProcessedBlocks \in Nat /\ droppedOutputBlocks \in Nat /\ Len(outputQueue) \in Nat
  BY LenProperties DEF TypeOK, CounterTypeOK, QueueTypeOK
<1>4. CASE \/ CheckRunning \/ LookForInput \/ PopInput \/ \E ms \in ChunkMs : WorkerConverts(ms)
  <2>1. UNCHANGED <<workerProcessedBlocks, droppedOutputBlocks, outputQueue>>
    BY <1>4 DEF CheckRunning, LookForInput, PopInput, WorkerConverts, Process, workerCounters,
                outVars, outputQueueVars
  <2> QED BY <1>1, <1>2, <1>3, <2>1
<1>5. CASE PushOutput
  <2>1. workerProcessedBlocks' = workerProcessedBlocks
        /\ droppedOutputBlocks' \in {droppedOutputBlocks, droppedOutputBlocks + 1}
    BY <1>5 DEF PushOutput
  <2>2. outputQueue' = outputQueue \/ outputQueue' = Append(outputQueue, output)
    BY <1>5 DEF PushOutput, Out!TryPush
  <2>3. Len(Append(outputQueue, output)) = Len(outputQueue) + 1
    BY AppendProperties DEF TypeOK, QueueTypeOK
  <2>4. Len(outputQueue) <= Len(outputQueue')
    BY <1>3, <2>2, <2>3
  <2> QED BY <1>1, <1>2, <1>3, <2>1, <2>4
<1>6. CASE CountProcessed
  <2>1. /\ workerProcessedBlocks' = workerProcessedBlocks + 1
        /\ UNCHANGED <<droppedOutputBlocks, outputQueue>>
    BY <1>6 DEF CountProcessed, outVars, outputQueueVars
  <2> QED BY <1>1, <1>2, <1>3, <2>1
<1> QED BY <1>4, <1>5, <1>6 DEF Worker, WorkerMoves, WorkerPushes

\* The steps of the main thread that are not callbacks, nor start or stop the worker.
MainAlone ==
  \/ LoadDummy \/ (\E ms \in ChunkMs : WarmUpDummy(ms)) \/ AttachDummy \/ LoopEnds
  \/ WaitForWorker \/ WaitFails \/ LoadStats
  \/ (\E ms \in ChunkMs : RecordObserved(ms)) \/ RecordBackend

\* They leave the two other threads and the queues alone.
LEMMA MainAloneKeeps ==
  ASSUME MainAlone
  PROVE  UNCHANGED <<audioVars, workerVars, inVars, outVars, clearedInput, clearedOutput>>
BY DEF MainAlone, LoadDummy, WarmUpDummy, AttachDummy, LoopEnds, WaitForWorker, WaitFails, LoadStats,
       Load, RecordObserved, RecordBackend, vars, controlVars, SetInferenceBackend

\* Starting and stopping leaves what was counted and what is on its way out alone.
LEMMA StartStopKeeps ==
  ASSUME StartPipeline \/ StopPipeline
  PROVE  /\ UNCHANGED <<audioVars, workerCounters, outVars, inputQueueVars>>
         /\ UNCHANGED <<clearedInput, clearedOutput, dummyVars, attempt, waited, workerStats, stages,
                        backendStats>>
BY DEF StartPipeline, StopPipeline, Start, Spawn, Stop, Join, workerVars, inVars

\* A callback is of the audio thread: it counts itself, and the rest of the benchmark waits.
LEMMA CallbackKeeps ==
  ASSUME Callback \/ \E ms \in Durations : CallbackEnds(ms)
  PROVE  /\ mainStep = "submit"
         /\ UNCHANGED <<workerVars, controlVars, dummyVars, mainStep, attempt, waited, workerStats,
                        backendStats, unsupportedInputBlocks>>
         /\ \/ nextSequence' = nextSequence
            \/ nextSequence <= MaxCalls /\ nextSequence' = nextSequence + 1
<1> DEFINE kept == <<workerVars, controlVars, dummyVars, mainStep, attempt, waited, workerStats,
                     backendStats, unsupportedInputBlocks>>
<1>1. CASE Callback
  <2>1. mainStep = "submit" /\ UNCHANGED <<dummyVars, mainVars>>
    BY <1>1 DEF Callback
  <2>2. CASE SubmitSupported
    BY <2>1, <2>2 DEF SubmitSupported, mainVars
  <2>3. CASE PushInput
    BY <2>1, <2>3 DEF PushInput, mainVars
  <2> QED BY <1>1, <2>2, <2>3 DEF Callback
<1>2. ASSUME NEW ms \in Durations, CallbackEnds(ms)
      PROVE  mainStep = "submit" /\ UNCHANGED kept /\ nextSequence' = nextSequence
  BY <1>2 DEF CallbackEnds, ConsumeOutput
<1> QED BY <1>1, <1>2

\* What becomes visible was there before.
LEMMA MemoryKeeps ==
  ASSUME Memory
  PROVE  /\ UNCHANGED <<audioVars, workerVars, controlVars, dummyVars, mainVars, memoryVars>>
         /\ UNCHANGED <<inputQueue, input, outputQueue, outputScratch>>
BY DEF Memory, Notice, In!NoticePops, In!NoticePushes, Out!NoticePops, Out!NoticePushes,
       inVars, outVars, inputQueueVars, outputQueueVars

\* A step of the benchmark is of one of five kinds.
LEMMA Kinds ==
  ASSUME [BenchNext]_benchVars
  PROVE  \/ MainAlone \/ StartPipeline \/ StopPipeline
         \/ Callback \/ (\E ms \in Durations : CallbackEnds(ms))
         \/ Worker \/ Memory \/ UNCHANGED benchVars
BY DEF BenchNext, Main, MainAlone

\* Every step keeps the invariant of the loop of callbacks.
LEMMA LoopStep ==
  ASSUME LoopInv, TypeOK, [BenchNext]_benchVars PROVE LoopInv'
<1> USE DEF LoopInv
<1>0. nextSequence \in Nat /\ workerProcessedBlocks \in Nat
  BY DEF TypeOK, CounterTypeOK
<1>1. CASE MainAlone
  <2>1. UNCHANGED <<audioStep, nextSequence, unsupportedInputBlocks, clearedInput, clearedOutput,
                    workerProcessedBlocks>>
    BY <1>1, MainAloneKeeps DEF audioVars, audioCounters, workerVars, workerCounters
  <2>2. CASE LoadDummy \/ (\E ms \in ChunkMs : WarmUpDummy(ms)) \/ AttachDummy
    <3>1. mainStep \in {"load", "warmUp", "attach"} /\ mainStep' \in {"warmUp", "attach", "start"}
          /\ waited' = waited
      BY <2>2 DEF LoadDummy, WarmUpDummy, AttachDummy
    <3>2. mainStep \notin AfterWait /\ mainStep' \notin AfterLoop /\ mainStep' \in MainSteps
      BY <3>1 DEF MainSteps, AfterLoop, AfterWait
    <3>3. ~waited' /\ waited' \in BOOLEAN
      BY <3>1, <3>2
    <3> QED BY <2>1, <3>2, <3>3
  <2>3. CASE LoopEnds
    <3>1. /\ mainStep = "submit" /\ audioStep = "idle" /\ nextSequence > MaxCalls
          /\ mainStep' = "wait" /\ waited' = waited
      BY <2>3 DEF LoopEnds
    <3>2. nextSequence = MaxCalls + 1
      BY <1>0, <3>1, MaxCallsAssumption
    <3> QED BY <2>1, <3>1, <3>2 DEF MainSteps, AfterLoop, AfterWait
  <2>4. CASE WaitForWorker
    <3>1. mainStep = "wait"
      BY <2>4 DEF WaitForWorker
    <3>2. \/ mainStep' = "wait" /\ waited' = waited
          \/ workerProcessedBlocks >= MaxCalls /\ mainStep' = "processed" /\ waited' = TRUE
      <4>1. PICK n \in ProcessedSeen :
              \/ mainStep' = mainStep /\ waited' = waited
              \/ n >= MaxCalls /\ mainStep' = "processed" /\ waited' = TRUE
        BY <2>4 DEF WaitForWorker
      <4>2. n >= MaxCalls => workerProcessedBlocks >= MaxCalls
        <5>1. n \in Int /\ n <= workerProcessedBlocks
          BY DEF ProcessedSeen
        <5> QED BY <1>0, <5>1, MaxCallsAssumption
      <4> QED BY <3>1, <4>1, <4>2
    <3>3. ~waited
      BY <3>1 DEF AfterWait
    <3>4. mainStep' \in AfterLoop /\ mainStep' \in MainSteps /\ waited' \in BOOLEAN
      BY <3>2 DEF MainSteps, AfterLoop
    <3>5. waited' => mainStep' \in AfterWait /\ workerProcessedBlocks' >= MaxCalls
      BY <2>1, <3>2, <3>3 DEF AfterLoop, AfterWait
    <3>6. audioStep = "idle" /\ nextSequence = MaxCalls + 1
      BY <3>1 DEF AfterLoop
    <3> QED BY <2>1, <3>4, <3>5, <3>6
  <2>5. CASE WaitFails \/ LoadStats \/ (\E ms \in ChunkMs : RecordObserved(ms)) \/ RecordBackend
    <3>1. mainStep \in AfterLoop /\ mainStep' \in AfterWait /\ waited' = waited
      BY <2>5 DEF WaitFails, LoadStats, Load, RecordObserved, RecordBackend, AfterLoop, AfterWait
    <3> QED BY <2>1, <3>1 DEF MainSteps, AfterLoop, AfterWait
  <2> QED BY <1>1, <2>2, <2>3, <2>4, <2>5 DEF MainAlone
<1>2. CASE StartPipeline \/ StopPipeline
  <2>1. UNCHANGED <<audioStep, nextSequence, unsupportedInputBlocks, clearedInput, clearedOutput,
                    workerProcessedBlocks, waited>>
    BY <1>2, StartStopKeeps DEF audioVars, audioCounters, workerCounters
  <2>2. \/ mainStep = "start" /\ mainStep' \in {"start", "submit"}
        \/ mainStep = "stop" /\ mainStep' \in {"stop", "observed"}
    BY <1>2 DEF StartPipeline, StopPipeline
  <2> QED BY <2>1, <2>2 DEF MainSteps, AfterLoop, AfterWait
<1>3. CASE Callback \/ \E ms \in Durations : CallbackEnds(ms)
  <2>1. /\ mainStep = "submit" /\ UNCHANGED <<mainStep, waited, unsupportedInputBlocks>>
        /\ UNCHANGED <<workerProcessedBlocks, clearedInput, clearedOutput>>
    BY <1>3, CallbackKeeps DEF workerVars, workerCounters, controlVars
  <2>2. nextSequence' <= MaxCalls + 1
    BY <1>0, <1>3, CallbackKeeps, MaxCallsAssumption
  <2> QED BY <2>1, <2>2 DEF AfterLoop, AfterWait
<1>4. CASE Worker
  <2>1. UNCHANGED <<mainStep, waited, audioStep, nextSequence, unsupportedInputBlocks, clearedInput,
                    clearedOutput>>
        /\ workerProcessedBlocks <= workerProcessedBlocks'
    BY <1>4, WorkerEffect DEF mainVars, audioVars, audioCounters, controlVars
  <2>2. waited => workerProcessedBlocks' >= MaxCalls
    <3>1. SUFFICES ASSUME waited PROVE workerProcessedBlocks' >= MaxCalls
      OBVIOUS
    <3>2. workerProcessedBlocks' \in Int
      BY <1>4, <1>0 DEF Worker, WorkerMoves, WorkerPushes, WorkerConverts, CheckRunning,
                        LookForInput, PopInput, Process, PushOutput, CountProcessed, workerCounters
    <3> QED BY <1>0, <2>1, <3>1, <3>2, MaxCallsAssumption
  <2> QED BY <2>1, <2>2
<1>5. CASE Memory \/ UNCHANGED benchVars
  <2>1. UNCHANGED <<mainStep, waited, audioStep, nextSequence, unsupportedInputBlocks, clearedInput,
                    clearedOutput, workerProcessedBlocks>>
    BY <1>5, MemoryKeeps
            DEF benchVars, mainVars, vars, audioVars, audioCounters, controlVars, workerVars,
                workerCounters
  <2> QED BY <2>1
<1> QED BY <1>1, <1>2, <1>3, <1>4, <1>5, Kinds

\* The main thread goes on from its loop when every callback has returned, and from its
\* wait with waited only when the worker has counted as many blocks.
THEOREM LoopInvariance == BenchSpec => []LoopInv
<1>1. BenchInit => LoopInv
  <2> SUFFICES ASSUME BenchInit PROVE LoopInv
    OBVIOUS
  <2>1. /\ mainStep = "load" /\ waited = FALSE /\ nextSequence = 1
        /\ unsupportedInputBlocks = 0 /\ clearedInput = 0 /\ clearedOutput = 0
    BY DEF BenchInit, Init
  <2>2. 1 <= MaxCalls + 1
    BY MaxCallsAssumption
  <2>3. mainStep \in MainSteps /\ mainStep \notin AfterLoop
    BY <2>1 DEF MainSteps, AfterLoop
  <2>4. waited \in BOOLEAN /\ ~waited
    BY <2>1
  <2> QED BY <2>1, <2>2, <2>3, <2>4 DEF LoopInv
<1>2. LoopInv /\ BenchAccounts /\ [BenchNext]_benchVars => LoopInv'
  BY LoopStep DEF BenchAccounts
<1> QED BY <1>1, <1>2, AccountsOfBench, PTL DEF BenchSpec

\* When the loop of callbacks is over, all of them were submitted; what they account for.
LEMMA AllSubmitted ==
  ASSUME LoopInv, BenchAccounts
  PROVE  /\ submittedBlocks \in Nat /\ droppedInputBlocks \in Nat /\ workerProcessedBlocks \in Nat
         /\ consumedOutputBlocks \in Nat /\ droppedOutputBlocks \in Nat
         /\ Len(inputQueue) \in Nat /\ Len(outputQueue) \in Nat
         /\ mainStep \in AfterLoop =>
              /\ submittedBlocks = MaxCalls
              /\ submittedBlocks = droppedInputBlocks + Len(inputQueue)
                                   + OneIf(Holding \/ workerStep = "count") + workerProcessedBlocks
         /\ workerProcessedBlocks + OneIf(workerStep = "count") =
              droppedOutputBlocks + Len(outputQueue) + consumedOutputBlocks
<1>1. /\ submittedBlocks \in Nat /\ droppedInputBlocks \in Nat /\ workerProcessedBlocks \in Nat
      /\ consumedOutputBlocks \in Nat /\ droppedOutputBlocks \in Nat /\ nextSequence \in Nat
      /\ Len(inputQueue) \in Nat /\ Len(outputQueue) \in Nat
  BY LenProperties DEF BenchAccounts, TypeOK, CounterTypeOK, QueueTypeOK
<1>2. \A p : OneIf(p) \in {0, 1}
  BY DEF OneIf
<1>3. PICK h \in {0, 1} : h = OneIf(Holding \/ workerStep = "count")
  BY <1>2
<1>4. PICK k \in {0, 1} : k = OneIf(workerStep = "count")
  BY <1>2
<1>5. workerProcessedBlocks + k = droppedOutputBlocks + Len(outputQueue) + consumedOutputBlocks
  <2>1. workerProcessedBlocks + k =
          droppedOutputBlocks + clearedOutput + Len(outputQueue) + consumedOutputBlocks
        /\ clearedOutput = 0
    BY <1>4 DEF LoopInv, BenchAccounts, BlocksConserved
  <2> QED BY <1>1, <2>1
<1>6. ASSUME mainStep \in AfterLoop
      PROVE  /\ submittedBlocks = MaxCalls
             /\ submittedBlocks = droppedInputBlocks + Len(inputQueue) + h + workerProcessedBlocks
  <2>1. audioStep = "idle" /\ nextSequence = MaxCalls + 1
        /\ unsupportedInputBlocks = 0 /\ clearedInput = 0
    BY <1>6 DEF LoopInv
  <2>2. nextSequence = submittedBlocks + unsupportedInputBlocks + 1
    BY DEF BenchAccounts, CallsAreAnswered
  <2>3. OneIf(audioStep = "push") = 0
    BY <2>1 DEF OneIf
  <2>4. submittedBlocks + unsupportedInputBlocks =
          0 + droppedInputBlocks + clearedInput + Len(inputQueue) + h + workerProcessedBlocks
    BY <1>3, <2>3 DEF BenchAccounts, BlocksConserved
  <2> QED BY <1>1, <2>1, <2>2, <2>4, MaxCallsAssumption
<1> QED BY <1>1, <1>3, <1>4, <1>5, <1>6

\* waitForWorker answers for every block: what is counted as processed can only reach the
\* number of iterations if none was dropped and none is on its way.
THEOREM WaitHonest == BenchSpec => []WaitIsHonest
<1>1. LoopInv /\ BenchAccounts => WaitIsHonest
  <2> SUFFICES ASSUME LoopInv, BenchAccounts, waited
               PROVE  /\ workerProcessedBlocks = MaxCalls
                      /\ droppedInputBlocks = 0 /\ inputQueue = <<>>
    BY DEF WaitIsHonest
  <2>1. mainStep \in AfterLoop /\ workerProcessedBlocks >= MaxCalls
    BY DEF LoopInv, AfterWait
  <2>2. PICK h \in {0, 1} : h = OneIf(Holding \/ workerStep = "count")
    BY DEF OneIf
  <2>3. /\ droppedInputBlocks \in Nat /\ workerProcessedBlocks \in Nat /\ Len(inputQueue) \in Nat
        /\ MaxCalls = droppedInputBlocks + Len(inputQueue) + h + workerProcessedBlocks
    BY <2>1, <2>2, AllSubmitted
  <2>4. workerProcessedBlocks = MaxCalls /\ droppedInputBlocks = 0 /\ Len(inputQueue) = 0
    BY <2>1, <2>3, MaxCallsAssumption
  <2>5. inputQueue = <<>>
    BY <2>4, EmptySeq DEF BenchAccounts, TypeOK, QueueTypeOK
  <2> QED BY <2>4, <2>5
<1> QED BY <1>1, LoopInvariance, AccountsOfBench, PTL

-----------------------------------------------------------------------------
\* What the dummy backend counted.

\* Every step keeps the count of the dummy backend.
LEMMA DummyStep ==
  ASSUME DummyInv, LoopInv, TypeOK, [BenchNext]_benchVars PROVE DummyInv'
<1> USE DEF DummyInv
<1>0. workerProcessedBlocks \in Nat /\ Converted \in Nat /\ mainStep \in MainSteps
  BY DEF TypeOK, CounterTypeOK, Converted, OneIf, LoopInv
<1>1. CASE MainAlone
  <2>1. UNCHANGED <<workerStep, workerProcessedBlocks>>
    BY <1>1, MainAloneKeeps DEF workerVars, workerCounters
  <2>2. Joinable' = Joinable /\ Converted' = Converted
    BY <2>1 DEF Joinable, Converted
  <2>3. CASE LoadDummy
    <3>1. /\ mainStep = "load" /\ mainStep' = "warmUp" /\ modelLoaded'
          /\ UNCHANGED <<processedChunks, warmupRuns>>
      BY <2>3 DEF LoadDummy, LoadModel
    <3> QED BY <2>2, <3>1 DEF NoWorkerYet, AfterJoin
  <2>4. ASSUME NEW ms \in ChunkMs, WarmUpDummy(ms) PROVE DummyInv'
    <3>1. /\ mainStep = "warmUp" /\ mainStep' = "attach" /\ modelLoaded
          /\ WarmUp(2, ms)
      BY <2>4 DEF WarmUpDummy
    <3>2. /\ modelLoaded' /\ processedChunks' = processedChunks + 2
          /\ warmupRuns' = warmupRuns + 2
      BY <3>1 DEF WarmUp, RecordProcessTime
    <3>3. warmupRuns = 0 /\ processedChunks = 0 + Converted
      BY <3>1
    <3>4. warmupRuns' = 2 /\ processedChunks' = 2 + Converted
      BY <1>0, <3>2, <3>3
    <3> QED BY <2>2, <3>1, <3>2, <3>4 DEF NoWorkerYet, AfterJoin
  <2>5. CASE AttachDummy
    <3>1. mainStep = "attach" /\ mainStep' = "start" /\ UNCHANGED dummyVars
      BY <2>5 DEF AttachDummy
    <3> QED BY <2>2, <3>1 DEF NoWorkerYet, AfterJoin, dummyVars
  <2>6. CASE LoopEnds \/ WaitForWorker \/ WaitFails \/ LoadStats
    <3>1. /\ mainStep \notin NoWorkerYet \cup AfterJoin /\ mainStep' \notin NoWorkerYet \cup AfterJoin
          /\ UNCHANGED dummyVars
      BY <2>6 DEF LoopEnds, WaitForWorker, WaitFails, LoadStats, Load, NoWorkerYet, AfterJoin
    <3>2. mainStep \notin {"load", "warmUp", "done"} /\ mainStep' \notin {"load", "warmUp", "done"}
      BY <3>1 DEF NoWorkerYet, AfterJoin
    <3> QED BY <2>2, <3>1, <3>2 DEF dummyVars
  <2>7. CASE (\E ms \in ChunkMs : RecordObserved(ms)) \/ RecordBackend
    <3>1. /\ mainStep \in {"observed", "backend"} /\ mainStep' \in {"backend", "done"}
          /\ UNCHANGED dummyVars /\ (mainStep' = "done" => backendStats' = DummyStats)
      BY <2>7 DEF RecordObserved, RecordBackend
    <3>2. DummyStats' = DummyStats
      BY <3>1 DEF DummyStats, dummyVars
    <3> QED BY <2>2, <3>1, <3>2 DEF NoWorkerYet, AfterJoin, dummyVars
  <2> QED BY <1>1, <2>3, <2>4, <2>5, <2>6, <2>7 DEF MainAlone
<1>2. CASE StartPipeline
  <2>1. UNCHANGED <<workerProcessedBlocks, dummyVars, backendStats>> /\ mainStep = "start"
    BY <1>2, StartStopKeeps DEF workerCounters, StartPipeline
  <2>2. \/ mainStep' = "start" /\ workerStep' = workerStep
        \/ mainStep' = "submit" /\ workerStep' = "check"
    BY <1>2 DEF StartPipeline, Start, Spawn, workerVars
  <2>3. workerStep = "none"
    BY <2>1 DEF Joinable, NoWorkerYet
  <2>4. Converted' = Converted
    BY <2>1, <2>2, <2>3 DEF Converted, OneIf
  <2> QED BY <2>1, <2>2, <2>3, <2>4 DEF NoWorkerYet, AfterJoin, dummyVars, Joinable
<1>3. CASE StopPipeline
  <2>1. UNCHANGED <<workerProcessedBlocks, dummyVars, backendStats>> /\ mainStep = "stop"
    BY <1>3, StartStopKeeps DEF workerCounters, StopPipeline
  <2>2. \/ mainStep' = "stop" /\ workerStep' = workerStep
        \/ mainStep' = "observed" /\ workerStep = "done" /\ workerStep' = "none"
    BY <1>3 DEF StopPipeline, Stop, Join, workerVars
  <2>3. Converted' = Converted
    BY <2>1, <2>2 DEF Converted, OneIf
  <2> QED BY <2>1, <2>2, <2>3 DEF NoWorkerYet, AfterJoin, dummyVars, Joinable
<1>4. CASE Callback \/ \E ms \in Durations : CallbackEnds(ms)
  <2>1. mainStep = "submit" /\ UNCHANGED <<workerVars, dummyVars, mainStep, backendStats>>
    BY <1>4, CallbackKeeps
  <2>2. Converted' = Converted
    BY <2>1 DEF Converted, workerVars, workerCounters
  <2> QED BY <2>1, <2>2 DEF NoWorkerYet, AfterJoin, dummyVars
<1>5. CASE Worker
  <2>1. /\ UNCHANGED <<mainStep, backendStats, modelLoaded, warmupRuns>> /\ Joinable
    BY <1>5, WorkerEffect DEF mainVars
  <2>2. mainStep \notin NoWorkerYet \cup AfterJoin /\ modelLoaded
    BY <2>1 DEF NoWorkerYet
  <2>3. mainStep \notin {"load", "warmUp", "done"}
    BY <2>2 DEF NoWorkerYet, AfterJoin
  <2>4. processedChunks' = warmupRuns + Converted'
    <3>1. CASE CheckRunning /\ UNCHANGED dummyVars
      BY <1>0, <3>1 DEF CheckRunning, Converted, OneIf, workerCounters, dummyVars
    <3>2. CASE (LookForInput \/ PopInput) /\ UNCHANGED dummyVars
      BY <1>0, <3>2 DEF LookForInput, PopInput, Converted, OneIf, workerCounters, dummyVars
    <3>3. CASE PushOutput /\ UNCHANGED dummyVars
      BY <1>0, <3>3 DEF PushOutput, Converted, OneIf, dummyVars
    <3>4. CASE CountProcessed /\ UNCHANGED dummyVars
      <4>1. workerStep = "count" /\ workerStep' = "check"
            /\ workerProcessedBlocks' = workerProcessedBlocks + 1
        BY <3>4 DEF CountProcessed
      <4>2. Converted = workerProcessedBlocks + 1 /\ Converted' = workerProcessedBlocks + 1
        BY <1>0, <4>1 DEF Converted, OneIf
      <4> QED BY <3>4, <4>2 DEF dummyVars
    <3>5. ASSUME NEW ms \in ChunkMs, WorkerConverts(ms)
          PROVE  processedChunks' = warmupRuns + Converted'
      <4>1. /\ workerStep = "process" /\ workerStep' = "push"
            /\ workerProcessedBlocks' = workerProcessedBlocks
        BY <3>5 DEF WorkerConverts, Process
      <4>2. Converted = workerProcessedBlocks + 0 /\ Converted' = workerProcessedBlocks + 1
        BY <4>1 DEF Converted, OneIf
      <4>3. processedChunks' = processedChunks + 1
        BY <2>2, <3>5 DEF WorkerConverts, ProcessChunk, RecordProcessTime
      <4>4. warmupRuns \in Nat
        BY <2>3
      <4> QED BY <1>0, <4>2, <4>3, <4>4
    <3> QED BY <1>5, <3>1, <3>2, <3>3, <3>4, <3>5 DEF Worker, WorkerMoves, WorkerPushes
  <2> QED BY <2>1, <2>2, <2>3, <2>4
<1>6. CASE Memory \/ UNCHANGED benchVars
  <2>1. UNCHANGED <<mainStep, backendStats, dummyVars, workerStep, workerProcessedBlocks>>
    BY <1>6, MemoryKeeps DEF benchVars, mainVars, vars, workerVars, workerCounters
  <2>2. Joinable' = Joinable /\ Converted' = Converted
    BY <2>1 DEF Joinable, Converted
  <2>3. DummyStats' = DummyStats
    BY <2>1 DEF DummyStats, dummyVars
  <2> QED BY <2>1, <2>2, <2>3 DEF dummyVars
<1> QED BY <1>1, <1>2, <1>3, <1>4, <1>5, <1>6, Kinds

\* The dummy backend has counted its warm-up and the worker's conversions, at every step.
THEOREM DummyInvariance == BenchSpec => []DummyInv
<1>1. BenchInit => DummyInv
  <2> SUFFICES ASSUME BenchInit PROVE DummyInv
    OBVIOUS
  <2>1. /\ mainStep = "load" /\ workerStep = "none" /\ workerProcessedBlocks = 0
        /\ warmupRuns = 0 /\ processedChunks = 0
    BY DEF BenchInit, Init, DummyInit
  <2> QED BY <2>1 DEF DummyInv, Joinable, Converted, OneIf
<1>2. DummyInv /\ LoopInv /\ BenchAccounts /\ [BenchNext]_benchVars => DummyInv'
  BY DummyStep DEF BenchAccounts
<1> QED BY <1>1, <1>2, LoopInvariance, AccountsOfBench, PTL DEF BenchSpec

\* The count the report gives for the backend is the warm-up and every block the worker
\* took, also those it took after the wait was given up.
THEOREM BackendCounted == BenchSpec => []BackendCountsAll
<1>1. DummyInv /\ LoopInv /\ BenchAccounts => BackendCountsAll
  <2> SUFFICES ASSUME DummyInv, LoopInv, BenchAccounts, mainStep = "done"
               PROVE  /\ backendStats.warmupRuns = 2
                      /\ backendStats.processedChunks =
                           backendStats.warmupRuns + submittedBlocks - droppedInputBlocks
                           - Len(inputQueue)
                      /\ backendStats = DummyStats
    BY DEF BackendCountsAll
  <2>1. workerStep = "none"
    BY DEF DummyInv, AfterJoin, Joinable
  <2>2. backendStats = DummyStats /\ warmupRuns = 2 /\ processedChunks = warmupRuns + Converted
    BY DEF DummyInv
  <2>3. Converted = workerProcessedBlocks + 0 /\ OneIf(Holding \/ workerStep = "count") = 0
    BY <2>1 DEF Converted, OneIf, Holding
  <2>4. mainStep \in AfterLoop
    BY DEF AfterLoop
  <2>5. /\ submittedBlocks \in Nat /\ droppedInputBlocks \in Nat /\ workerProcessedBlocks \in Nat
        /\ Len(inputQueue) \in Nat
        /\ submittedBlocks = droppedInputBlocks + Len(inputQueue) + 0 + workerProcessedBlocks
    BY <2>3, <2>4, AllSubmitted
  <2>6. backendStats.warmupRuns = 2 /\ backendStats.processedChunks = 2 + workerProcessedBlocks
    BY <2>2, <2>3, <2>5 DEF DummyStats
  <2> QED BY <2>2, <2>5, <2>6
<1> QED BY <1>1, DummyInvariance, LoopInvariance, AccountsOfBench, PTL

-----------------------------------------------------------------------------
\* What the main thread reads of the worker while it runs.

\* The blocks the worker has taken from the input queue.
Taken == workerProcessedBlocks + OneIf(Holding \/ workerStep = "count")
ViewFacts == BenchAccounts /\ ControlKnowsWorker /\ OutputIsFresh /\ AgeInv

\* The pipeline's theorems give the facts.
LEMMA FactsOfBench == BenchSpec => []ViewFacts
BY PipelineOfBench, AccountsOfBench, ControlInvariance, OutputFreshness, AgeInvariance, PTL
   DEF ViewFacts

Publications == [processed : Nat, droppedOutput : Nat, taken : Nat]

\* What was published with the k-th block to come back, whose number is q, and what was
\* counted since.
Fits(p, q, k, taken, done, dropped, droppedIn) ==
  /\ k <= p.taken /\ p.taken = p.processed + 1
  /\ p.taken <= taken /\ p.processed <= done /\ p.droppedOutput <= dropped
  /\ q <= k + p.droppedOutput + droppedIn

\* Each push in the output queue published more than the one before.
PublishedInv ==
  /\ published \in Seq(Publications) /\ Len(published) = Len(outputQueue)
  /\ \A i \in 1 .. Len(outputQueue) :
       Fits(published[i], outputQueue[i].sequence, consumedOutputBlocks + i, Taken,
            workerProcessedBlocks, droppedOutputBlocks, droppedInputBlocks)
  /\ \A i, j \in 1 .. Len(outputQueue) :
       i <= j => published[i].droppedOutput <= published[j].droppedOutput

\* What main must see is what was published with the last block it got, or more.
Sees(v, q, k, taken, done, dropped, droppedIn) ==
  /\ k <= v.taken /\ k <= v.processed + 1
  /\ v.taken <= taken /\ v.processed <= done /\ v.droppedOutput <= dropped
  /\ q <= k + v.droppedOutput + droppedIn
ViewInv ==
  /\ view \in Publications
  /\ Sees(view, outputScratch.sequence, consumedOutputBlocks, Taken,
          workerProcessedBlocks, droppedOutputBlocks, droppedInputBlocks)

\* What the snapshot holds so far lies between what main must see and what there is.
SnapshotInv ==
  LET s == workerStats
      accepted == submittedBlocks - droppedInputBlocks
  IN /\ s \in [{"processed", "droppedOutput", "inputSize", "outputSize"} -> Nat]
     /\ waited => view.processed >= MaxCalls
     /\ mainStep \in {"droppedOutput", "inputSize", "outputSize", "stop"} =>
          view.processed <= s.processed /\ s.processed <= workerProcessedBlocks
     /\ mainStep \in {"inputSize", "outputSize", "stop"} =>
          view.droppedOutput <= s.droppedOutput /\ s.droppedOutput <= droppedOutputBlocks
     /\ mainStep \in {"outputSize", "stop"} =>
          Len(inputQueue) <= s.inputSize /\ s.inputSize + view.taken <= accepted
     /\ mainStep = "stop" =>
          consumedOutputBlocks + s.droppedOutput + s.outputSize <= accepted

\* What counts up keeps both fits.
LEMMA FitsLater ==
  ASSUME NEW p \in Publications, NEW q \in Nat, NEW k \in Nat,
         NEW taken \in Nat, NEW done \in Nat, NEW dropped \in Nat, NEW droppedIn \in Nat,
         NEW taken1 \in Nat, NEW done1 \in Nat, NEW dropped1 \in Nat, NEW droppedIn1 \in Nat,
         taken <= taken1, done <= done1, dropped <= dropped1, droppedIn <= droppedIn1
  PROVE  /\ Fits(p, q, k, taken, done, dropped, droppedIn)
            => Fits(p, q, k, taken1, done1, dropped1, droppedIn1)
         /\ Sees(p, q, k, taken, done, dropped, droppedIn)
            => Sees(p, q, k, taken1, done1, dropped1, droppedIn1)
<1>1. p.processed \in Nat /\ p.droppedOutput \in Nat /\ p.taken \in Nat
  BY DEF Publications
<1> QED BY <1>1 DEF Fits, Sees

\* The numbers the fits are about.
LEMMA ViewTypes ==
  ASSUME TypeOK
  PROVE  /\ Taken \in Nat /\ workerProcessedBlocks \in Nat /\ droppedOutputBlocks \in Nat
         /\ droppedInputBlocks \in Nat /\ consumedOutputBlocks \in Nat /\ submittedBlocks \in Nat
         /\ Len(outputQueue) \in Nat /\ Len(inputQueue) \in Nat /\ outputScratch.sequence \in Nat
         /\ \A i \in 1 .. Len(outputQueue) : outputQueue[i].sequence \in Nat
<1>1. \A p : OneIf(p) \in {0, 1}
  BY DEF OneIf
<1>2. workerProcessedBlocks \in Nat /\ droppedOutputBlocks \in Nat /\ submittedBlocks \in Nat
      /\ droppedInputBlocks \in Nat /\ consumedOutputBlocks \in Nat
  BY DEF TypeOK, CounterTypeOK
<1>3. PICK h \in {0, 1} : h = OneIf(Holding \/ workerStep = "count")
  BY <1>1
<1>4. Taken \in Nat
  BY <1>2, <1>3 DEF Taken
<1> QED BY <1>2, <1>4, LineTypes

\* Only a push changes what was published, and only a pop changes what came back: every
\* other step counts up at most.
LEMMA CountingKeepsView ==
  ASSUME PublishedInv, ViewInv, TypeOK, TypeOK',
         UNCHANGED <<outputQueue, outputScratch, consumedOutputBlocks, published, view>>,
         Taken <= Taken', workerProcessedBlocks <= workerProcessedBlocks',
         droppedOutputBlocks <= droppedOutputBlocks', droppedInputBlocks <= droppedInputBlocks'
  PROVE  PublishedInv' /\ ViewInv'
<1>0. /\ Taken \in Nat /\ workerProcessedBlocks \in Nat /\ droppedOutputBlocks \in Nat
      /\ droppedInputBlocks \in Nat /\ consumedOutputBlocks \in Nat
      /\ Len(outputQueue) \in Nat /\ outputScratch.sequence \in Nat
      /\ \A i \in 1 .. Len(outputQueue) : outputQueue[i].sequence \in Nat
  BY ViewTypes
<1>1. /\ Taken' \in Nat /\ workerProcessedBlocks' \in Nat /\ droppedOutputBlocks' \in Nat
      /\ droppedInputBlocks' \in Nat
  <2>1. /\ workerProcessedBlocks' \in Nat /\ droppedOutputBlocks' \in Nat
        /\ droppedInputBlocks' \in Nat
    BY DEF TypeOK, CounterTypeOK
  <2>2. OneIf(Holding \/ workerStep = "count")' \in {0, 1}
    BY DEF OneIf
  <2> QED BY <2>1, <2>2 DEF Taken
<1>2. ASSUME NEW i \in 1 .. Len(outputQueue)
      PROVE Fits(published[i], outputQueue[i].sequence, consumedOutputBlocks + i, Taken',
                 workerProcessedBlocks', droppedOutputBlocks', droppedInputBlocks')
  <2>1. published[i] \in Publications /\ outputQueue[i].sequence \in Nat
    BY <1>0, ElementOfSeq DEF PublishedInv
  <2>2. PICK k \in Nat : k = consumedOutputBlocks + i
    BY <1>0
  <2>3. Fits(published[i], outputQueue[i].sequence, k, Taken, workerProcessedBlocks,
             droppedOutputBlocks, droppedInputBlocks)
    BY <2>2 DEF PublishedInv
  <2>4. Fits(published[i], outputQueue[i].sequence, k, Taken', workerProcessedBlocks',
             droppedOutputBlocks', droppedInputBlocks')
    BY <1>0, <1>1, <2>1, <2>2, <2>3, FitsLater
  <2> QED BY <2>2, <2>4
<1>3. PublishedInv'
  BY <1>2 DEF PublishedInv
<1>4. ViewInv'
  BY <1>0, <1>1, FitsLater DEF ViewInv
<1> QED BY <1>3, <1>4

\* The worker takes a block before it counts it.
LEMMA TakenGrows ==
  ASSUME TypeOK, TypeOK', Worker
  PROVE  Taken <= Taken'
<1>0. workerProcessedBlocks \in Nat
  BY DEF TypeOK, CounterTypeOK
<1>1. CASE CheckRunning \/ LookForInput
  <2>1. /\ workerStep \in {"check", "look"} /\ workerStep' \in {"check", "look", "pop", "done"}
        /\ workerProcessedBlocks' = workerProcessedBlocks
    BY <1>1 DEF CheckRunning, LookForInput, workerCounters
  <2> QED BY <1>0, <2>1 DEF Taken, Holding, OneIf
<1>2. CASE PopInput
  <2>1. /\ workerStep = "pop" /\ workerStep' \in {"check", "process"}
        /\ workerProcessedBlocks' = workerProcessedBlocks
    BY <1>2 DEF PopInput, workerCounters
  <2> QED BY <1>0, <2>1 DEF Taken, Holding, OneIf
<1>3. CASE PushOutput \/ \E ms \in ChunkMs : WorkerConverts(ms)
  <2>1. /\ workerStep \in {"process", "push"} /\ workerStep' \in {"push", "count"}
        /\ workerProcessedBlocks' = workerProcessedBlocks
    BY <1>3 DEF PushOutput, WorkerConverts, Process
  <2> QED BY <1>0, <2>1 DEF Taken, Holding, OneIf
<1>4. CASE CountProcessed
  <2>1. /\ workerStep = "count" /\ workerStep' = "check"
        /\ workerProcessedBlocks' = workerProcessedBlocks + 1
    BY <1>4 DEF CountProcessed
  <2>2. Taken = workerProcessedBlocks + 1 /\ Taken' = workerProcessedBlocks + 1 + 0
    BY <2>1 DEF Taken, Holding, OneIf
  <2> QED BY <1>0, <2>2
<1> QED BY <1>1, <1>2, <1>3, <1>4 DEF Worker, WorkerMoves, WorkerPushes

\* The number of the block the worker holds, from what is counted around it.
LEMMA NumberIsOf ==
  ASSUME NEW q \in Nat, NEW limit \in Nat, NEW a \in Nat, NEW next \in Nat, NEW sub \in Nat,
         NEW dropped \in Nat, NEW len \in Nat, NEW done \in Nat,
         q + len < limit, limit + a = next, next = sub + 1, sub = a + dropped + len + 1 + done
  PROVE  q <= dropped + done + 1
OBVIOUS

\* With more known to be dropped the number fits the better.
LEMMA MoreDropped ==
  ASSUME NEW q \in Nat, NEW k \in Nat, NEW f \in Nat, NEW g \in Nat, NEW d \in Nat,
         q <= k + f + d, f <= g
  PROVE  q <= k + g + d
OBVIOUS

\* The push of a block publishes that all blocks before it are processed, and those of
\* them that were dropped.
LEMMA PushKeepsView ==
  ASSUME PublishedInv, ViewInv, LoopInv, ViewFacts, TypeOK', WorkerPushes, ~Out!Full
  PROVE  PublishedInv' /\ ViewInv'
<1> DEFINE n == Len(outputQueue) + 1
           p == [processed |-> workerProcessedBlocks, droppedOutput |-> droppedOutputBlocks,
                 taken |-> workerProcessedBlocks + 1]
<1>1. /\ workerStep = "push" /\ workerStep' = "count"
      /\ outputQueue' = Append(outputQueue, output)
      /\ published' = Append(published, p)
      /\ UNCHANGED <<outputScratch, consumedOutputBlocks, view, workerProcessedBlocks,
                     droppedOutputBlocks, droppedInputBlocks>>
  BY DEF WorkerPushes, PushOutput, Out!TryPush, audioVars, audioCounters
<1>2. /\ Taken \in Nat /\ workerProcessedBlocks \in Nat /\ droppedOutputBlocks \in Nat
      /\ droppedInputBlocks \in Nat /\ consumedOutputBlocks \in Nat /\ submittedBlocks \in Nat
      /\ Len(outputQueue) \in Nat /\ Len(inputQueue) \in Nat
      /\ input.sequence \in Nat /\ output.sequence \in Nat /\ nextSequence \in Nat
      /\ TypeOK
  BY ViewTypes, LineTypes DEF ViewFacts, BenchAccounts
<1>3. Taken = workerProcessedBlocks + 1 /\ Taken' = Taken
  <2>1. Taken = workerProcessedBlocks + 1 /\ Taken' = workerProcessedBlocks + 1
    BY <1>1 DEF Taken, Holding, OneIf
  <2> QED BY <2>1
<1>4. workerProcessedBlocks = droppedOutputBlocks + Len(outputQueue) + consumedOutputBlocks
  <2>1. OneIf(workerStep = "count") = 0
    BY <1>1 DEF OneIf
  <2> QED BY <1>2, <2>1, AllSubmitted DEF ViewFacts
<1>5. output.sequence <= consumedOutputBlocks + n + droppedOutputBlocks + droppedInputBlocks
  <2>1. output.sequence = input.sequence
    BY <1>1 DEF ViewFacts, OutputIsFresh
  <2>2. input.sequence + Len(inputQueue) < Limit
    BY <1>1 DEF ViewFacts, AgeInv, BehindInv, Held, Holding, OneIf
  <2>3. PICK a \in {0, 1} : a = OneIf(audioStep = "push")
    BY DEF OneIf
  <2>4. Limit + a = nextSequence
    BY <1>2, <2>3 DEF Limit, OneIf, ViewFacts, AgeInv, NumberInv
  <2>5. nextSequence = submittedBlocks + 1
    BY <1>2 DEF ViewFacts, BenchAccounts, CallsAreAnswered, LoopInv
  <2>6. submittedBlocks = a + droppedInputBlocks + Len(inputQueue) + 1 + workerProcessedBlocks
    <3>1. OneIf(Holding \/ workerStep = "count") = 1
      BY <1>1 DEF OneIf, Holding
    <3>2. submittedBlocks + unsupportedInputBlocks =
            a + droppedInputBlocks + clearedInput + Len(inputQueue) + 1 + workerProcessedBlocks
          /\ unsupportedInputBlocks = 0 /\ clearedInput = 0
      BY <2>3, <3>1 DEF ViewFacts, BenchAccounts, BlocksConserved, LoopInv
    <3> QED BY <1>2, <2>3, <3>2
  <2>7. Limit \in Nat
    BY <1>2, LineTypes
  <2> HIDE DEF Limit
  <2>8. a \in Nat
    OBVIOUS
  <2>9. input.sequence <= droppedInputBlocks + workerProcessedBlocks + 1
    BY <1>2, <2>2, <2>4, <2>5, <2>6, <2>7, <2>8, NumberIsOf
  <2> QED BY <1>2, <1>4, <2>1, <2>9
<1>6. /\ Len(outputQueue') = n /\ outputQueue'[n] = output
      /\ \A i \in 1 .. Len(outputQueue) : outputQueue'[i] = outputQueue[i]
  BY <1>1, <1>2, PushedQueue
<1>7. p \in Publications
  BY <1>2 DEF Publications
<1>8. /\ published' \in Seq(Publications) /\ Len(published') = n /\ published'[n] = p
      /\ \A i \in 1 .. Len(outputQueue) : published'[i] = published[i]
  <2> HIDE DEF p
  <2> QED BY <1>1, <1>7, AppendProperties DEF PublishedInv
<1>9. ASSUME NEW i \in 1 .. n
      PROVE Fits(published'[i], outputQueue'[i].sequence, consumedOutputBlocks + i, Taken,
                 workerProcessedBlocks, droppedOutputBlocks, droppedInputBlocks)
  <2>1. CASE i = n
    <3>1. Fits(p, output.sequence, consumedOutputBlocks + n, Taken, workerProcessedBlocks,
               droppedOutputBlocks, droppedInputBlocks)
      BY <1>2, <1>3, <1>4, <1>5 DEF Fits
    <3> QED BY <1>6, <1>8, <2>1, <3>1
  <2>2. CASE i # n
    <3>1. i \in 1 .. Len(outputQueue)
      BY <1>2, <2>2
    <3> QED BY <1>6, <1>8, <3>1 DEF PublishedInv
  <2> QED BY <2>1, <2>2
<1>10. ASSUME NEW i \in 1 .. n, NEW j \in 1 .. n, i <= j
       PROVE published'[i].droppedOutput <= published'[j].droppedOutput
  <2>1. CASE j = n
    <3>1. published'[j].droppedOutput = droppedOutputBlocks
      BY <1>8, <2>1
    <3> QED BY <1>9, <3>1 DEF Fits
  <2>2. CASE j # n
    <3>1. i \in 1 .. Len(outputQueue) /\ j \in 1 .. Len(outputQueue)
      BY <1>2, <1>10, <2>2
    <3> QED BY <1>8, <1>10, <3>1 DEF PublishedInv
  <2> QED BY <2>1, <2>2
<1> HIDE DEF n, p
<1>11. PublishedInv'
  BY <1>1, <1>3, <1>6, <1>8, <1>9, <1>10 DEF PublishedInv
<1>12. ViewInv'
  BY <1>1, <1>3 DEF ViewInv
<1> QED BY <1>11, <1>12

\* A block that comes back brings with it what was published with the last push seen.
LEMMA PopKeepsView ==
  ASSUME PublishedInv, ViewInv, TypeOK, NEW ms \in Durations, CallbackEnds(ms)
  PROVE  PublishedInv' /\ ViewInv'
<1> DEFINE len == Len(outputQueue)
           con == consumedOutputBlocks
<1>1. UNCHANGED <<Taken, workerProcessedBlocks, droppedOutputBlocks, droppedInputBlocks>>
  BY DEF CallbackEnds, ConsumeOutput, workerVars, workerCounters, Taken, Holding, OneIf
<1>2. /\ con \in Nat /\ len \in Nat /\ outUnseenPushes \in Nat
      /\ droppedOutputBlocks \in Nat /\ droppedInputBlocks \in Nat /\ Taken \in Nat
      /\ workerProcessedBlocks \in Nat
      /\ \A i \in 1 .. len : outputQueue[i].sequence \in Nat
  BY ViewTypes DEF TypeOK, CounterTypeOK
<1>3. CASE Out!Empty
  <2>1. UNCHANGED <<outputQueue, outputScratch, con, published, view>>
    BY <1>3 DEF CallbackEnds, ConsumeOutput, Out!TryPop, Acquired
  <2> QED BY <1>1, <2>1 DEF PublishedInv, ViewInv
<1>4. CASE ~Out!Empty
  <2> DEFINE n == len - outUnseenPushes
  <2>1. n \in 1 .. len
    BY <1>2, <1>4 DEF Out!Empty
  <2>2. /\ outputScratch' = Head(outputQueue) /\ outputQueue' = Tail(outputQueue)
        /\ con' = con + 1 /\ published' = Tail(published) /\ view' = published[n]
    BY <1>4 DEF CallbackEnds, ConsumeOutput, Out!TryPop, Acquired
  <2>3. outputQueue # <<>> /\ con' = con + 1
    BY <2>1, <2>2
  <2>4. /\ Len(outputQueue') = len - 1 /\ outputScratch' = outputQueue[1]
        /\ \A i \in 1 .. len - 1 : outputQueue'[i] = outputQueue[i + 1]
    BY <2>2, <2>3, ConsumedQueue
  <2>5. /\ published' \in Seq(Publications) /\ Len(published') = len - 1
        /\ \A i \in 1 .. len - 1 : published'[i] = published[i + 1]
    <3>1. published \in Seq(Publications) /\ published # <<>> /\ Len(published) = len
      BY <2>1 DEF PublishedInv
    <3> QED BY <2>2, <3>1, HeadTailProperties
  <2>6. \A i \in 1 .. len : published[i] \in Publications
    BY ElementOfSeq DEF PublishedInv
  <2> HIDE DEF n
  <2>7. ASSUME NEW i \in 1 .. len - 1
        PROVE Fits(published'[i], outputQueue'[i].sequence, con' + i, Taken,
                   workerProcessedBlocks, droppedOutputBlocks, droppedInputBlocks)
    <3>1. i + 1 \in 1 .. len /\ con' + i = con + (i + 1)
      BY <1>2, <2>3
    <3>2. Fits(published[i + 1], outputQueue[i + 1].sequence, con + (i + 1), Taken,
               workerProcessedBlocks, droppedOutputBlocks, droppedInputBlocks)
      BY <3>1 DEF PublishedInv
    <3> QED BY <2>4, <2>5, <3>1, <3>2
  <2>8. ASSUME NEW i \in 1 .. len - 1, NEW j \in 1 .. len - 1, i <= j
        PROVE published'[i].droppedOutput <= published'[j].droppedOutput
    <3>1. i + 1 \in 1 .. len /\ j + 1 \in 1 .. len /\ i + 1 <= j + 1
      BY <1>2, <2>8
    <3>2. published[i + 1].droppedOutput <= published[j + 1].droppedOutput
      BY <3>1 DEF PublishedInv
    <3> QED BY <2>5, <3>2
  <2>9. PublishedInv'
    BY <1>1, <2>4, <2>5, <2>7, <2>8 DEF PublishedInv
  <2>10. Sees(published[n], outputQueue[1].sequence, con + 1, Taken, workerProcessedBlocks,
              droppedOutputBlocks, droppedInputBlocks)
    <3>1. 1 \in 1 .. len /\ 1 <= n /\ n \in Nat
      BY <1>2, <2>1
    <3>2. /\ Fits(published[n], outputQueue[n].sequence, con + n, Taken,
                  workerProcessedBlocks, droppedOutputBlocks, droppedInputBlocks)
          /\ Fits(published[1], outputQueue[1].sequence, con + 1, Taken,
                  workerProcessedBlocks, droppedOutputBlocks, droppedInputBlocks)
          /\ published[1].droppedOutput <= published[n].droppedOutput
      BY <2>1, <3>1 DEF PublishedInv
    <3>3. PICK p \in Publications : p = published[n]
      BY <2>1, <2>6
    <3>4. PICK f \in Publications : f = published[1]
      BY <2>6, <3>1
    <3>5. PICK q \in Nat : q = outputQueue[1].sequence
      BY <1>2, <3>1
    <3>6. /\ p.processed \in Nat /\ p.droppedOutput \in Nat /\ p.taken \in Nat
          /\ f.droppedOutput \in Nat
      BY <3>3, <3>4 DEF Publications
    <3>7. /\ con + n <= p.taken /\ p.taken = p.processed + 1
          /\ p.taken <= Taken /\ p.processed <= workerProcessedBlocks
          /\ p.droppedOutput <= droppedOutputBlocks
          /\ q <= con + 1 + f.droppedOutput + droppedInputBlocks
          /\ f.droppedOutput <= p.droppedOutput
      BY <3>2, <3>3, <3>4, <3>5 DEF Fits
    <3>8. Sees(p, q, con + 1, Taken, workerProcessedBlocks, droppedOutputBlocks,
               droppedInputBlocks)
      <4>1. con + 1 <= p.taken
        BY ONLY <1>2, <3>1, <3>6, <3>7
      <4>2. q <= con + 1 + p.droppedOutput + droppedInputBlocks
        <5>1. con + 1 \in Nat /\ q \in Nat /\ droppedInputBlocks \in Nat
          BY <1>2
        <5> QED BY ONLY <5>1, <3>6, <3>7, MoreDropped
      <4> QED BY ONLY <3>7, <4>1, <4>2 DEF Sees
    <3> QED BY <3>3, <3>5, <3>8
  <2>11. ViewInv'
    BY <1>1, <2>1, <2>2, <2>4, <2>6, <2>10 DEF ViewInv
  <2> QED BY <2>9, <2>11
<1> QED BY <1>3, <1>4

\* What the main thread loads of the worker's count is no less than it must see, and no
\* more than there is.
LEMMA WaitKeepsView ==
  ASSUME PublishedInv, ViewInv, TypeOK, WaitForWorker
  PROVE  PublishedInv' /\ ViewInv'
<1>1. PICK n \in ProcessedSeen : view' = [view EXCEPT !.processed = n]
  BY DEF WaitForWorker
<1>2. /\ UNCHANGED <<outputQueue, outputScratch, consumedOutputBlocks, published, Taken,
                     workerProcessedBlocks, droppedOutputBlocks, droppedInputBlocks>>
  BY DEF WaitForWorker, vars, outVars, outputQueueVars, audioVars, audioCounters, workerVars,
         workerCounters, Taken, Holding
<1>3. /\ view.processed \in Nat /\ workerProcessedBlocks \in Nat /\ consumedOutputBlocks \in Nat
      /\ view.droppedOutput \in Nat /\ view.taken \in Nat
  BY ViewTypes DEF ViewInv, Publications
<1>4. n \in Nat /\ view.processed <= n /\ n <= workerProcessedBlocks
  BY <1>3 DEF ProcessedSeen
<1>5. /\ view' \in Publications /\ view'.processed = n
      /\ view'.droppedOutput = view.droppedOutput /\ view'.taken = view.taken
  BY <1>1, <1>4 DEF ViewInv, Publications
<1>6. consumedOutputBlocks <= n + 1
  <2>1. consumedOutputBlocks <= view.processed + 1
    BY DEF ViewInv, Sees
  <2> QED BY <1>3, <1>4, <2>1
<1>7. PublishedInv'
  BY <1>2 DEF PublishedInv
<1>8. ViewInv'
  BY <1>2, <1>4, <1>5, <1>6 DEF ViewInv, Sees
<1> QED BY <1>7, <1>8

\* Every step keeps what was published and what main must see.
LEMMA ViewStep ==
  ASSUME PublishedInv, ViewInv, LoopInv, ViewFacts, TypeOK', [BenchNext]_benchVars
  PROVE  PublishedInv' /\ ViewInv'
<1> DEFINE kept == <<outputQueue, outputScratch, consumedOutputBlocks, published, view>>
<1>0. /\ TypeOK
      /\ Taken \in Nat /\ workerProcessedBlocks \in Nat /\ droppedOutputBlocks \in Nat
      /\ droppedInputBlocks \in Nat
  BY ViewTypes DEF ViewFacts, BenchAccounts
<1>1. CASE WaitForWorker
  BY <1>0, <1>1, WaitKeepsView
<1>2. CASE WorkerPushes /\ ~Out!Full
  BY <1>2, PushKeepsView
<1>3. ASSUME NEW ms \in Durations, CallbackEnds(ms) PROVE PublishedInv' /\ ViewInv'
  BY <1>0, <1>3, PopKeepsView
<1>4. CASE UNCHANGED kept /\ UNCHANGED <<Taken, workerCounters, droppedInputBlocks>>
  BY <1>0, <1>4, CountingKeepsView DEF workerCounters
<1>5. CASE MainAlone /\ ~WaitForWorker
  <2>1. UNCHANGED <<audioVars, workerVars, inVars, outVars>>
    BY <1>5, MainAloneKeeps
  <2>2. UNCHANGED <<published, view>>
    BY <1>5 DEF MainAlone, LoadDummy, WarmUpDummy, AttachDummy, LoopEnds, WaitFails, LoadStats, Load,
                RecordObserved, RecordBackend, memoryVars
  <2> QED BY <1>4, <2>1, <2>2 DEF outVars, outputQueueVars, audioVars, audioCounters, workerVars,
                                  workerCounters, Taken, Holding
<1>6. CASE StartPipeline \/ StopPipeline
  <2>1. UNCHANGED <<audioVars, workerCounters, outVars>> /\ UNCHANGED <<published, view>>
    BY <1>6, StartStopKeeps DEF StartPipeline, StopPipeline, memoryVars
  <2>2. Taken' = Taken
    <3>1. \/ workerStep' = workerStep
          \/ workerStep' = "check" /\ workerStep = "none"
          \/ workerStep' = "none" /\ workerStep = "done"
      <4>1. CASE Spawn
        BY <4>1 DEF Spawn, ViewFacts, ControlKnowsWorker, Joinable
      <4>2. CASE ~Spawn
        BY <1>6, <4>2 DEF StartPipeline, StopPipeline, Start, Stop, Join, workerVars
      <4> QED BY <4>1, <4>2
    <3>2. workerProcessedBlocks' = workerProcessedBlocks
      BY <2>1 DEF workerCounters
    <3> QED BY <3>1, <3>2 DEF Taken, Holding, OneIf
  <2> QED BY <1>4, <2>1, <2>2 DEF outVars, outputQueueVars, audioVars, audioCounters,
                                  workerCounters
<1>7. CASE Callback
  <2>1. UNCHANGED kept
    BY <1>7 DEF Callback, SubmitSupported, PushInput, memoryVars, outVars, outputQueueVars
  <2>2. UNCHANGED <<Taken, workerProcessedBlocks, droppedOutputBlocks>>
    BY <1>7 DEF Callback, SubmitSupported, PushInput, workerVars, workerCounters, Taken, Holding
  <2>3. droppedInputBlocks <= droppedInputBlocks'
    <3>1. droppedInputBlocks' \in {droppedInputBlocks, droppedInputBlocks + 1}
      BY <1>7 DEF Callback, SubmitSupported, PushInput
    <3> QED BY <1>0, <3>1
  <2> QED BY <1>0, <2>1, <2>2, <2>3, CountingKeepsView
<1>8. CASE Worker /\ ~(WorkerPushes /\ ~Out!Full)
  <2>1. UNCHANGED kept
    <3>1. CASE WorkerMoves
      BY <3>1 DEF WorkerMoves, CheckRunning, LookForInput, PopInput, CountProcessed, audioVars,
                  audioCounters, outVars, outputQueueVars, memoryVars
    <3>2. CASE WorkerPushes /\ Out!Full
      BY <3>2 DEF WorkerPushes, PushOutput, Out!TryPush, audioVars, audioCounters
    <3>3. CASE \E ms \in ChunkMs : WorkerConverts(ms)
      BY <3>3 DEF WorkerConverts, Process, audioVars, audioCounters, outVars, outputQueueVars,
                  memoryVars
    <3> QED BY <1>8, <3>1, <3>2, <3>3 DEF Worker
  <2>2. /\ workerProcessedBlocks <= workerProcessedBlocks'
        /\ droppedOutputBlocks <= droppedOutputBlocks'
        /\ droppedInputBlocks <= droppedInputBlocks'
    BY <1>0, <1>8, WorkerEffect DEF audioVars, audioCounters
  <2>3. Taken <= Taken'
    BY <1>0, <1>8, TakenGrows
  <2> QED BY <1>0, <2>1, <2>2, <2>3, CountingKeepsView
<1>9. CASE Memory \/ UNCHANGED benchVars
  <2>1. UNCHANGED <<outputQueue, outputScratch, audioVars, workerVars, memoryVars>>
    BY <1>9, MemoryKeeps DEF benchVars, vars, outVars, outputQueueVars
  <2> QED BY <1>4, <2>1 DEF memoryVars, audioVars, audioCounters, workerVars, workerCounters, Taken,
                            Holding
<1> QED BY <1>1, <1>2, <1>3, <1>5, <1>6, <1>7, <1>8, <1>9, Kinds

\* What main must see, and what each push still in the queue will make it see, is bounded by
\* what the worker did, and counts all that was before.
THEOREM ViewInvariance == BenchSpec => [](PublishedInv /\ ViewInv)
<1>1. BenchInit => PublishedInv /\ ViewInv
  <2> SUFFICES ASSUME BenchInit PROVE PublishedInv /\ ViewInv
    OBVIOUS
  <2>1. /\ published = <<>> /\ outputQueue = <<>> /\ consumedOutputBlocks = 0
        /\ view = [processed |-> 0, droppedOutput |-> 0, taken |-> 0]
        /\ outputScratch = EmptyBlock /\ workerStep = "none" /\ workerProcessedBlocks = 0
        /\ droppedOutputBlocks = 0 /\ droppedInputBlocks = 0
    BY DEF BenchInit, Init, Out!Init
  <2>2. Taken = 0
    BY <2>1 DEF Taken, Holding, OneIf
  <2>3. PublishedInv
    BY <2>1 DEF PublishedInv
  <2>4. ViewInv
    BY <2>1, <2>2 DEF ViewInv, Sees, Publications, EmptyBlock
  <2> QED BY <2>3, <2>4
<1>2. /\ PublishedInv /\ ViewInv /\ LoopInv /\ ViewFacts /\ TypeOK'
      /\ [BenchNext]_benchVars
      => PublishedInv' /\ ViewInv'
  BY ViewStep
<1>3. ViewFacts => TypeOK
  BY DEF ViewFacts, BenchAccounts
<1> QED BY <1>1, <1>2, <1>3, LoopInvariance, FactsOfBench, PTL DEF BenchSpec

\* What the accounts say once every callback has returned.
LEMMA AcceptedIs ==
  ASSUME LoopInv, ViewFacts, mainStep \in AfterLoop
  PROVE  /\ submittedBlocks = MaxCalls
         /\ submittedBlocks - droppedInputBlocks = Len(inputQueue) + Taken
         /\ consumedOutputBlocks + droppedOutputBlocks + Len(outputQueue) <= Taken
<1>1. PICK h \in {0, 1} : h = OneIf(Holding \/ workerStep = "count")
  BY DEF OneIf
<1>2. PICK k \in {0, 1} : k = OneIf(workerStep = "count")
  BY DEF OneIf
<1>3. k <= h
  BY <1>1, <1>2 DEF OneIf
<1>4. /\ submittedBlocks \in Nat /\ droppedInputBlocks \in Nat /\ workerProcessedBlocks \in Nat
      /\ consumedOutputBlocks \in Nat /\ droppedOutputBlocks \in Nat
      /\ Len(inputQueue) \in Nat /\ Len(outputQueue) \in Nat
      /\ submittedBlocks = MaxCalls
      /\ submittedBlocks = droppedInputBlocks + Len(inputQueue) + h + workerProcessedBlocks
      /\ workerProcessedBlocks + k = droppedOutputBlocks + Len(outputQueue) + consumedOutputBlocks
  BY <1>1, <1>2, AllSubmitted DEF ViewFacts
<1>5. Taken = workerProcessedBlocks + h
  BY <1>1 DEF Taken
<1>6. submittedBlocks - droppedInputBlocks = Len(inputQueue) + (workerProcessedBlocks + h)
  BY <1>4
<1>7. consumedOutputBlocks + droppedOutputBlocks + Len(outputQueue) <= workerProcessedBlocks + h
  BY <1>3, <1>4
<1> QED BY <1>4, <1>5, <1>6, <1>7

\* Each load of stats() fits what main must see and what there is.
LEMMA SnapshotLoad ==
  ASSUME SnapshotInv, ViewInv, LoopInv, ViewFacts, LoadStats PROVE SnapshotInv'
<1> DEFINE wp == workerProcessedBlocks
           dOut == droppedOutputBlocks
           con == consumedOutputBlocks
           accepted == submittedBlocks - droppedInputBlocks
           s == workerStats
           fields == {"processed", "droppedOutput", "inputSize", "outputSize"}
<1>1. UNCHANGED <<wp, dOut, con, accepted, inputQueue, waited, view>>
  BY DEF LoadStats, Load, vars, workerVars, workerCounters, audioVars, audioCounters, inVars,
         inputQueueVars, memoryVars
<1>2. mainStep \in AfterLoop
  BY DEF LoadStats, Load, AfterLoop
<1>3. /\ wp \in Nat /\ dOut \in Nat /\ con \in Nat /\ Taken \in Nat
      /\ Len(inputQueue) \in Nat /\ Len(outputQueue) \in Nat
      /\ inUnseenPops \in Nat /\ outUnseenPushes \in Nat
      /\ submittedBlocks \in Nat /\ droppedInputBlocks \in Nat
  BY ViewTypes DEF ViewFacts, BenchAccounts, TypeOK, CounterTypeOK
<1>4. accepted = Len(inputQueue) + Taken /\ con + dOut + Len(outputQueue) <= Taken
  BY <1>2, AcceptedIs
<1>5. /\ view.processed \in Nat /\ view.droppedOutput \in Nat /\ view.taken \in Nat
      /\ view.processed <= wp /\ view.droppedOutput <= dOut /\ view.taken <= Taken
  BY DEF ViewInv, Publications, Sees
<1>6. /\ s \in [fields -> Nat]
      /\ s.processed \in Nat /\ s.droppedOutput \in Nat /\ s.inputSize \in Nat
      /\ waited => view.processed >= MaxCalls
  BY DEF SnapshotInv
<1>7. ASSUME NEW n \in ProcessedSeen, Load("processed", "droppedOutput", "processed", n)
      PROVE  SnapshotInv'
  <2>1. n \in Nat /\ view.processed <= n /\ n <= wp
    BY <1>3, <1>5 DEF ProcessedSeen
  <2>2. mainStep' = "droppedOutput" /\ s' = [s EXCEPT !["processed"] = n]
    BY <1>7 DEF Load
  <2>3. s' \in [fields -> Nat] /\ s'.processed = n
    BY <1>6, <2>1, <2>2
  <2> QED BY <1>1, <1>6, <2>1, <2>2, <2>3 DEF SnapshotInv
<1>8. ASSUME NEW n \in view.droppedOutput .. dOut,
             Load("droppedOutput", "inputSize", "droppedOutput", n)
      PROVE  SnapshotInv'
  <2>1. n \in Nat /\ view.droppedOutput <= n /\ n <= dOut
    BY <1>3, <1>5
  <2>2. mainStep = "droppedOutput" /\ mainStep' = "inputSize"
        /\ s' = [s EXCEPT !["droppedOutput"] = n]
    BY <1>8 DEF Load
  <2>3. /\ s' \in [fields -> Nat] /\ s'.processed = s.processed /\ s'.droppedOutput = n
    BY <1>6, <2>1, <2>2
  <2>4. view.processed <= s.processed /\ s.processed <= wp
    BY <2>2 DEF SnapshotInv
  <2> QED BY <1>1, <1>6, <2>1, <2>2, <2>3, <2>4 DEF SnapshotInv
<1>9. CASE Load("inputSize", "outputSize", "inputSize", InputSizeSeen)
  <2>1. InputSizeSeen \in Nat /\ Len(inputQueue) <= InputSizeSeen
        /\ InputSizeSeen + view.taken <= accepted
    <3>1. PICK a \in Nat : a = accepted
      BY <1>3, <1>4
    <3>2. InputSizeSeen = IF Len(inputQueue) + inUnseenPops <= a - view.taken
                          THEN Len(inputQueue) + inUnseenPops ELSE a - view.taken
      BY <3>1 DEF InputSizeSeen
    <3>3. a = Len(inputQueue) + Taken
      BY <1>4, <3>1
    <3>4. /\ Len(inputQueue) \in Nat /\ inUnseenPops \in Nat /\ Taken \in Nat
          /\ view.taken \in Nat /\ view.taken <= Taken
      BY <1>3, <1>5
    <3>5. PICK size : size = InputSizeSeen
      OBVIOUS
    <3>6. size \in Nat /\ Len(inputQueue) <= size /\ size + view.taken <= a
      <4>1. size = IF Len(inputQueue) + inUnseenPops <= a - view.taken
                   THEN Len(inputQueue) + inUnseenPops ELSE a - view.taken
        BY <3>2, <3>5
      <4> QED BY ONLY <3>3, <3>4, <4>1, a \in Nat
    <3> HIDE DEF accepted
    <3> QED BY <3>1, <3>5, <3>6
  <2>2. mainStep = "inputSize" /\ mainStep' = "outputSize"
        /\ s' = [s EXCEPT !["inputSize"] = InputSizeSeen]
    BY <1>9 DEF Load
  <2>3. /\ s' \in [fields -> Nat] /\ s'.processed = s.processed
        /\ s'.droppedOutput = s.droppedOutput /\ s'.inputSize = InputSizeSeen
    <3> HIDE DEF s
    <3> QED BY <1>6, <2>1, <2>2
  <2>4. /\ view.processed <= s.processed /\ s.processed <= wp
        /\ view.droppedOutput <= s.droppedOutput /\ s.droppedOutput <= dOut
    BY <2>2 DEF SnapshotInv
  <2> QED BY <1>1, <1>6, <2>1, <2>2, <2>3, <2>4 DEF SnapshotInv
<1>10. CASE Load("outputSize", "stop", "outputSize", OutputSizeSeen)
  <2>1. OutputSizeSeen \in Nat /\ OutputSizeSeen <= Len(outputQueue)
    BY <1>3 DEF OutputSizeSeen, Out!Empty
  <2>2. mainStep = "outputSize" /\ mainStep' = "stop"
        /\ s' = [s EXCEPT !["outputSize"] = OutputSizeSeen]
    BY <1>10 DEF Load
  <2>3. /\ s' \in [fields -> Nat] /\ s'.processed = s.processed
        /\ s'.droppedOutput = s.droppedOutput /\ s'.inputSize = s.inputSize
        /\ s'.outputSize = OutputSizeSeen
    <3> HIDE DEF s
    <3> QED BY <1>6, <2>1, <2>2
  <2>4. /\ view.processed <= s.processed /\ s.processed <= wp
        /\ view.droppedOutput <= s.droppedOutput /\ s.droppedOutput <= dOut
        /\ Len(inputQueue) <= s.inputSize /\ s.inputSize + view.taken <= accepted
    BY <2>2 DEF SnapshotInv
  <2>5. con + s.droppedOutput + OutputSizeSeen <= accepted
    <3>1. Taken <= accepted
      BY <1>3, <1>4
    <3> QED BY <1>3, <1>4, <1>6, <2>1, <2>4, <3>1
  <2> QED BY <1>1, <1>6, <2>1, <2>2, <2>3, <2>4, <2>5 DEF SnapshotInv
<1> QED BY <1>7, <1>8, <1>9, <1>10 DEF LoadStats

\* Only the worker touches the counters while main loads them, and it takes blocks from the
\* input queue, and counts up.
LEMMA WorkerTakes ==
  ASSUME TypeOK, WorkerHasInput, Worker
  PROVE  UNCHANGED view /\ Len(inputQueue') <= Len(inputQueue)
<1>1. UNCHANGED view
  BY DEF Worker, WorkerMoves, WorkerPushes, WorkerConverts, memoryVars
<1>2. CASE PopInput
  <2>1. inputQueue # <<>> /\ inputQueue' = Tail(inputQueue)
    <3>1. ~In!Empty
      BY <1>2 DEF PopInput, WorkerHasInput
    <3>2. Len(inputQueue) # 0
      BY <3>1 DEF In!Empty, TypeOK, CounterTypeOK
    <3> QED BY <1>2, <3>1, <3>2 DEF PopInput, In!TryPop
  <2>2. Len(inputQueue) \in Nat /\ Len(inputQueue') = Len(inputQueue) - 1
    BY <2>1, PoppedQueue, LineTypes
  <2> QED BY <1>1, <2>2
<1>3. CASE ~PopInput
  <2>1. inputQueue' = inputQueue
    BY <1>3 DEF Worker, WorkerMoves, WorkerPushes, WorkerConverts, CheckRunning, LookForInput,
                PushOutput, CountProcessed, Process, inVars, inputQueueVars
  <2>2. Len(inputQueue) \in Nat
    BY LineTypes
  <2> QED BY <1>1, <2>1, <2>2
<1> QED BY <1>2, <1>3

\* Between two loads the worker goes on, and what was loaded stays right.
LEMMA SnapshotStep ==
  ASSUME SnapshotInv, ViewInv, LoopInv, ViewFacts, WorkerHasInput, TypeOK', [BenchNext]_benchVars
  PROVE  SnapshotInv'
<1> DEFINE Loading == {"droppedOutput", "inputSize", "outputSize", "stop"}
           s == workerStats
           accepted == submittedBlocks - droppedInputBlocks
<1>0. TypeOK
  BY DEF ViewFacts, BenchAccounts
<1>1. CASE LoadStats
  BY <1>1, SnapshotLoad
<1>2. CASE Worker
  <2>1. /\ UNCHANGED <<mainStep, s, waited, accepted, consumedOutputBlocks, view>>
        /\ workerProcessedBlocks <= workerProcessedBlocks'
        /\ droppedOutputBlocks <= droppedOutputBlocks'
        /\ Len(inputQueue') <= Len(inputQueue)
    BY <1>0, <1>2, WorkerEffect, WorkerTakes DEF mainVars, audioVars, audioCounters
  <2>2. /\ workerProcessedBlocks \in Nat /\ workerProcessedBlocks' \in Nat
        /\ droppedOutputBlocks \in Nat /\ droppedOutputBlocks' \in Nat
        /\ Len(inputQueue) \in Nat /\ Len(inputQueue') \in Nat
    BY <1>0, LenProperties DEF TypeOK, CounterTypeOK, QueueTypeOK
  <2>3. /\ s.processed \in Nat /\ s.droppedOutput \in Nat /\ s.inputSize \in Nat
        /\ s \in [{"processed", "droppedOutput", "inputSize", "outputSize"} -> Nat]
    BY DEF SnapshotInv
  <2>4. s.processed <= workerProcessedBlocks => s.processed <= workerProcessedBlocks'
    BY <2>1, <2>2, <2>3
  <2>5. s.droppedOutput <= droppedOutputBlocks => s.droppedOutput <= droppedOutputBlocks'
    BY <2>1, <2>2, <2>3
  <2>6. Len(inputQueue) <= s.inputSize => Len(inputQueue') <= s.inputSize
    BY <2>1, <2>2, <2>3
  <2> QED BY <2>1, <2>3, <2>4, <2>5, <2>6 DEF SnapshotInv
<1>3. CASE /\ UNCHANGED <<s, waited, view, workerCounters, submittedBlocks, droppedInputBlocks,
                          consumedOutputBlocks, inputQueue>>
           /\ mainStep' \in Loading => mainStep' = mainStep
  BY <1>3 DEF SnapshotInv, workerCounters
<1>4. CASE Callback \/ \E ms \in Durations : CallbackEnds(ms)
  <2>1. mainStep = "submit" /\ UNCHANGED <<s, mainStep, waited>>
    BY <1>4, CallbackKeeps
  <2>2. ~waited
    BY <2>1 DEF LoopInv, AfterWait, AfterLoop
  <2> QED BY <2>1, <2>2 DEF SnapshotInv
<1>5. CASE StartPipeline \/ StopPipeline
  <2>1. UNCHANGED <<s, waited, workerCounters, submittedBlocks, droppedInputBlocks,
                    consumedOutputBlocks, inputQueue>>
    BY <1>5, StartStopKeeps DEF audioVars, audioCounters, inputQueueVars
  <2>2. (mainStep' \in Loading => mainStep' = mainStep) /\ UNCHANGED view
    BY <1>5 DEF StartPipeline, StopPipeline, memoryVars
  <2> QED BY <1>3, <2>1, <2>2
<1>6. CASE WaitForWorker
  <2>1. PICK n \in ProcessedSeen :
          /\ view' = [view EXCEPT !.processed = n]
          /\ \/ n >= MaxCalls /\ mainStep' = "processed" /\ waited' = TRUE
             \/ UNCHANGED <<mainStep, waited>>
    BY <1>6 DEF WaitForWorker
  <2>2. mainStep = "wait" /\ UNCHANGED s /\ mainStep' \notin Loading
    BY <1>6 DEF WaitForWorker
  <2>3. ~waited
    BY <2>2 DEF LoopInv, AfterWait
  <2>4. view'.processed = n
    BY <2>1 DEF ViewInv, Publications
  <2> QED BY <2>1, <2>2, <2>3, <2>4 DEF SnapshotInv
<1>7. CASE MainAlone /\ ~LoadStats /\ ~WaitForWorker
  <2>1. UNCHANGED <<s, waited, view>> /\ mainStep' \notin Loading
    BY <1>7 DEF MainAlone, LoadDummy, WarmUpDummy, AttachDummy, LoopEnds, WaitFails, RecordObserved,
                RecordBackend, memoryVars
  <2> QED BY <2>1 DEF SnapshotInv
<1>8. CASE Memory \/ UNCHANGED benchVars
  <2>1. UNCHANGED <<mainVars, memoryVars, workerVars, audioVars, inputQueue>>
    BY <1>8, MemoryKeeps DEF benchVars, vars, inVars, inputQueueVars
  <2> QED BY <1>3, <2>1 DEF mainVars, memoryVars, workerVars, audioVars, audioCounters
<1> QED BY <1>1, <1>2, <1>4, <1>5, <1>6, <1>7, <1>8, Kinds

\* At every load of stats(), what was read so far lies between what main must see and what
\* there is.
THEOREM SnapshotInvariance == BenchSpec => []SnapshotInv
<1>1. BenchInit => SnapshotInv
  <2> SUFFICES ASSUME BenchInit PROVE SnapshotInv
    OBVIOUS
  <2>1. mainStep = "load" /\ workerStats = NoSnapshot /\ ~waited
    BY DEF BenchInit
  <2>2. NoSnapshot \in [{"processed", "droppedOutput", "inputSize", "outputSize"} -> Nat]
    BY DEF NoSnapshot
  <2> QED BY <2>1, <2>2 DEF SnapshotInv
<1>2. /\ SnapshotInv /\ ViewInv /\ LoopInv /\ ViewFacts /\ WorkerHasInput /\ TypeOK'
      /\ [BenchNext]_benchVars
      => SnapshotInv'
  BY SnapshotStep
<1>3. ViewFacts => TypeOK
  BY DEF ViewFacts, BenchAccounts
<1> QED BY <1>1, <1>2, <1>3, ViewInvariance, LoopInvariance, FactsOfBench, PipelineOfBench,
           WorkerPops, PTL DEF BenchSpec

\* The snapshot the benchmark reports is of no one moment, and may be old; what was done
\* before the last block came back is in it all the same, because the queue's index is stored
\* with release and loaded with acquire order.
THEOREM SnapshotCausal == BenchSpec => []SnapshotIsCausal
<1>1. SnapshotInv /\ ViewInv /\ LoopInv /\ ViewFacts => SnapshotIsCausal
  <2> SUFFICES ASSUME SnapshotInv, ViewInv, LoopInv, ViewFacts, mainStep = "stop"
               PROVE  SnapshotIsCausal
    BY DEF SnapshotIsCausal
  <2> DEFINE s == workerStats
             con == consumedOutputBlocks
             accepted == submittedBlocks - droppedInputBlocks
             last == outputScratch.sequence
  <2>1. /\ view.processed <= s.processed /\ s.processed <= workerProcessedBlocks
        /\ view.droppedOutput <= s.droppedOutput
        /\ Len(inputQueue) <= s.inputSize /\ s.inputSize + view.taken <= accepted
        /\ con + s.droppedOutput + s.outputSize <= accepted
        /\ waited => view.processed >= MaxCalls
    BY DEF SnapshotInv
  <2>2. /\ s.processed \in Nat /\ s.droppedOutput \in Nat /\ s.inputSize \in Nat
        /\ view.processed \in Nat /\ view.droppedOutput \in Nat /\ view.taken \in Nat
    BY DEF SnapshotInv, ViewInv, Publications
  <2>3. /\ con <= view.taken /\ con <= view.processed + 1
        /\ last <= con + view.droppedOutput + droppedInputBlocks
    BY DEF ViewInv, Sees
  <2>4. /\ Taken \in Nat /\ workerProcessedBlocks \in Nat /\ con \in Nat /\ last \in Nat
        /\ submittedBlocks \in Nat /\ droppedInputBlocks \in Nat /\ Len(inputQueue) \in Nat
    BY ViewTypes DEF ViewFacts, BenchAccounts
  <2>5. submittedBlocks = MaxCalls /\ accepted = Len(inputQueue) + Taken
    BY AcceptedIs DEF AfterLoop
  <2>6. workerProcessedBlocks <= Taken
    <3>1. OneIf(Holding \/ workerStep = "count") \in {0, 1}
      BY DEF OneIf
    <3> QED BY <2>4, <3>1 DEF Taken
  <2>7. s.processed <= accepted
    BY <2>1, <2>2, <2>4, <2>5, <2>6
  <2>8. con <= s.processed + 1
    <3>1. /\ con \in Nat /\ view.processed \in Nat /\ s.processed \in Nat
          /\ con <= view.processed + 1 /\ view.processed <= s.processed
      BY <2>1, <2>2, <2>3, <2>4
    <3> QED BY ONLY <3>1
  <2>9. last <= con + s.droppedOutput + droppedInputBlocks
    <3>1. /\ last \in Nat /\ con \in Nat /\ droppedInputBlocks \in Nat
          /\ view.droppedOutput \in Nat /\ s.droppedOutput \in Nat
          /\ last <= con + view.droppedOutput + droppedInputBlocks
          /\ view.droppedOutput <= s.droppedOutput
      BY <2>1, <2>2, <2>3, <2>4
    <3> QED BY ONLY <3>1
  <2>10. con + s.inputSize <= accepted
    <3>1. /\ con \in Nat /\ s.inputSize \in Nat /\ view.taken \in Nat /\ accepted \in Int
          /\ con <= view.taken /\ s.inputSize + view.taken <= accepted
      BY <2>1, <2>2, <2>3, <2>4
    <3> QED BY ONLY <3>1
  <2>11. waited => s.processed = submittedBlocks
    BY <2>1, <2>2, <2>4, <2>5, <2>7, MaxCallsAssumption
  <2> QED BY <2>1, <2>7, <2>8, <2>9, <2>10, <2>11 DEF SnapshotIsCausal
<1> QED BY <1>1, SnapshotInvariance, ViewInvariance, LoopInvariance, FactsOfBench, PTL

-----------------------------------------------------------------------------
\* What the profiler's statistics say in the end.

\* How often a callback was recorded.
ShadowRecords(st) == Len(Entry(st, "worker_shadow_callback").samples)

\* Every stage has the statistics of its samples, every answer to a callback was recorded,
\* and what the backend has to divide are numbers.
StatsInv ==
  /\ StagesInv(stages)
  /\ ShadowRecords(stages) = consumedOutputBlocks + lateOutputBlocks
  /\ totalProcessMs \in Nat /\ processedChunks \in Nat

\* A record under another name is not of the callbacks.
LEMMA OtherRecord ==
  ASSUME NEW st, StagesInv(st), NEW stage, stage # "worker_shadow_callback", NEW d \in Int
  PROVE  /\ StagesInv(Record(st, stage, d))
         /\ ShadowRecords(Record(st, stage, d)) = ShadowRecords(st)
<1> DEFINE after == Record(st, stage, d)
           shadow == "worker_shadow_callback"
<1>1. /\ StagesInv(after) /\ DOMAIN after = DOMAIN st \cup {stage}
      /\ \A other \in DOMAIN st : other # stage => after[other] = st[other]
  BY RecordKeeps
<1> HIDE DEF after
<1>2. Entry(after, shadow) = Entry(st, shadow)
  BY <1>1 DEF Entry
<1> QED BY <1>1, <1>2 DEF ShadowRecords, after

\* One under their name is one more of them.
LEMMA ShadowRecord ==
  ASSUME NEW st, StagesInv(st), NEW d \in Int
  PROVE  /\ StagesInv(Record(st, "worker_shadow_callback", d))
         /\ ShadowRecords(Record(st, "worker_shadow_callback", d)) = ShadowRecords(st) + 1
<1> DEFINE shadow == "worker_shadow_callback"
           after == Record(st, shadow, d)
<1>1. /\ StagesInv(after) /\ DOMAIN after = DOMAIN st \cup {shadow}
      /\ Len(after[shadow].samples) = Len(Entry(st, shadow).samples) + 1
  BY RecordKeeps
<1> HIDE DEF after
<1>2. Entry(after, shadow) = after[shadow]
  BY <1>1 DEF Entry
<1> QED BY <1>1, <1>2 DEF ShadowRecords, after

\* A whole average of numbers is a number.
LEMMA WholeAverage ==
  ASSUME NEW total \in Nat, NEW count \in Nat, count > 0
  PROVE  total \div count \in Int
OBVIOUS

\* Every step keeps that.
LEMMA StatsStep ==
  ASSUME StatsInv, TypeOK, [BenchNext]_benchVars PROVE StatsInv'
<1> USE DEF StatsInv
<1>0. consumedOutputBlocks \in Nat /\ lateOutputBlocks \in Nat
  BY DEF TypeOK, CounterTypeOK
<1> DEFINE answers == <<consumedOutputBlocks, lateOutputBlocks>>
           counted == <<totalProcessMs, processedChunks>>
<1>1. CASE MainAlone
  <2>1. UNCHANGED answers
    BY <1>1, MainAloneKeeps DEF audioVars, audioCounters
  <2>2. CASE AttachDummy \/ LoopEnds \/ WaitForWorker \/ WaitFails \/ LoadStats
    <3>1. UNCHANGED stages /\ UNCHANGED counted
      BY <2>2 DEF AttachDummy, LoopEnds, WaitForWorker, WaitFails, LoadStats, Load, dummyVars
    <3> QED BY <2>1, <3>1
  <2>3. CASE LoadDummy
    <3>1. UNCHANGED stages /\ UNCHANGED counted
      BY <2>3 DEF LoadDummy, LoadModel
    <3> QED BY <2>1, <3>1
  <2>4. ASSUME NEW ms \in ChunkMs, WarmUpDummy(ms) PROVE StatsInv'
    <3>1. UNCHANGED stages
      BY <2>4 DEF WarmUpDummy
    <3>2. \/ UNCHANGED counted
          \/ /\ totalProcessMs' = totalProcessMs + 2 * ms
             /\ processedChunks' = processedChunks + 2
      BY <2>4 DEF WarmUpDummy, WarmUp, RecordProcessTime
    <3>3. ms \in Nat
      BY TimesAssumption
    <3>4. totalProcessMs' \in Nat /\ processedChunks' \in Nat
      BY <3>2, <3>3
    <3> QED BY <2>1, <3>1, <3>4
  <2>5. ASSUME NEW ms \in ChunkMs, RecordObserved(ms) PROVE StatsInv'
    <3>1. UNCHANGED counted /\ stages' \in {stages, Record(stages, "worker_process_observed", ms)}
      BY <2>5 DEF RecordObserved, dummyVars
    <3>2. ms \in Int
      BY TimesAssumption
    <3>3. StagesInv(stages') /\ ShadowRecords(stages') = ShadowRecords(stages)
      BY <3>1, <3>2, OtherRecord
    <3> QED BY <2>1, <3>1, <3>3
  <2>6. CASE RecordBackend
    <3>1. UNCHANGED counted
      BY <2>6 DEF RecordBackend, dummyVars
    <3>2. \/ UNCHANGED stages
          \/ /\ processedChunks > 0
             /\ stages' = Record(stages, "dummy_backend_process",
                                 totalProcessMs \div processedChunks)
      BY <2>6 DEF RecordBackend, DummyStats
    <3>3. StagesInv(stages') /\ ShadowRecords(stages') = ShadowRecords(stages)
      <4>1. CASE UNCHANGED stages
        BY <4>1
      <4>2. CASE ~UNCHANGED stages
        <5>1. PICK d : d = totalProcessMs \div processedChunks
          OBVIOUS
        <5>2. d \in Int /\ stages' = Record(stages, "dummy_backend_process", d)
          BY <3>2, <4>2, <5>1, WholeAverage
        <5> QED BY <5>2, OtherRecord
      <4> QED BY <4>1, <4>2
    <3> QED BY <2>1, <3>1, <3>3
  <2> QED BY <1>1, <2>2, <2>3, <2>4, <2>5, <2>6 DEF MainAlone
<1>2. CASE StartPipeline \/ StopPipeline
  <2>1. UNCHANGED answers /\ UNCHANGED counted /\ UNCHANGED stages
    BY <1>2, StartStopKeeps DEF audioVars, audioCounters, dummyVars
  <2> QED BY <2>1
<1>3. CASE Callback
  <2>1. UNCHANGED stages /\ UNCHANGED counted
    BY <1>3 DEF Callback, mainVars, dummyVars
  <2>2. UNCHANGED answers
    BY <1>3 DEF Callback, SubmitSupported, PushInput
  <2> QED BY <2>1, <2>2
<1>4. ASSUME NEW ms \in Durations, CallbackEnds(ms) PROVE StatsInv'
  <2>1. UNCHANGED counted /\ stages' = Record(stages, "worker_shadow_callback", ms)
    BY <1>4 DEF CallbackEnds, dummyVars
  <2>2. \/ /\ consumedOutputBlocks' = consumedOutputBlocks
           /\ lateOutputBlocks' = lateOutputBlocks + 1
        \/ /\ consumedOutputBlocks' = consumedOutputBlocks + 1
           /\ lateOutputBlocks' = lateOutputBlocks
    BY <1>4 DEF CallbackEnds, ConsumeOutput
  <2>3. StagesInv(stages') /\ ShadowRecords(stages') = ShadowRecords(stages) + 1
    BY <2>1, ShadowRecord, TimesAssumption
  <2>4. consumedOutputBlocks' + lateOutputBlocks' = consumedOutputBlocks + lateOutputBlocks + 1
    BY <1>0, <2>2
  <2> QED BY <2>1, <2>3, <2>4
<1>5. CASE Worker
  <2>1. UNCHANGED stages /\ UNCHANGED answers
    BY <1>5, WorkerEffect DEF mainVars, audioVars, audioCounters
  <2>2. totalProcessMs' \in Nat /\ processedChunks' \in Nat
    <3>1. CASE WorkerMoves
      <4>1. UNCHANGED counted
        BY <3>1 DEF WorkerMoves, dummyVars
      <4> QED BY <4>1
    <3>2. ASSUME NEW ms \in ChunkMs, WorkerConverts(ms)
          PROVE  totalProcessMs' \in Nat /\ processedChunks' \in Nat
      <4>1. \/ UNCHANGED counted
            \/ /\ totalProcessMs' = totalProcessMs + 1 * ms
               /\ processedChunks' = processedChunks + 1
        BY <3>2 DEF WorkerConverts, ProcessChunk, RecordProcessTime
      <4>2. ms \in Nat
        BY TimesAssumption
      <4> QED BY <4>1, <4>2
    <3>3. CASE WorkerPushes
      <4>1. UNCHANGED counted
        BY <3>3 DEF WorkerPushes, dummyVars
      <4> QED BY <4>1
    <3> QED BY <1>5, <3>1, <3>2, <3>3 DEF Worker
  <2> QED BY <2>1, <2>2
<1>6. CASE Memory \/ UNCHANGED benchVars
  <2>1. UNCHANGED stages /\ UNCHANGED answers /\ UNCHANGED counted
    BY <1>6, MemoryKeeps DEF benchVars, mainVars, vars, audioVars, audioCounters, dummyVars
  <2> QED BY <2>1
<1> QED BY <1>1, <1>2, <1>3, <1>4, <1>5, <1>6, Kinds

\* What is updated one record at a time is at every moment computed of all the records.
THEOREM StatsInvariance == BenchSpec => []StatsInv
<1>1. BenchInit => StatsInv
  <2> SUFFICES ASSUME BenchInit PROVE StatsInv
    OBVIOUS
  <2>1. /\ stages = << >> /\ consumedOutputBlocks = 0 /\ lateOutputBlocks = 0
        /\ totalProcessMs = 0 /\ processedChunks = 0
    BY DEF BenchInit, Init, DummyInit, NoStages
  <2>2. DOMAIN stages = {}
    BY <2>1
  <2>3. StagesInv(stages)
    BY <2>2 DEF StagesInv
  <2>4. ShadowRecords(stages) = 0
    BY <2>2 DEF ShadowRecords, Entry, NoEntry
  <2> QED BY <2>1, <2>3, <2>4 DEF StatsInv
<1>2. StatsInv /\ BenchAccounts /\ [BenchNext]_benchVars => StatsInv'
  BY StatsStep DEF BenchAccounts
<1> QED BY <1>1, <1>2, AccountsOfBench, PTL DEF BenchSpec

\* What the report prints of a stage is true of the sequence of its records.
LEMMA EntryIsRight ==
  ASSUME NEW e, EntryInv(e)
  PROVE  OfItsSamples(e)
<1> DEFINE s == e.samples
           n == Len(s)
           taken == {s[i] : i \in 1 .. n}
           top == Top(s, n)
           second == Second(s, n)
           below == IF n = 1 THEN 0 ELSE s[top] - s[second]
           size == IF MovingWindowSize = 0 THEN 1 ELSE MovingWindowSize
           window == IF n < size THEN n ELSE size
           t == Sorted(s)
<1>1. s \in Seq(Nat) /\ s \in Seq(Int) /\ n \in Nat /\ n > 0
  BY DEF EntryInv
<1>2. /\ e.stats.average = <<SumOf(s, 1, n), n>>
      /\ e.stats.movingAverage = LastOf(s) /\ e.stats.p95 = Percentile(s, 95)
      /\ Bounds(s, n, e.stats.min, e.stats.max)
  BY DEF EntryInv
<1>3. /\ \A d \in taken : e.stats.min <= d /\ d <= e.stats.max
      /\ e.stats.min \in taken /\ e.stats.max \in taken
  BY <1>2 DEF Bounds
<1>4. window = Window(n)
  BY <1>1, MovingWindowSizeAssumption DEF Window
<1>5. e.stats.movingAverage = <<SumOf(s, n - window + 1, n), window>>
  BY <1>2, <1>4 DEF LastOf
<1>6. /\ AllNumbers(t, n)
      /\ t[n] = s[top]
      /\ n > 1 => t[n - 1] = s[second]
  <2>1. t = Sorted(s) /\ n = Len(s)
    OBVIOUS
  <2> HIDE DEF s, n, t
  <2> QED BY <1>1, <2>1, LastTwo DEF top, second
<1>7. n <= 21 => e.stats.p95 = 100 * s[top] - 5 * (n - 1) * below
  <2> SUFFICES ASSUME n <= 21 PROVE e.stats.p95 = 100 * s[top] - 5 * (n - 1) * below
    OBVIOUS
  <2>1. n \in 1 .. 21
    <3> HIDE DEF s, n
    <3> QED BY <1>1
  <2>2. Percentile(s, 95) = Interpolated(t, n)
    <3>1. t = Sorted(s) /\ n = Len(s)
      OBVIOUS
    <3> HIDE DEF s, n, t
    <3> QED BY <1>1, <1>6, <2>1, <3>1, Interpolation
  <2>3. t[n] \in Int /\ n \in 1 .. n
    BY <1>1, <1>6 DEF AllNumbers
  <2> HIDE DEF s, n, t, top, second
  <2>4. CASE n = 1
    <3>1. below = 0 /\ t[1] = s[top]
      BY <1>6, <2>4
    <3>2. 5 * (n - 1) * below = 0 /\ s[top] \in Int
      BY <2>3, <2>4, <3>1, <1>6
    <3> QED BY <1>2, <2>2, <2>4, <3>1, <3>2 DEF Interpolated
  <2>5. CASE n # 1
    <3>1. t[n - 1] = s[second] /\ t[n] = s[top]
      BY <1>1, <1>6, <2>5
    <3> QED BY <1>2, <2>2, <2>5, <3>1 DEF Interpolated
  <2> QED BY <2>4, <2>5
<1> HIDE DEF s, n, taken, top, second, window, t
<1> QED BY <1>2, <1>3, <1>5, <1>7
        DEF OfItsSamples, Top, Second, s, n, taken, top, second, below, size, window

\* The statistics of a stage, which are updated one record at a time, are those of all its
\* records, and every callback was recorded.
THEOREM StatsCorrect == BenchSpec => []StatsAreOfSamples
<1>1. StatsInv => StatsAreOfSamples
  <2> SUFFICES ASSUME StatsInv PROVE StatsAreOfSamples
    OBVIOUS
  <2>1. \A stage \in DOMAIN stages : EntryInv(stages[stage])
    BY DEF StatsInv, StagesInv
  <2>2. "worker_shadow_callback" \in DOMAIN stages =>
          Len(stages["worker_shadow_callback"].samples) = consumedOutputBlocks + lateOutputBlocks
    BY DEF StatsInv, ShadowRecords, Entry
  <2> QED BY <2>1, <2>2, EntryIsRight DEF StatsAreOfSamples
<1> QED BY <1>1, StatsInvariance, PTL

=============================================================================
