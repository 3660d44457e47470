---------------------------- MODULE RealtimeApp ----------------------------
(***************************************************************************)
(* apps/realtime_app/Main.cpp: the application over the engine and the     *)
(* pipeline.  The GUI thread builds it, opens and changes the device,      *)
(* resets the counters and takes all apart again; the device calls back in *)
(* between.  The audible path of the engine is module AudioEngine: here a  *)
(* callback is its shadow submission and the count that ends it.           *)
(*                                                                         *)
(* JUCE is external: setAudioChannels starts the callbacks, after          *)
(* prepareToPlay; shutdownAudio, like a change of device, starts no new    *)
(* one and waits for the one that runs.                                    *)
(*                                                                         *)
(* The counters of AudioWorkerPipeline are totals and never reset.  What   *)
(* the program has in an atomic is the total less what it was at the last  *)
(* reset, base, because every update of it is an addition.                 *)
(***************************************************************************)
EXTENDS AudioWorkerPipeline

CONSTANTS
  MaxXruns,     \* bound: callbacks without a buffer
  MaxDevices,   \* bound: times the device is opened
  MaxResets     \* bound: clicks on Reset

ASSUME BoundsAssumption == MaxXruns \in Nat /\ MaxDevices \in Nat /\ MaxResets \in Nat

VARIABLES
  guiStep,
  deviceOpen,      \* the device calls back
  inCallback,      \* getNextAudioBlock is being executed
  processedBlocks, xrunCount,   \* of the engine, as totals
  base,            \* the total of every counter when it was last reset
  resetNext,       \* the next counter resetCounters will zero
  clean,           \* history: no counter has moved, nor callback run, during the last reset
  backlogAtReset,  \* history
  devices, resets, quitting

guiVars == <<guiStep, base, resetNext, backlogAtReset, devices, resets, quitting>>
engineVars == <<processedBlocks, xrunCount>>
appVars == <<vars, guiVars, engineVars, deviceOpen, inCallback, clean>>

GuiSteps == {"start", "setAudioChannels", "open", "reset", "close", "stop", "gone"}

\* In the order resetCounters of the engine and of the pipeline zero them.
Counters == <<"processedBlocks", "xrunCount", "submitted", "workerProcessed", "consumed",
              "late", "droppedInput", "droppedOutput", "unsupported", "backendError",
              "nextSequence">>
Names == {Counters[i] : i \in DOMAIN Counters}
Total(c) ==
  CASE c = "processedBlocks" -> processedBlocks [] c = "xrunCount" -> xrunCount
    [] c = "submitted" -> submittedBlocks [] c = "workerProcessed" -> workerProcessedBlocks
    [] c = "consumed" -> consumedOutputBlocks [] c = "late" -> lateOutputBlocks
    [] c = "droppedInput" -> droppedInputBlocks [] c = "droppedOutput" -> droppedOutputBlocks
    [] c = "unsupported" -> unsupportedInputBlocks [] c = "backendError" -> backendErrorBlocks
    [] c = "nextSequence" -> nextSequence - 1
\* What the atomic holds.
Count(c) == Total(c) - base[c]

AppInit ==
  /\ Init
  /\ guiStep = "start" /\ deviceOpen = FALSE /\ inCallback = FALSE
  /\ processedBlocks = 0 /\ xrunCount = 0
  /\ base = [c \in Names |-> 0] /\ resetNext = 1
  /\ clean = TRUE /\ backlogAtReset = 0
  /\ devices = 0 /\ resets = 0 /\ quitting = FALSE

-----------------------------------------------------------------------------
\* The device callback: getNextAudioBlock.

\* Another thread's step keeps a reset clean if it moves no counter.
KeepsClean ==
  clean' = (clean /\ (guiStep = "reset" =>
                      UNCHANGED <<engineVars, audioCounters, workerCounters>>))

NullBuffer ==
  /\ deviceOpen /\ ~inCallback
  /\ xrunCount < MaxXruns
  /\ xrunCount' = xrunCount + 1
  /\ UNCHANGED <<vars, guiVars, processedBlocks, deviceOpen, inCallback>>
  /\ KeepsClean

GetNextAudioBlock ==
  /\ deviceOpen /\ ~inCallback
  /\ SubmitSupported \/ SubmitUnsupported
  /\ inCallback' = TRUE
  /\ UNCHANGED <<guiVars, engineVars, deviceOpen>>
  /\ KeepsClean

Shadow ==
  /\ inCallback
  /\ PushInput \/ ConsumeOutput(TRUE)
  /\ UNCHANGED <<guiVars, engineVars, deviceOpen, inCallback>>
  /\ KeepsClean

\* processPassThrough, and the end of the callback.
PassThrough ==
  /\ inCallback /\ audioStep = "idle"
  /\ processedBlocks' = processedBlocks + 1
  /\ inCallback' = FALSE
  /\ UNCHANGED <<vars, guiVars, xrunCount, deviceOpen>>
  /\ KeepsClean

\* The worker.  No backend is attached.
Work ==
  /\ \/ CheckRunning \/ LookForInput \/ PopInput \/ Process(FALSE)
     \/ PushOutput \/ CountProcessed
  /\ UNCHANGED <<guiVars, engineVars, deviceOpen, inCallback>>
  /\ KeepsClean

-----------------------------------------------------------------------------
\* The GUI thread.

\* Construction: the worker first.
StartWorker ==
  /\ guiStep = "start"
  /\ \/ Start /\ UNCHANGED guiStep
     \/ Spawn /\ guiStep' = "setAudioChannels"
  /\ UNCHANGED <<engineVars, deviceOpen, inCallback, clean, base, resetNext, backlogAtReset,
                 devices, resets, quitting>>

\* setAudioChannels, or the selector opening another device; prepareToPlay.
OpenDevice ==
  /\ guiStep = "setAudioChannels"
  /\ devices < MaxDevices
  /\ deviceOpen' = TRUE
  /\ devices' = devices + 1
  /\ guiStep' = "open"
  /\ UNCHANGED <<vars, engineVars, inCallback, clean, base, resetNext, backlogAtReset, resets,
                 quitting>>

ClickReset ==
  /\ guiStep = "open"
  /\ resets < MaxResets
  /\ resets' = resets + 1
  /\ guiStep' = "reset"
  /\ resetNext' = 1
  /\ clean' = ~inCallback
  /\ backlogAtReset' = Backlog
  /\ UNCHANGED <<vars, engineVars, deviceOpen, inCallback, base, devices, quitting>>

\* Mutant: the blocks the worker could not hand on are left out.
ResetAllButDropped ==
  /\ guiStep = "reset"
  /\ base' = IF Counters[resetNext] = "droppedOutput" THEN base
             ELSE [base EXCEPT ![Counters[resetNext]] = Total(Counters[resetNext])]
  /\ resetNext' = resetNext + 1
  /\ guiStep' = IF resetNext = Len(Counters) THEN "open" ELSE "reset"
  /\ UNCHANGED <<vars, engineVars, deviceOpen, inCallback, clean, backlogAtReset, devices,
                 resets, quitting>>

ResetNext ==
  /\ guiStep = "reset"
  /\ base' = [base EXCEPT ![Counters[resetNext]] = Total(Counters[resetNext])]
  /\ resetNext' = resetNext + 1
  /\ guiStep' = IF resetNext = Len(Counters) THEN "open" ELSE "reset"
  /\ UNCHANGED <<vars, engineVars, deviceOpen, inCallback, clean, backlogAtReset, devices,
                 resets, quitting>>

\* The selector closes the device, or the window is closed: stopTimer, shutdownAudio.
CloseDevice ==
  /\ guiStep = "open"
  /\ deviceOpen' = FALSE
  /\ quitting' \in BOOLEAN
  /\ quitting' \/ devices < MaxDevices
  /\ guiStep' = "close"
  /\ UNCHANGED <<vars, engineVars, inCallback, clean, base, resetNext, backlogAtReset, devices,
                 resets>>

\* Mutant: the callback is not waited for.
DeviceClosedAtOnce ==
  /\ guiStep = "close"
  /\ guiStep' = IF quitting THEN "stop" ELSE "setAudioChannels"
  /\ UNCHANGED <<vars, engineVars, deviceOpen, inCallback, clean, base, resetNext,
                 backlogAtReset, devices, resets, quitting>>

DeviceClosed ==
  /\ guiStep = "close"
  /\ ~inCallback
  /\ guiStep' = IF quitting THEN "stop" ELSE "setAudioChannels"
  /\ UNCHANGED <<vars, engineVars, deviceOpen, inCallback, clean, base, resetNext,
                 backlogAtReset, devices, resets, quitting>>

\* workerPipeline_.stop(), and the members are destroyed.
StopWorker ==
  /\ guiStep = "stop"
  /\ \/ Stop /\ UNCHANGED guiStep
     \/ Join /\ guiStep' = "gone"
  /\ UNCHANGED <<engineVars, deviceOpen, inCallback, clean, base, resetNext, backlogAtReset,
                 devices, resets, quitting>>

InsideCallback == Shadow \/ PassThrough
\* What the GUI thread does without being asked.
GuiGoesOn == StartWorker \/ OpenDevice \/ ResetNext \/ DeviceClosed \/ StopWorker

AppNext ==
  \/ NullBuffer \/ GetNextAudioBlock \/ InsideCallback
  \/ Work
  \/ GuiGoesOn \/ ClickReset \/ CloseDevice

\* Nobody has to click, and no device has to call back.
AppSpec ==
  /\ AppInit /\ [][AppNext]_appVars
  /\ WF_appVars(InsideCallback) /\ WF_appVars(Work) /\ WF_appVars(GuiGoesOn)

-----------------------------------------------------------------------------
\* Properties.

\* A callback finds a running pipeline with its worker, whatever device it comes
\* from; none runs and no worker is left when the engine and the pipeline are
\* destroyed.
LifeOrder ==
  /\ inCallback => running /\ Joinable
  /\ guiStep = "gone" => ~Joinable /\ ~running /\ ~inCallback /\ ~deviceOpen

\* After a reset that met no counting, what the counters say is an account of what
\* came since: every callback is answered and counted by the engine, too.  Lateness
\* is no longer latency: the backlog at the time of the reset stays in the line, and
\* is in no counter.
CountersSinceReset ==
  clean /\ guiStep # "reset" =>
    /\ Count("processedBlocks") + OneIf(inCallback) = Count("submitted") + Count("unsupported")
    /\ Count("submitted") + Count("unsupported")
         = Count("consumed") + Count("late") + OneIf(audioStep # "idle")
    /\ audioStep = "idle" =>
         Count("late") + backlogAtReset
           = Backlog + Count("droppedInput") + Count("droppedOutput")

\* Closing the window ends the program.
QuitReturns == quitting ~> guiStep = "gone"
=============================================================================
