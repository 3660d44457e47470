---------------------------- MODULE OnnxBackend ----------------------------
(***************************************************************************)
(* src/inference/OnnxBackend.cpp, built with ONNX Runtime, with            *)
(* AudioTensorAdapter.cpp and IVoiceConversionBackend.cpp: load a model,   *)
(* load another, warm up, process, where every call into the runtime or    *)
(* the allocator may throw.  One thread at a time calls a backend, so a    *)
(* call is cut where it may throw or return early.                         *)
(*                                                                         *)
(* A model is what inspection sees of it, samples are named by the chunk   *)
(* they came from, and processing keeps the name.  Durations are left out. *)
(***************************************************************************)
EXTENDS Integers, Sequences

CONSTANTS
  Models,      \* what a path may hold: [inputs, outputs, in, out], where in and out are the
               \* [float32, dims] of the first input and output tensor
  NoModel,     \* no session
  Chunks,      \* what a caller may pass: [from, channels, frames, size], size the samples it has
  NoOne,       \* the origin of the samples of a chunk or tensor that holds none
  ReplyDims,   \* dimensions a run may answer with
  Iterations,  \* what warmUp may be asked for
  MaxCalls     \* bound: calls of process and warmUp, loads

ASSUME NoModelAssumption == NoModel \notin Models
ASSUME CountAssumption == Iterations \subseteq Nat /\ MaxCalls \in Nat

VARIABLES
  session, names,                      \* the model of the session, and whose names are stored
  inputShape, outputShape, inputTensor,
  modelLoaded, processedChunks, warmupRuns,      \* stats
  step, model, chunk, reply,           \* where a call stands and what it works on
  runsLeft, runCount,                  \* the loop of warmUp; runCount = 0: process itself was called
  output,                              \* the chunk process writes
  result,                              \* of the last call
  calls                                \* counted for the bound

metadata == <<names, inputShape, outputShape, inputTensor>>
stats == <<modelLoaded, processedChunks, warmupRuns>>
loop == <<runsLeft, runCount>>
vars == <<session, metadata, stats, step, model, chunk, reply, loop, output, result, calls>>

NoShape == [channels |-> 0, frames |-> 0]
EmptyTensor == [from |-> NoOne, size |-> 0]
EmptyChunk == [from |-> NoOne, channels |-> 0, frames |-> 0, size |-> 0]

SampleCount(s) == s.channels * s.frames
Valid(shape) == shape.channels > 0 /\ shape.frames > 0
ToDims(shape) == <<1, shape.channels, shape.frames>>

\* readStaticAudioTensorShape: which tensors it accepts, and the shape it returns.
IsStaticAudio(tensor) ==
  /\ tensor.float32 /\ Len(tensor.dims) = 3 /\ tensor.dims[1] = 1
  /\ tensor.dims[2] > 0 /\ tensor.dims[3] > 0
StaticShape(tensor) == [channels |-> tensor.dims[2], frames |-> tensor.dims[3]]

Init ==
  /\ session = NoModel /\ names = NoModel
  /\ inputShape = NoShape /\ outputShape = NoShape /\ inputTensor = EmptyTensor
  /\ modelLoaded = FALSE /\ processedChunks = 0 /\ warmupRuns = 0
  /\ step = "idle" /\ model = NoModel /\ chunk = EmptyChunk /\ reply = <<>>
  /\ runsLeft = 0 /\ runCount = 0
  /\ output = EmptyChunk /\ result = "none" /\ calls = 0

\* A caller makes its next call.
NewCall == step = "idle" /\ calls < MaxCalls /\ calls' = calls + 1
Returns(r) == step' = "idle" /\ result' = r

-----------------------------------------------------------------------------
\* loadModel.

ResetMetadata ==
  /\ names' = NoModel
  /\ inputShape' = NoShape /\ outputShape' = NoShape /\ inputTensor' = EmptyTensor

LoadEmptyPath ==
  /\ NewCall
  /\ Returns("error")
  /\ UNCHANGED <<session, metadata, stats, model, chunk, reply, loop, output>>

\* Mutant: the counts of the model before go on.
LoadKeepsCounts(m) ==
  /\ NewCall
  /\ model' = m
  /\ modelLoaded' = FALSE
  /\ ResetMetadata
  /\ step' = "create"
  /\ UNCHANGED <<session, processedChunks, warmupRuns, chunk, reply, loop, output, result>>

Load(m) ==
  /\ NewCall
  /\ model' = m
  /\ modelLoaded' = FALSE /\ processedChunks' = 0 /\ warmupRuns' = 0
  /\ ResetMetadata
  /\ step' = "create"
  /\ UNCHANGED <<session, chunk, reply, loop, output, result>>

CreateSession ==
  /\ step = "create"
  /\ session' = model
  /\ step' = "inspect"
  /\ UNCHANGED <<metadata, stats, model, chunk, reply, loop, output, result, calls>>

\* inspectModel, up to the names.
InspectNames ==
  /\ step = "inspect"
  /\ session.inputs = 1 /\ session.outputs = 1
  /\ names' = session
  /\ step' = "input shape"
  /\ UNCHANGED <<session, inputShape, outputShape, inputTensor, stats, model, chunk, reply, loop,
                 output, result, calls>>

InspectInput ==
  /\ step = "input shape"
  /\ IsStaticAudio(session.in)
  /\ inputShape' = StaticShape(session.in)
  /\ step' = "output shape"
  /\ UNCHANGED <<session, names, outputShape, inputTensor, stats, model, chunk, reply, loop, output,
                 result, calls>>

InspectOutput ==
  /\ step = "output shape"
  /\ IsStaticAudio(session.out)
  /\ outputShape' = StaticShape(session.out)
  /\ step' = "tensor"
  /\ UNCHANGED <<session, names, inputShape, inputTensor, stats, model, chunk, reply, loop, output,
                 result, calls>>

FinishLoad ==
  /\ step = "tensor"
  /\ inputTensor' = [from |-> NoOne, size |-> SampleCount(inputShape)]
  /\ modelLoaded' = TRUE
  /\ Returns("ok")
  /\ UNCHANGED <<session, names, inputShape, outputShape, processedChunks, warmupRuns, model, chunk,
                 reply, loop, output, calls>>

\* Inspection refuses the model, or something throws: the three paths do the same.
LoadSteps == {"create", "inspect", "input shape", "output shape", "tensor"}

\* Mutant: what throws leaves the session there is.
LoadFailsKeepsSession ==
  /\ step \in LoadSteps
  /\ ResetMetadata
  /\ modelLoaded' = FALSE
  /\ Returns("error")
  /\ UNCHANGED <<session, processedChunks, warmupRuns, model, chunk, reply, loop, output, calls>>

LoadFails ==
  /\ step \in LoadSteps
  /\ session' = NoModel
  /\ ResetMetadata
  /\ modelLoaded' = FALSE
  /\ Returns("error")
  /\ UNCHANGED <<processedChunks, warmupRuns, model, chunk, reply, loop, output, calls>>

-----------------------------------------------------------------------------
\* process and warmUp.

Process(c) ==
  /\ NewCall
  /\ chunk' = c
  /\ runsLeft' = 1 /\ runCount' = 0
  /\ step' = "check"
  /\ UNCHANGED <<session, metadata, stats, model, reply, output, result>>

\* Mutant: zero iterations are none.
WarmUpMayBeEmpty(c, iterations) ==
  /\ NewCall
  /\ chunk' = c
  /\ runCount' = iterations
  /\ runsLeft' = runCount'
  /\ output' = EmptyChunk
  /\ step' = "check"
  /\ UNCHANGED <<session, metadata, stats, model, reply, result>>

\* Zero iterations count as one; the output of a warm-up is a chunk of its own.
WarmUp(c, iterations) ==
  /\ NewCall
  /\ chunk' = c
  /\ runCount' = IF iterations = 0 THEN 1 ELSE iterations
  /\ runsLeft' = runCount'
  /\ output' = EmptyChunk
  /\ step' = "check"
  /\ UNCHANGED <<session, metadata, stats, model, reply, result>>

\* validateChunkMatchesShape.
Matches(c, shape) ==
  /\ Valid(shape)
  /\ c.channels = shape.channels /\ c.frames = shape.frames
  /\ c.size >= SampleCount(c)

\* Mutant: a tensor that has its size already is taken as filled.
FillTensorOnce ==
  /\ step = "check"
  /\ session # NoModel
  /\ Matches(chunk, inputShape)
  /\ inputTensor' = IF inputTensor.from # NoOne THEN inputTensor
                    ELSE [from |-> chunk.from, size |-> SampleCount(inputShape)]
  /\ step' = "run"
  /\ UNCHANGED <<session, names, inputShape, outputShape, stats, model, chunk, reply, loop, output,
                 result, calls>>

FillTensor ==
  /\ step = "check"
  /\ session # NoModel
  /\ Matches(chunk, inputShape)
  /\ inputTensor' = [from |-> chunk.from, size |-> SampleCount(inputShape)]
  /\ step' = "run"
  /\ UNCHANGED <<session, names, inputShape, outputShape, stats, model, chunk, reply, loop, output,
                 result, calls>>

Run(dims) ==
  /\ step = "run"
  /\ reply' = dims
  /\ step' = "reply"
  /\ UNCHANGED <<session, metadata, stats, model, chunk, loop, output, result, calls>>

\* copyTensorToAudioChunk and recordProcessTime.
ReplyIsExpected == reply = ToDims(outputShape)
WriteOutput ==
  output' = [from |-> inputTensor.from, channels |-> outputShape.channels,
             frames |-> outputShape.frames, size |-> SampleCount(outputShape)]

TakeReply ==
  /\ step = "reply"
  /\ ReplyIsExpected
  /\ WriteOutput
  /\ processedChunks' = processedChunks + 1
  /\ step' = "processed"
  /\ UNCHANGED <<session, metadata, modelLoaded, warmupRuns, model, chunk, reply, loop, result, calls>>

\* Every early return and every catch of process; warmUp passes the error on.
ProcessFails ==
  /\ \/ step = "check" /\ (session = NoModel \/ ~Matches(chunk, inputShape))
     \/ step = "run"
     \/ step = "reply"
  /\ Returns("error")
  /\ UNCHANGED <<session, metadata, stats, model, chunk, reply, loop, output, calls>>

\* The chunk has its new shape when the allocation of its samples throws.
OutputThrows ==
  /\ step = "reply"
  /\ ReplyIsExpected
  /\ output' = [from |-> output.from, channels |-> outputShape.channels,
                frames |-> outputShape.frames, size |-> output.size]
  /\ Returns("error")
  /\ UNCHANGED <<session, metadata, stats, model, chunk, reply, loop, calls>>

NextRun ==
  /\ step = "processed"
  /\ runsLeft > 1
  /\ runsLeft' = runsLeft - 1
  /\ step' = "check"
  /\ UNCHANGED <<session, metadata, stats, model, chunk, reply, runCount, output, result, calls>>

Finish ==
  /\ step = "processed"
  /\ runsLeft = 1
  /\ warmupRuns' = warmupRuns + runCount
  /\ Returns("ok")
  /\ UNCHANGED <<session, metadata, modelLoaded, processedChunks, model, chunk, reply, loop, output,
                 calls>>

Next ==
  \/ LoadEmptyPath
  \/ \E m \in Models : Load(m)
  \/ CreateSession \/ InspectNames \/ InspectInput \/ InspectOutput \/ FinishLoad \/ LoadFails
  \/ \E c \in Chunks : Process(c)
  \/ \E c \in Chunks, n \in Iterations : WarmUp(c, n)
  \/ FillTensor
  \/ \E dims \in ReplyDims : Run(dims)
  \/ TakeReply \/ ProcessFails \/ OutputThrows \/ NextRun \/ Finish

Spec == Init /\ [][Next]_vars

-----------------------------------------------------------------------------
\* Properties.

InProcess == step \in {"check", "run", "reply", "processed"}

\* Every variable has its type, and a loop of process has runs left.
TypeOK ==
  /\ session \in Models \cup {NoModel} /\ model \in Models \cup {NoModel}
  /\ modelLoaded \in BOOLEAN /\ processedChunks \in Nat /\ warmupRuns \in Nat
  /\ step \in {"idle"} \cup LoadSteps \cup {"check", "run", "reply", "processed"}
  /\ runsLeft \in Nat /\ runCount \in Nat
  /\ InProcess => runsLeft > 0 /\ (runCount = 0 \/ runsLeft <= runCount)
  /\ result \in {"none", "ok", "error"}
  /\ calls \in 0 .. MaxCalls

\* The model is one that inspection accepts, and the metadata are its own.
IsAccepted(m) ==
  /\ m.inputs = 1 /\ m.outputs = 1
  /\ IsStaticAudio(m.in) /\ IsStaticAudio(m.out)
MetadataAreOf(m) ==
  /\ names = m
  /\ inputShape = StaticShape(m.in) /\ outputShape = StaticShape(m.out)
  /\ inputTensor.size = SampleCount(inputShape)
NoMetadata ==
  /\ names = NoModel
  /\ inputShape = NoShape /\ outputShape = NoShape /\ inputTensor = EmptyTensor

\* Outside loadModel the backend is either loaded, with a session of an accepted model
\* and the metadata of that model and no other, or not loaded, with nothing: wherever a
\* load failed, and whatever was loaded before; only a loaded backend runs its model.
\* While a model is loaded, the metadata have come as far as inspection has.
MetadataAreOfSession ==
  /\ step \notin LoadSteps =>
       \/ modelLoaded /\ session # NoModel /\ IsAccepted(session) /\ MetadataAreOf(session)
       \/ ~modelLoaded /\ session = NoModel /\ NoMetadata
  /\ step \in {"run", "reply", "processed"} => modelLoaded
  /\ step \in LoadSteps => ~modelLoaded /\ model # NoModel
  /\ step \in LoadSteps \ {"create"} => session = model
  /\ step \in {"input shape", "output shape", "tensor"} =>
       session.inputs = 1 /\ session.outputs = 1 /\ names = session
  /\ step \in {"output shape", "tensor"} =>
       IsStaticAudio(session.in) /\ inputShape = StaticShape(session.in)
  /\ step = "tensor" =>
       IsStaticAudio(session.out) /\ outputShape = StaticShape(session.out)

\* The runs that the warm-up under way has made.
RunsDone ==
  IF InProcess /\ runCount > 0
  THEN runCount - runsLeft + (IF step = "processed" THEN 1 ELSE 0)
  ELSE 0

\* The counts are those of the model that is loaded: none of an earlier model is left,
\* also when the load failed that was to replace it; and every warm-up run that is
\* counted is a chunk that was processed (test_inference_backends.cpp: the process
\* count should include warm-up), also when a warm-up fails half way.
CountsAreOfModel ==
  /\ ~modelLoaded => processedChunks = 0 /\ warmupRuns = 0
  /\ warmupRuns + RunsDone <= processedChunks

\* What is run is the chunk of this call in the shape of the model's input; what is
\* returned is made from it, in the shape of the model's output.  No tensor of an
\* earlier chunk or of an earlier model is used.
OutputIsOfInput ==
  /\ step \in {"run", "reply"} =>
       inputTensor = [from |-> chunk.from, size |-> SampleCount(StaticShape(session.in))]
  /\ step = "processed" =>
       LET shape == StaticShape(session.out)
       IN output = [from |-> chunk.from, channels |-> shape.channels, frames |-> shape.frames,
                    size |-> SampleCount(shape)]
=============================================================================
