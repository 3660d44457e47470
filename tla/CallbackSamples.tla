-------------------------- MODULE CallbackSamples --------------------------
(***************************************************************************)
(* What the device plays: the samples on their way through                 *)
(* processReplacingFromAudioThread and workerLoop of                       *)
(* src/audio/AudioWorkerPipeline.cpp, while the numbers of channels and    *)
(* frames change from callback to callback.  Every buffer on the way is    *)
(* used again for the next block, cleared by nobody.                       *)
(*                                                                         *)
(* This is the pipeline of module AudioWorkerPipeline, where a block is a  *)
(* number, with the samples put in.  The interleavings are the business of *)
(* that module: here a queue is a sequence, the callback takes two steps   *)
(* (submitting, playing) and an iteration of the worker takes one.         *)
(***************************************************************************)
EXTENDS AudioBlocks

CONSTANTS
  QueueCapacity,
  InBuffers, OutBuffers,   \* the buffers a callback may get (see AudioBlocks)
  FrameCounts,             \* the frames a callback may get
  Replies,                 \* [channels, frames, size] of the chunks a backend may return
  MaxCalls                 \* bound: callbacks

ASSUME BuffersAssumption ==
  /\ InBuffers # {} /\ FrameCounts # {} /\ FrameCounts \subseteq Nat
  /\ \A b \in InBuffers \cup OutBuffers : b.channels \in Nat /\ b.present \subseteq 0 .. b.channels - 1
ASSUME RepliesAssumption ==
  \A r \in Replies : r.channels \in Nat /\ r.frames \in Nat /\ r.size \in Nat
ASSUME BoundAssumption == QueueCapacity \in Nat /\ MaxCalls \in Nat

VARIABLES
  calls,            \* nextSequence_ - 1
  in, frames,       \* arguments of the callback
  submitted,        \* the callback has submitted its input and has not played yet
  inputScratch, outputScratch, inputQueue, outputQueue,
  input, output,    \* workerLoop's blocks
  backendInput, backendOutput,   \* backendInputScratch_, backendOutputScratch_
  played,           \* what the callback did, once it is over: its output buffers and what
                    \* is in them
  made              \* history: the shape of every block, and whose samples it holds

audioVars == <<calls, in, frames, submitted, inputScratch, outputScratch, played>>
workerVars == <<input, output, backendInput, backendOutput>>
vars == <<audioVars, workerVars, inputQueue, outputQueue, made>>

Nothing == [out |-> CHOOSE out \in OutBuffers : TRUE, frames |-> 0, popped |-> FALSE,
            worker |-> FALSE, samples |-> <<>>]

Init ==
  /\ calls = 0 /\ submitted = FALSE
  /\ in = CHOOSE b \in InBuffers : TRUE
  /\ frames = CHOOSE n \in FrameCounts : TRUE
  /\ inputScratch = EmptyBlock /\ outputScratch = EmptyBlock
  /\ inputQueue = <<>> /\ outputQueue = <<>>
  /\ input = EmptyBlock /\ output = EmptyBlock
  /\ backendInput = EmptyChunk /\ backendOutput = EmptyChunk
  /\ played = Nothing
  /\ made = <<>>

\* submitInputFromAudioThread: the scratch block, then a copy of it in the queue.
SubmitInput(b, n) ==
  /\ ~submitted
  /\ calls < MaxCalls
  /\ calls' = calls + 1
  /\ in' = b /\ frames' = n
  /\ submitted' = TRUE
  /\ inputScratch' = IF Accepts(b, n) THEN CopyFrom(inputScratch, calls', b, n) ELSE inputScratch
  /\ inputQueue' = IF Accepts(b, n) /\ Len(inputQueue) < QueueCapacity
                   THEN Append(inputQueue, inputScratch') ELSE inputQueue
  /\ made' = Append(made, [in |-> b, channels |-> b.channels, frames |-> n, new |-> FALSE])
  /\ played' = Nothing
  /\ UNCHANGED <<outputScratch, workerVars, outputQueue>>

\* tryConsumeOutputFromAudioThread, then copyTo or copyDryToOutput.
PlayOutput(out) ==
  /\ submitted
  /\ submitted' = FALSE
  /\ outputScratch' = IF outputQueue = <<>> THEN outputScratch ELSE Head(outputQueue)
  /\ outputQueue' = IF outputQueue = <<>> THEN <<>> ELSE Tail(outputQueue)
  /\ LET popped == outputQueue # <<>>
         worker == popped /\ Plays(outputScratch', out, frames)
     IN played' = [out |-> out, frames |-> frames, popped |-> popped, worker |-> worker,
                   samples |-> IF worker THEN CopyTo(outputScratch', out, frames)
                               ELSE IF out.given THEN CopyDryToOutput(calls, in, out, frames)
                               ELSE <<>>]
  /\ UNCHANGED <<calls, in, frames, inputScratch, workerVars, inputQueue, made>>

-----------------------------------------------------------------------------
\* An iteration of workerLoop: what it does with every block, and then the three
\* ways it comes by its output.

WorkerTakes ==
  /\ input' = Head(inputQueue)
  /\ inputQueue' = Tail(inputQueue)
  /\ outputQueue' = IF Len(outputQueue) < QueueCapacity
                    THEN Append(outputQueue, output') ELSE outputQueue
  /\ UNCHANGED audioVars

\* No backend, or an error of it.
WorkerCopies ==
  /\ inputQueue # <<>>
  /\ output' = Head(inputQueue)
  /\ WorkerTakes
  /\ UNCHANGED <<backendInput, backendOutput, made>>

\* The backend keeps the shape and converts sample by sample, as the dummy does.
WorkerConverts ==
  /\ inputQueue # <<>>
  /\ backendInput' = CopyBlockToChunk(Head(inputQueue))
  /\ backendOutput' = backendInput'
  /\ output' = CopyChunkToBlock(backendOutput', Head(inputQueue).sequence, output)
  /\ WorkerTakes
  /\ UNCHANGED made

\* What a backend makes of the block of callback call.
ReplyChunk(reply, call) ==
  LET n == Max({1, reply.frames})
  IN [channels |-> reply.channels, frames |-> reply.frames,
      samples |-> [i \in 1 .. reply.size |-> Sample(call, (i - 1) \div n, (i - 1) % n)]]
Remade(m, reply) ==
  [m EXCEPT !.channels = reply.channels, !.frames = reply.frames, !.new = TRUE]

\* The backend returns a chunk of a shape of its own, as a model does; the chunk
\* may not fit a block, or be shorter than its shape says.
WorkerReshapes(reply) ==
  /\ inputQueue # <<>>
  /\ backendInput' = CopyBlockToChunk(Head(inputQueue))
  /\ backendOutput' = ReplyChunk(reply, Head(inputQueue).sequence)
  /\ IF Fits(backendOutput')
     THEN /\ output' = CopyChunkToBlock(backendOutput', Head(inputQueue).sequence, output)
          /\ made' = [made EXCEPT ![Head(inputQueue).sequence] = Remade(@, reply)]
     ELSE output' = Head(inputQueue) /\ UNCHANGED made
  /\ WorkerTakes

Next ==
  \/ \E b \in InBuffers, n \in FrameCounts : SubmitInput(b, n)
  \/ \E out \in OutBuffers : PlayOutput(out)
  \/ WorkerCopies \/ WorkerConverts
  \/ \E reply \in Replies : WorkerReshapes(reply)

Spec == Init /\ [][Next]_vars

-----------------------------------------------------------------------------
\* Properties.

\* Every block on the way has a shape that a block can have.
BlockOK(block) ==
  /\ Supports(block.channels, block.frames)
  /\ block.sequence \in 1 .. calls
TypeOK ==
  /\ calls \in 0 .. MaxCalls /\ submitted \in BOOLEAN
  /\ in \in InBuffers /\ frames \in FrameCounts
  /\ DOMAIN made = 1 .. calls
  /\ \A block \in {inputScratch, outputScratch, input, output} :
       block = EmptyBlock \/ BlockOK(block)
  /\ \A queue \in {inputQueue, outputQueue} :
       /\ Len(queue) <= QueueCapacity
       /\ \A i \in DOMAIN queue : BlockOK(queue[i])

\* What the block of a callback sounds like, from where it was made to where it is
\* played: channel c, frame f.
Expected(call, c, f) ==
  LET block == made[call]
      source == SourceChannel(c, block.channels)
  IN IF f >= block.frames THEN Silence
     ELSE IF block.new THEN Sample(call, source, f) ELSE Delivered(call, block.in, source, f)

\* The frames of every output channel come from one block: the block
\* the worker made of one callback's input, or the dry input of this callback.  No
\* sample is left over from an earlier, longer or wider block in any of the
\* buffers on the way, and none moves to another frame or channel.
PlayedIsOneBlock ==
  LET p == played
      call == IF p.worker THEN outputScratch.sequence ELSE calls
  IN ~submitted /\ p.out.given =>
       \A c \in DOMAIN p.samples : \A f \in DOMAIN p.samples[c] :
         p.samples[c][f] =
           IF p.worker THEN Expected(call, c, f)
           ELSE IF in.given /\ in.channels > 0
           THEN Delivered(call, in, SourceChannel(c, in.channels), f)
           ELSE Silence

\* A block popped from the output queue is played, unless the device gave no
\* buffer to play it into: whatever shape a backend answered with, the callback
\* never loses a block to a failing copyTo.
PoppedIsPlayed ==
  played.popped /\ ~played.worker =>
    ~played.out.given \/ played.out.channels = 0 \/ played.frames = 0
=============================================================================
