---------------------------- MODULE AudioBlocks ----------------------------
(***************************************************************************)
(* How samples are copied between the device's buffers, an AudioBlock      *)
(* (src/audio/AudioBlock.h: a fixed array of MaxChannels rows of MaxFrames *)
(* samples, of which a block uses channels rows and frames columns) and an *)
(* AudioChunk (src/common/AudioChunk.h: a vector of rows of frames         *)
(* samples, one after the other).  Copying never clears what it does not   *)
(* write, so a block or a device buffer keeps whatever was there before.   *)
(*                                                                         *)
(* A sample is known by where the device delivered it: the callback, the   *)
(* channel and the frame.                                                  *)
(*                                                                         *)
(* The buffers of a callback are [given, channels, present]: whether the   *)
(* array of pointers is there, its length, the channels whose pointer is   *)
(* not null.                                                               *)
(***************************************************************************)
EXTENDS Integers, Sequences, FiniteSetsExt

CONSTANTS
  MaxChannels,   \* kMaxRealtimeChannels
  MaxFrames      \* kMaxRealtimeFrames

ASSUME MaxAssumption == MaxChannels \in Nat \ {0} /\ MaxFrames \in Nat \ {0}

Sample(call, c, f) == [call |-> call, channel |-> c, frame |-> f]
Silence == Sample(0, 0, 0)    \* 0.0F

Rows == 0 .. MaxChannels - 1
Columns == 0 .. MaxFrames - 1
SilentRows == [c \in Rows |-> [f \in Columns |-> Silence]]
EmptyBlock == [channels |-> 0, frames |-> 0, sequence |-> 0, samples |-> SilentRows]
EmptyChunk == [channels |-> 0, frames |-> 0, samples |-> <<>>]

Supports(channels, frames) == channels \in 1 .. MaxChannels /\ frames \in 1 .. MaxFrames

\* The channel that feeds channel c of an output: mono feeds all, and the last
\* channel feeds those beyond it.
SourceChannel(c, channels) == IF channels = 1 THEN 0 ELSE Min({c, channels - 1})

\* What callback call finds in its input.
Delivered(call, in, c, f) == IF c \in in.present THEN Sample(call, c, f) ELSE Silence

\* copyFrom, when it accepts its input.
Accepts(in, frames) == in.given /\ Supports(in.channels, frames)
CopyFrom(block, call, in, frames) ==
  [channels |-> in.channels, frames |-> frames, sequence |-> call,
   samples |-> [c \in Rows |-> [f \in Columns |->
                  IF c < in.channels /\ f < frames
                  THEN Delivered(call, in, c, f) ELSE block.samples[c][f]]]]

\* Mutant: as many frames as the callback has, whatever the block holds.
CopyToAllFrames(block, out, frames) ==
  [c \in out.present |->
     [f \in 0 .. frames - 1 |->
        IF f < MaxFrames THEN block.samples[SourceChannel(c, block.channels)][f] ELSE Silence]]

\* copyTo: cut to the frames of the callback, or filled up with silence.
Plays(block, out, frames) ==
  out.given /\ out.channels > 0 /\ frames > 0 /\ block.channels > 0 /\ block.frames > 0
CopyTo(block, out, frames) ==
  [c \in out.present |->
     [f \in 0 .. frames - 1 |->
        IF f < block.frames THEN block.samples[SourceChannel(c, block.channels)][f] ELSE Silence]]

\* copyDryToOutput of callback call.
CopyDryToOutput(call, in, out, frames) ==
  [c \in out.present |->
     [f \in 0 .. frames - 1 |->
        IF in.given /\ in.channels > 0
        THEN Delivered(call, in, SourceChannel(c, in.channels), f) ELSE Silence]]

CopyBlockToChunk(block) ==
  [channels |-> block.channels, frames |-> block.frames,
   samples |-> [i \in 1 .. block.channels * block.frames |->
                  block.samples[(i - 1) \div block.frames][(i - 1) % block.frames]]]

\* Mutant: only the length of the vector is checked.
FitsAnyShape(chunk) == Len(chunk.samples) >= chunk.channels * chunk.frames

\* copyChunkToBlock, when it accepts the chunk.
Fits(chunk) ==
  Supports(chunk.channels, chunk.frames) /\ Len(chunk.samples) >= chunk.channels * chunk.frames

CopyChunkToBlock(chunk, sequence, block) ==
  [channels |-> chunk.channels, frames |-> chunk.frames, sequence |-> sequence,
   samples |-> [c \in Rows |-> [f \in Columns |->
                  IF c < chunk.channels /\ f < chunk.frames
                  THEN chunk.samples[c * chunk.frames + f + 1] ELSE block.samples[c][f]]]]
=============================================================================
