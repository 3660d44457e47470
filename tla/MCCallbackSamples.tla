------------------------- MODULE MCCallbackSamples -------------------------
(* Buffers and replies for CallbackSamples: mono, stereo and too many      *)
(* channels, missing pointers, chunks that fit a block and chunks that do  *)
(* not.                                                                    *)
EXTENDS CallbackSamples

Buffers(channels, present) == [given |-> TRUE, channels |-> channels, present |-> present]
NoBuffers == [given |-> FALSE, channels |-> 0, present |-> {}]

MCInBuffers ==
  {Buffers(1, {0}), Buffers(2, {0, 1}), Buffers(2, {1}), Buffers(3, {0, 1, 2}), NoBuffers}
MCOutBuffers ==
  {Buffers(1, {0}), Buffers(2, {1}), Buffers(3, {0, 1, 2}), Buffers(0, {}), NoBuffers}

Reply(c, f, s) == [channels |-> c, frames |-> f, size |-> s]
MCReplies == {Reply(1, 2, 2), Reply(2, 1, 2), Reply(2, 2, 3), Reply(0, 1, 0), Reply(1, 3, 3)}
=============================================================================
