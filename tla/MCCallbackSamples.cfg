CONSTANTS
  MaxChannels = 2
  MaxFrames = 2
  QueueCapacity = 1
  InBuffers <- MCInBuffers
  OutBuffers <- MCOutBuffers
  FrameCounts = {0, 1, 2, 3}
  Replies <- MCReplies
  MaxCalls = 3
SPECIFICATION Spec
INVARIANT TypeOK
INVARIANT PlayedIsOneBlock
INVARIANT PoppedIsPlayed
\* The device may stop calling back.
CHECK_DEADLOCK FALSE
