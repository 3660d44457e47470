CONSTANTS
  Models <- MCModels
  NoModel = NoModel
  Chunks <- MCChunks
  NoOne = NoOne
  ReplyDims <- MCReplyDims
  Iterations = {0, 2}
  MaxCalls = 5
SPECIFICATION Spec
INVARIANT TypeOK
INVARIANT MetadataAreOfSession
INVARIANT CountsAreOfModel
INVARIANT OutputIsOfInput
\* The caller need not call again.
CHECK_DEADLOCK FALSE
