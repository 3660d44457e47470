\* Two resets, so that one may race with the worker and the next one not.
CONSTANTS
  Durations = {0, 1, 3}
  MaxBlocks = 4
  MaxResets = 2
SPECIFICATION LiveSpec
INVARIANT TimesAgree
 
PROPERTY RecordingEnds
\* The worker may have no more blocks.
CHECK_DEADLOCK FALSE
