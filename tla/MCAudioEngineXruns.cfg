CONSTANTS
  Arguments <- MCArguments
  Devices <- MCDevices
  OwnThread = FALSE
  MaxCalls = 2
  MaxClicks = 1
SPECIFICATION Spec
INVARIANT MissingIsCounted
CHECK_DEADLOCK FALSE
