CONSTANTS
  Arguments <- MCArguments
  Devices <- MCDevices
  OwnThread = FALSE
  MaxCalls = 2
  MaxClicks = 3
SPECIFICATION Spec
INVARIANT TypeOK
INVARIANT BypassIsKept
INVARIANT BlockIsWhole
\* The device may stop calling back and the user clicking.
CHECK_DEADLOCK FALSE
