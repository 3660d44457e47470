\* An estimator is asked once, so the system stops.
CONSTANTS
  SampleRates = {0, 12}
  SettingsGiven <- MCSettingsGiven
  Frames <- MCFrames
SPECIFICATION Spec
INVARIANT IsYin
INVARIANT FrequencyInRange
CHECK_DEADLOCK FALSE
