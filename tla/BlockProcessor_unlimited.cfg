SPECIFICATION BlockSpec
CONSTANTS
  DownsampledSize = 4
  FilterLength = 2
  DefaultDelay = 2
  ExcessInterval = 2
  MaxExcess = 1
  ActivityLimit = 2
  Estimates <- MCEstimates
  AudioDelaysMs <- MCAudioDelays
  DelayModes = {TRUE}
  MaxCalls = 8
  None = None
INVARIANTS
  NoFailedCheck
CHECK_DEADLOCK FALSE
