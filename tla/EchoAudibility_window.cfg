SPECIFICATION AudibilitySpec
CONSTANTS
  DownsampledSize = 4
  FilterLength = 2
  DefaultDelay = 2
  ExcessInterval = 2
  MaxExcess = 1
  ActivityLimit = 2
  Estimates <- MCEstimates
  AudioDelaysMs <- MCAudioDelays
  DelayModes = {FALSE}
  MaxCalls = 8
  WindowLength = 3
  None = None
INVARIANTS
  WindowIsConsecutive
CHECK_DEADLOCK FALSE
