SPECIFICATION Spec
CONSTANTS
  HistogramSize = 2
  MaxLag = 4
  InitialThreshold = 0
  ConvergedThreshold = 1
  StabilityLimit = 2
  DownSamplingFactor = 2
  BlockSize = 2
  HeadroomSamples = 1
  HysteresisLimit = 1
  ConsistentLimit = 2
  None = None
INVARIANTS
  RestartedWithoutClockdrift
