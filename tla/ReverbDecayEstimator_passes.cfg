SPECIFICATION Spec
CONSTANTS
  FilterLength = 13
  EarlyReverbMinSize = 3
  BlocksPerSection = 6
  SectionsToAnalyze = 3
  LateReverbMinSize = 5
INVARIANTS
  NothingBeyondTheFilter
  EstimateFromOneRegion
PROPERTIES
  SteadyFilterIsEstimated
