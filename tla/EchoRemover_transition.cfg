SPECIFICATION Spec
CONSTANTS
  ChangeDuration = 2
  MainLength = 3
  MainInitialLength = 1
  ShadowLength = 3
  ShadowInitialLength = 2
  PoorShadowLimit = 2
  BlockSize = 2
  InitialStateBlocks = 3
  DelayGuessBlocks = 2
  DelayGuess = 0
  UsableSinceStart = 2
  UsableSinceReset = 1
  SaneFilterAtStart = 2
  SaneFilterRecently = 3
  ConvergedBlocks = 1
  NonConvergedLimit = 1
  ActiveNonConvergedLimit = 2
  DivergedLimit = 2
  ShouldHaveConverged = 2
  BoundedErl = TRUE
  LinearAndStable = FALSE
  MaxBlocksPerFrame = 3
  MaxBlocks = 10
  LevelChanges = {FALSE}
  Saturations = {FALSE}
  Analyses <- TwoAnalyses
  Verdicts <- AllVerdicts
INVARIANTS
  InitialParametersInInitialState
CHECK_DEADLOCK FALSE
