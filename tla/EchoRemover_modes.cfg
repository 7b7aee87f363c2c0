SPECIFICATION Spec
CONSTANTS
  ChangeDuration = 1
  MainLength = 2
  MainInitialLength = 1
  ShadowLength = 1
  ShadowInitialLength = 1
  PoorShadowLimit = 1
  BlockSize = 2
  InitialStateBlocks = 2
  DelayGuessBlocks = 2
  DelayGuess = 0
  UsableSinceStart = 2
  UsableSinceReset = 1
  SaneFilterAtStart = 2
  SaneFilterRecently = 2
  ConvergedBlocks = 1
  NonConvergedLimit = 1
  ActiveNonConvergedLimit = 2
  DivergedLimit = 2
  ShouldHaveConverged = 2
  BoundedErl = FALSE
  LinearAndStable = FALSE
  MaxBlocksPerFrame = 3
  MaxBlocks = 6
  LevelChanges = {TRUE, FALSE}
  Saturations = {TRUE, FALSE}
  Analyses <- AllAnalyses
  Verdicts <- NoVerdict
INVARIANTS
  GainChangeOncePerFrame
  CountersInStep
  TransparentOrLinear
CHECK_DEADLOCK FALSE
