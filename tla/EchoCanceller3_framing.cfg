SPECIFICATION Spec
CONSTANTS
  QueueSize = 2
  MaxRender = 6
  MaxCapture = 4
  FixedDelays = {0, 3, 14}
  ReportingInterval = 3
  LinearRequests = {TRUE}
INVARIANTS
  NoFailedCheck
  OutputIsDelayedInput
  RenderInOrder
  SaturatedFrameIsFlagged
PROPERTIES
  LostOnlyToAFullQueue
  JitterCountsWholeRuns
CHECK_DEADLOCK FALSE
