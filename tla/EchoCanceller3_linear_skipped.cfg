SPECIFICATION Spec
CONSTANTS
  QueueSize = 2
  MaxRender = 2
  MaxCapture = 4
  FixedDelays = {0}
  ReportingInterval = 3
  LinearRequests = {TRUE, FALSE}
INVARIANTS
  NoFailedCheck
CHECK_DEADLOCK FALSE
