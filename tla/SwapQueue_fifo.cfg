SPECIFICATION FairSpec
CONSTANTS
  Size = 3
  MaxItems = 8
INVARIANTS
  NoSlotRace
  BuffersConserved
PROPERTIES
  ImplementsFifo
  RemovedInOrder
  QueuedIsRemoved
