SPECIFICATION Spec
CONSTANTS
  MaxRuns = 2
  MaxUserMsgs = 2
  MaxBatches = 1
  MaxUnread = 0
  Batches <- MCBatches
  OneAtATime = TRUE
  Interrupt = TRUE
INVARIANTS
  LoopInv
  ExclusiveRunsAlone
  SkippedOnlyForSteering
  CallsArePaired
  SteeringInOrder
  MessageKept
CHECK_DEADLOCK FALSE
PROPERTIES
  WaitsEnd
