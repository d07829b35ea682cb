SPECIFICATION FairSpec
CONSTANTS
  r1 = r1
  r2 = r2
  o1 = o1
  o2 = o2
  Run = {r1, r2}
  Owner = {o1, o2}
  OwnerOf <- MCOwnerOf
  Poller = {1}
  Disposing = {o1, o2}
  NoRun = NoRun
  MaxRunning = 2
  MaxAttempts = 1
INVARIANTS
  DeliveryInv
  QueueIsServed
  ResultKept
PROPERTIES
  AckSticks
  ResultArrives
CHECK_DEADLOCK FALSE
