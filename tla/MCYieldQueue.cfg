SPECIFICATION FairSpec
CONSTANTS
  r1 = r1
  r2 = r2
  Result = {r1, r2}
  MaxGen = 1
  MaxPrompts = 2
INVARIANTS
  YieldInv
PROPERTIES
  ScheduledIsServed
CHECK_DEADLOCK FALSE
